-------------------------- MODULE ApkDirsKeepProofs --------------------------
(* Proofs about the lists, the owners and the disk of ApkDirs, from those     *)
(* about its counts.                                                          *)
EXTENDS ApkDirsProofs, ApkDirsLists

------------------------------------------------------------------------------
(* Links and owners.                                                          *)

\* The links of a directory's list stay in its family, and its owner is a package.
LinkInv ==
  /\ owner \in [Dir -> Pkg \cup {None}]
  /\ DOMAIN next = Node \cup Dir /\ DOMAIN prev = Node \cup Dir
  /\ \A d \in Dir : Linked(d, next) /\ Linked(d, prev)

\* apk_db_fdb_read links the instances of each directory among themselves.
LEMMA LoadLinks ==
  ASSUME NEW S \in SUBSET Pkg, Load(S)
  PROVE  LinkInv'
<1>1. ASSUME NEW d \in Dir PROVE Elect(Users(S, d), {}) \in Pkg \cup {None}
  <2>1. Users(S, d) \in Seq(Pkg) /\ \A i \in 1..Len(Users(S, d)) : Users(S, d)[i] \in Pkg
    BY UsersType, Zenon
  <2> QED BY <2>1, ElectType, Zenon
<1>2. owner' \in [Dir -> Pkg \cup {None}]
  BY <1>1, Zenon DEF Load
<1>3. DOMAIN next' = Node \cup Dir /\ DOMAIN prev' = Node \cup Dir
  BY Zenon DEF Load
<1>4. ASSUME NEW d \in Dir, NEW x \in Family(d) \ {Poison}
      PROVE  next'[x] \in Family(d) /\ prev'[x] \in Family(d)
  <2> DEFINE u == Users(S, d)
  <2>0. /\ Len(u) \in Nat /\ DOMAIN u = 1..Len(u) /\ \A i \in 1..Len(u) : u[i] \in Pkg
        /\ \A p \in S : d \in DirsOf[p] => \E i \in 1..Len(u) : u[i] = p
    BY UsersType, Zenon
  <2>1. CASE x = d
    <3>1. /\ next'[d] = IF Len(u) = 0 THEN d ELSE <<u[1], d>>
          /\ prev'[d] = IF Len(u) = 0 THEN d ELSE <<u[Len(u)], d>>
      BY Zenon DEF Load
    <3> HIDE DEF u
    <3> QED BY <2>0, <2>1, <3>1 DEF Family
  <2>2. CASE x # d
    <3>1. x \in Node /\ x \notin Dir /\ x[1] \in Pkg /\ x[2] = d
      BY <2>2, FamilyApart, ConstantsAssumption
    <3> DEFINE i == CHOOSE j \in DOMAIN u : u[j] = x[1]
               after(q, e) == LET w == Users(S, e)
                                  k == CHOOSE j \in DOMAIN w : w[j] = q
                              IN IF k = Len(w) THEN e ELSE <<w[k+1], e>>
               before(q, e) == LET w == Users(S, e)
                                   k == CHOOSE j \in DOMAIN w : w[j] = q
                               IN IF k = 1 THEN e ELSE <<w[k-1], e>>
    <3>a. /\ next'[x] = IF x[1] \in S /\ x[2] \in DirsOf[x[1]] THEN after(x[1], x[2]) ELSE x
          /\ prev'[x] = IF x[1] \in S /\ x[2] \in DirsOf[x[1]] THEN before(x[1], x[2]) ELSE x
      BY <3>1, Zenon DEF Load
    <3>b. /\ after(x[1], d) = IF i = Len(u) THEN d ELSE <<u[i+1], d>>
          /\ before(x[1], d) = IF i = 1 THEN d ELSE <<u[i-1], d>>
      BY Zenon
    <3> HIDE DEF after, before
    <3>2. /\ next'[x] = IF x[1] \in S /\ d \in DirsOf[x[1]]
                        THEN IF i = Len(u) THEN d ELSE <<u[i+1], d>> ELSE x
          /\ prev'[x] = IF x[1] \in S /\ d \in DirsOf[x[1]]
                        THEN IF i = 1 THEN d ELSE <<u[i-1], d>> ELSE x
      <4> HIDE DEF i, u
      <4> QED BY <3>1, <3>a, <3>b, Zenon
    <3>3. x[1] \in S /\ d \in DirsOf[x[1]] => i \in 1..Len(u)
      <4> HIDE DEF u
      <4> QED BY <2>0, Zenon
    <3> HIDE DEF u, i
    <3> QED BY <2>0, <3>2, <3>3 DEF Family
  <2> QED BY <2>1, <2>2, Zenon
<1> QED BY <1>2, <1>3, <1>4, Zenon DEF LinkInv, Linked

\* list_add_tail links a node to the head and the last node of its own list.
LEMMA AddTailLinks ==
  ASSUME LinkInv, NEW p \in Pkg, NEW D \in SUBSET Dir, ListAddTail(p, D), owner' = owner
  PROVE  LinkInv'
<1>1. DOMAIN next' = Node \cup Dir /\ DOMAIN prev' = Node \cup Dir
  BY Zenon DEF ListAddTail, LinkInv
<1>2. ASSUME NEW d \in Dir, NEW x \in Family(d) \ {Poison}
      PROVE  next'[x] \in Family(d) /\ prev'[x] \in Family(d)
  <2>1. /\ next[x] \in Family(d) /\ prev[x] \in Family(d) /\ prev[d] \in Family(d)
        /\ \A e \in Dir : prev[e] \in Family(e)
        /\ x \in Node \cup Dir
    BY FamilyApart, ConstantsAssumption DEF LinkInv, Linked, Family
  <2>2. \A e \in D : x = e \/ x = <<p, e>> \/ x = prev[e] => e = d
    BY <2>1, FamilyApart DEF Family
  <2>3. prev'[x] = IF x \in D THEN <<p, x>>
                   ELSE IF \E e \in D : x = <<p, e>> THEN prev[x[2]] ELSE prev[x]
    BY <2>1, Zenon DEF ListAddTail, LinkInv
  <2>4. prev'[x] \in Family(d)
    BY <2>1, <2>2, <2>3 DEF Family
  <2>5. next'[x] = IF \E e \in D : x = prev[e] THEN <<p, (CHOOSE e \in D : x = prev[e])>>
                   ELSE IF \E e \in D : x = <<p, e>> THEN x[2] ELSE next[x]
    BY <2>1, Zenon DEF ListAddTail, LinkInv
  <2>6. (\E e \in D : x = prev[e]) => (CHOOSE e \in D : x = prev[e]) = d
    BY <2>2, Zenon
  <2>7. next'[x] \in Family(d)
    BY <2>1, <2>2, <2>5, <2>6 DEF Family
  <2> QED BY <2>4, <2>7, Zenon
<1> QED BY <1>1, <1>2, Zenon DEF LinkInv, Linked

\* list_del within the family of d.
LEMMA UnlinkLinks ==
  ASSUME LinkInv, NEW p \in Pkg, NEW d \in Dir
  PROVE  LET list == Unlinked(<<p, d>>)
         IN /\ DOMAIN list.next = Node \cup Dir /\ DOMAIN list.prev = Node \cup Dir
            /\ \A e \in Dir : Linked(e, list.next) /\ Linked(e, list.prev)
<1> DEFINE n == <<p, d>>
           nx == [next EXCEPT ![prev[n]] = next[n], ![n] = Poison]
           pv == [prev EXCEPT ![next[n]] = prev[n], ![n] = Poison]
<1>1. Unlinked(n).next = nx /\ Unlinked(n).prev = pv
  BY Zenon DEF Unlinked
<1>2. n \in Family(d) /\ n \in Node /\ n # Poison
  BY ConstantsAssumption DEF Family, Node
<1>3. next[n] \in Family(d) /\ prev[n] \in Family(d)
  BY <1>2, Zenon DEF LinkInv, Linked
<1>4. DOMAIN nx = Node \cup Dir /\ DOMAIN pv = Node \cup Dir
  BY Zenon DEF LinkInv
<1>5. ASSUME NEW e \in Dir, NEW x \in Family(e) \ {Poison}
      PROVE  nx[x] \in Family(e) /\ pv[x] \in Family(e)
  <2>1. x \in Node \cup Dir /\ next[x] \in Family(e) /\ prev[x] \in Family(e)
    BY FamilyApart, Zenon DEF LinkInv, Linked
  <2>2. x = n \/ x = prev[n] \/ x = next[n] => e = d
    BY <1>2, <1>3, FamilyApart
  <2>3. /\ nx[x] = IF x = n THEN Poison ELSE IF x = prev[n] THEN next[n] ELSE next[x]
        /\ pv[x] = IF x = n THEN Poison ELSE IF x = next[n] THEN prev[n] ELSE prev[x]
    BY <2>1, Zenon DEF LinkInv
  <2> QED BY <1>3, <2>1, <2>2, <2>3, Zenon DEF Family
<1> HIDE DEF nx, pv
<1> QED BY <1>1, <1>4, <1>5, Zenon DEF Linked

\* apk_db_install_file makes no links but those of empty lists, and an owner of the new package.
LEMMA InstallLinks ==
  ASSUME DirInv, LinkInv, NEW d \in Dir \ {Root}, InstallDir(d)
  PROVE  LinkInv'
<1> DEFINE now == IF owner[d] = None \/ ReplacesDir(owner[d], New, removing) THEN New ELSE owner[d]
<1>1. pc = "unpack" /\ owner' = [owner EXCEPT ![d] = now]
  BY Zenon DEF InstallDir
<1>2. New \in Pkg /\ owner \in [Dir -> Pkg \cup {None}]
  BY <1>1, Zenon DEF DirInv, LinkInv
<1>3. now \in Pkg \cup {None}
  BY <1>2, Zenon
<1>4. owner' \in [Dir -> Pkg \cup {None}]
  <2> HIDE DEF now
  <2> QED BY <1>1, <1>2, <1>3, Zenon
<1>5. /\ next' = next \/ next' = [x \in DOMAIN next |-> IF x \in Revived(d) THEN x ELSE next[x]]
      /\ prev' = prev \/ prev' = [x \in DOMAIN prev |-> IF x \in Revived(d) THEN x ELSE prev[x]]
  BY Zenon DEF InstallDir
<1>6. DOMAIN next' = Node \cup Dir /\ DOMAIN prev' = Node \cup Dir
  BY <1>5, Zenon DEF LinkInv
<1>7. ASSUME NEW e \in Dir, NEW x \in Family(e) \ {Poison}
      PROVE  next'[x] \in Family(e) /\ prev'[x] \in Family(e)
  BY <1>5, FamilyApart DEF LinkInv, Linked
<1> QED BY <1>4, <1>6, <1>7, Zenon DEF LinkInv, Linked

\* The new owner that apk_db_diri_remove finds is a package.
LEMMA NewOwnerType ==
  ASSUME DirInv, LinkInv, NEW d \in Dir, DiriRemove(d)
  PROVE  /\ Leaving \in Pkg
         /\ NewOwner(d, Leaving, Unlinked(<<Leaving, d>>).next) \in Pkg \cup {None}
<1> DEFINE nx == Unlinked(<<Leaving, d>>).next
<1>1. pc \in {"purge", "cancel"} /\ (owner[d] = Leaving => WalkReturns(d, nx))
  BY Zenon DEF DiriRemove
<1>2. Leaving \in Pkg
  BY <1>1, AtHand, Zenon DEF Leaving, DirInv
<1>3. Linked(d, nx)
  BY <1>2, UnlinkLinks, Zenon
<1> HIDE DEF nx
<1>4. CASE owner[d] = Leaving
  <2>1. Walk(d, nx) \in Seq(Pkg)
    BY <1>1, <1>3, <1>4, WalkType, Zenon
  <2>2. \A j \in 1..Len(Walk(d, nx)) : Walk(d, nx)[j] \in Pkg
    BY <2>1
  <2>3. Elect(Walk(d, nx), removing) \in Pkg \cup {None}
    BY <2>1, <2>2, ElectType, Zenon
  <2> QED BY <1>2, <1>4, <2>3, Zenon DEF NewOwner, nx
<1>5. CASE owner[d] # Leaving
  BY <1>2, <1>5, Zenon DEF NewOwner, LinkInv
<1> QED BY <1>4, <1>5, Zenon

\* apk_db_diri_remove unlinks one node and releases whole lists.
LEMMA RemoveLinks ==
  ASSUME DirInv, LinkInv, NEW d \in Dir, DiriRemove(d)
  PROVE  LinkInv'
<1> DEFINE list == Unlinked(<<Leaving, d>>)
<1>1. /\ next' = [x \in DOMAIN next |-> IF x \in Released(d) THEN Poison ELSE list.next[x]]
      /\ prev' = [x \in DOMAIN prev |-> IF x \in Released(d) THEN Poison ELSE list.prev[x]]
      /\ owner' = [owner EXCEPT ![d] = NewOwner(d, Leaving, list.next)]
  BY Zenon DEF DiriRemove
<1>2. Leaving \in Pkg /\ NewOwner(d, Leaving, list.next) \in Pkg \cup {None}
  BY NewOwnerType, Zenon
<1>3. \A e \in Dir : Linked(e, list.next) /\ Linked(e, list.prev)
  BY <1>2, UnlinkLinks, Zenon
<1> HIDE DEF list
<1>4. owner' \in [Dir -> Pkg \cup {None}]
  BY <1>1, <1>2, Zenon DEF LinkInv
<1>5. DOMAIN next' = Node \cup Dir /\ DOMAIN prev' = Node \cup Dir
  BY <1>1, Zenon DEF LinkInv
<1>6. ASSUME NEW e \in Dir, NEW x \in Family(e) \ {Poison}
      PROVE  next'[x] \in Family(e) /\ prev'[x] \in Family(e)
  <2>1. x \in Node \cup Dir /\ Poison \in Family(e)
    BY FamilyApart, Zenon DEF Family
  <2> QED BY <1>1, <1>3, <2>1, Zenon DEF LinkInv, Linked
<1> QED BY <1>4, <1>5, <1>6, Zenon DEF LinkInv, Linked

\* Every step keeps the links in their families.
LEMMA LinkStep == ASSUME DirInv, LinkInv, [Next]_vars PROVE LinkInv'
<1>1. ASSUME UNCHANGED <<owner, next, prev>> PROVE LinkInv'
  BY <1>1, Zenon DEF LinkInv, Linked
<1>2. CASE Commit \/ StartChange \/ PurgeDone \/ StartFix \/ FixDone \/ Admin \/ UNCHANGED vars
  BY <1>1, <1>2, Zenon DEF Commit, StartChange, PurgeDone, StartFix, FixDone, Admin, Chmod, Put, Rmdir, vars, dirvars
<1>3. CASE \E d \in Dir : FixDir(d)
  BY <1>1, <1>3, Zenon DEF FixDir
<1>4. CASE UnpackDone \/ UnpackError
  <2>1. New \in Pkg /\ ic \in SUBSET Dir /\ ListAddTail(New, ic) /\ owner' = owner
    BY <1>4, Zenon DEF UnpackDone, UnpackError, DirInv
  <2> QED BY <2>1, AddTailLinks, Zenon
<1>5. CASE Segv \/ WriteConfig
  <2>1. \E S \in SUBSET Pkg : Load(S)
    BY <1>5, Zenon DEF Segv, WriteConfig, DirInv
  <2> QED BY <2>1, LoadLinks, Zenon
<1> QED BY <1>2, <1>3, <1>4, <1>5, InstallLinks, RemoveLinks, Zenon DEF Next

\* At first there are no nodes.
LEMMA LinkInit == Init => LinkInv
<1> SUFFICES ASSUME Init PROVE LinkInv
  BY Zenon
<1>1. /\ owner = [d \in Dir |-> None]
      /\ next = [x \in Node \cup Dir |-> x] /\ prev = [x \in Node \cup Dir |-> x]
  BY Zenon DEF Init
<1>2. \A d \in Dir : Linked(d, next) /\ Linked(d, prev)
  BY <1>1, FamilyApart, Zenon DEF Linked
<1> QED BY <1>1, <1>2, Zenon DEF LinkInv

------------------------------------------------------------------------------
(* Directories on disk.                                                       *)

\* What the flags of struct apk_db_dir say of the disk: created means there, permissions_ok
\* that the permissions are not the administrator's; a new process has set neither.
DiskInv ==
  /\ onDisk \in [Dir -> Acls \cup {Absent}]
  /\ created \subseteq Dir /\ permissions_ok \subseteq Dir /\ edits \in Nat
  /\ CreatedExists
  /\ \A d \in permissions_ok : onDisk[d] # UserAcl
  /\ pc = "idle" => created = {} /\ permissions_ok = {}

KeepInv == DirInv /\ LinkInv /\ DiskInv

\* What a step may do to one directory.
KeepsDir(d) ==
  /\ onDisk[d] # Absent /\ onDisk'[d] = Absent => refs'[d] = 0 /\ d \notin foreign
  /\ onDisk[d] = UserAcl /\ pc # "fix" => onDisk'[d] \in {UserAcl, Absent}

KeepsDirs == edits' = edits => \A d \in Dir : KeepsDir(d)

\* Permissions of packages are neither the administrator's nor those of a missing directory.
LEMMA AclApart ==
  ASSUME NEW p \in Pkg, NEW d \in Dir
  PROVE  Acl[p][d] \in Acls \ {Absent, None, UserAcl}
<1> DEFINE A == {Acl[q][e] : q \in Pkg, e \in Dir}
<1>1. Acl[p][d] \in A
  OBVIOUS
<1>2. Acls = A \cup {DefaultAcl, UserAcl} /\ UserAcl \notin A \cup {DefaultAcl}
  BY ConstantsAssumption DEF Acls
<1>3. {None, Absent} \cap Acls = {}
  BY ConstantsAssumption, Zenon
<1> HIDE DEF A
<1> QED BY <1>1, <1>2, <1>3, Zenon

\* The default permissions are of neither kind.
LEMMA DefaultApart == DefaultAcl \in Acls \ {Absent, None, UserAcl} /\ UserAcl \in Acls \ {Absent, None}
<1> DEFINE A == {Acl[q][e] : q \in Pkg, e \in Dir}
<1>1. Acls = A \cup {DefaultAcl, UserAcl} /\ UserAcl \notin A \cup {DefaultAcl}
  BY ConstantsAssumption DEF Acls
<1>2. {None, Absent} \cap Acls = {}
  BY ConstantsAssumption, Zenon
<1> HIDE DEF A
<1> QED BY <1>1, <1>2, Zenon

\* apk_db_dir_prepare only adds to the disk, and its flags tell the truth.
Prepared(disk, made, ok) ==
  /\ disk \in [Dir -> Acls \cup {Absent}]
  /\ made \subseteq Dir /\ ok \subseteq Dir
  /\ \A x \in made : disk[x] # Absent
  /\ \A x \in ok : disk[x] # UserAcl
  /\ \A x \in Dir : onDisk[x] # Absent => disk[x] = onDisk[x]

\* apk_db_dir_prepare, whatever permissions it expects and gives.
LEMMA PrepareKeeps ==
  ASSUME DiskInv, NEW d \in Dir, NEW expected, expected # UserAcl,
         NEW new \in Acls \ {Absent, None, UserAcl}
  PROVE  Prepared(Prepare(d, expected, new).onDisk, Prepare(d, expected, new).created,
                  Prepare(d, expected, new).ok)
<1> DEFINE chain == {x \in Up[d] \ {Root} : \A y \in Between(d, x) : y \notin created}
           want(x) == IF x = d THEN expected ELSE DefaultAcl
           make(x) == IF x = d THEN new ELSE DefaultAcl
           fine == {x \in chain : onDisk[x] = Absent \/ onDisk[x] = want(x)}
           after == [x \in Dir |-> IF x \in chain /\ onDisk[x] = Absent THEN make(x) ELSE onDisk[x]]
<1>1. /\ Prepare(d, expected, new).onDisk = after
      /\ Prepare(d, expected, new).created = created \cup chain
      /\ Prepare(d, expected, new).ok = permissions_ok \cup fine
  BY Zenon DEF Prepare
<1>2. chain \subseteq Dir
  BY UpLeast, Zenon
<1>3. \A x \in Dir : make(x) \in Acls \ {Absent, UserAcl} /\ want(x) # UserAcl
  BY DefaultApart, Zenon
<1> HIDE DEF chain, make, want
<1>4. /\ after \in [Dir -> Acls \cup {Absent}]
      /\ \A x \in Dir : onDisk[x] # Absent => after[x] = onDisk[x]
      /\ \A x \in chain : after[x] # Absent
  BY <1>2, <1>3, Zenon DEF DiskInv
<1>5. \A x \in created : after[x] # Absent
  BY <1>4, Zenon DEF DiskInv, CreatedExists
<1>6. ASSUME NEW x \in permissions_ok \cup fine PROVE x \in Dir /\ after[x] # UserAcl
  <2>1. x \in Dir
    BY <1>2, Zenon DEF DiskInv
  <2>2. CASE x \in permissions_ok
    BY <1>3, <2>1, <2>2, Zenon DEF DiskInv
  <2>3. CASE x \in fine
    BY <1>3, <2>1, <2>3, Zenon
  <2> QED BY <2>1, <2>2, <2>3, Zenon
<1> HIDE DEF after, fine
<1> QED BY <1>1, <1>2, <1>4, <1>5, <1>6, Zenon DEF DiskInv, Prepared

\* A directory entry of an archive: prepared, and its permissions changed only where a package had set them.
LEMMA InstallKeeps ==
  ASSUME KeepInv, NEW d \in Dir \ {Root}, InstallDir(d)
  PROVE  DiskInv' /\ KeepsDirs
<1> DEFINE p == New
           was == owner[d]
           takes == was = None \/ ReplacesDir(was, p, removing)
           now == IF takes THEN p ELSE was
           expected == IF was = None THEN None ELSE Acl[was][d]
           update == takes /\ was # None /\ Acl[was][d] # Acl[p][d] /\ d \in permissions_ok
           ready == Prepare(d, expected, Acl[now][d])
<1>1. /\ pc = "unpack" /\ pc' = "unpack" /\ edits' = edits
      /\ onDisk' = IF update THEN [ready.onDisk EXCEPT ![d] = Acl[p][d]] ELSE ready.onDisk
      /\ created' = ready.created
      /\ permissions_ok' = ready.ok
  BY Zenon DEF InstallDir, bounds
<1>2. p \in Pkg /\ was \in Pkg \cup {None}
  BY <1>1, Zenon DEF KeepInv, DirInv, LinkInv
<1>3. /\ Acl[p][d] \in Acls \ {Absent, None, UserAcl}
      /\ Acl[now][d] \in Acls \ {Absent, None, UserAcl} /\ expected # UserAcl
  BY <1>2, AclApart, DefaultApart, Zenon
<1> HIDE DEF p, now, expected
<1>4. Prepared(ready.onDisk, ready.created, ready.ok)
  BY <1>3, PrepareKeeps, Zenon DEF KeepInv
<1> HIDE DEF ready
<1>5. update => onDisk[d] # UserAcl
  BY Zenon DEF KeepInv, DiskInv
<1> HIDE DEF update
<1>6. /\ onDisk' \in [Dir -> Acls \cup {Absent}]
      /\ \A x \in created' : onDisk'[x] # Absent
      /\ \A x \in permissions_ok' : onDisk'[x] # UserAcl
  BY <1>1, <1>3, <1>4, Zenon DEF Prepared
<1>7. DiskInv'
  BY <1>1, <1>4, <1>6, Zenon DEF KeepInv, DiskInv, CreatedExists, Prepared
<1>8. \A x \in Dir :
        onDisk[x] # Absent => \/ onDisk'[x] = onDisk[x]
                              \/ x = d /\ onDisk[d] # UserAcl /\ onDisk'[d] # Absent
  BY <1>1, <1>3, <1>4, <1>5, Zenon DEF Prepared
<1> QED BY <1>7, <1>8, DefaultApart, Zenon DEF KeepsDirs, KeepsDir

\* fix_directory_permissions may replace the permissions of the administrator, and removes nothing.
LEMMA FixKeeps ==
  ASSUME KeepInv, NEW d \in Dir, FixDir(d)
  PROVE  DiskInv' /\ KeepsDirs
<1> DEFINE acl == Acl[owner[d]][d]
           ready == Prepare(d, acl, acl)
           fixed == d \notin ready.ok
<1>1. /\ pc = "fix" /\ pc' = "fix" /\ ~Dangles(d) /\ edits' = edits
      /\ onDisk' = IF fixed THEN [ready.onDisk EXCEPT ![d] = acl] ELSE ready.onDisk
      /\ created' = ready.created
      /\ permissions_ok' = ready.ok \cup {d}
  BY Zenon DEF FixDir, bounds
<1>2. owner[d] \in Pkg
  BY <1>1, Zenon DEF KeepInv, LinkInv, Dangles
<1>3. acl \in Acls \ {Absent, None, UserAcl}
  BY <1>2, AclApart, Zenon
<1> HIDE DEF acl
<1>4. Prepared(ready.onDisk, ready.created, ready.ok)
  BY <1>3, PrepareKeeps, Zenon DEF KeepInv
<1> HIDE DEF ready
<1>5. /\ onDisk' \in [Dir -> Acls \cup {Absent}]
      /\ \A x \in created' : onDisk'[x] # Absent
      /\ \A x \in permissions_ok' : onDisk'[x] # UserAcl
  BY <1>1, <1>3, <1>4, Zenon DEF Prepared
<1>6. DiskInv'
  BY <1>1, <1>4, <1>5, Zenon DEF KeepInv, DiskInv, CreatedExists, Prepared
<1>7. \A x \in Dir : onDisk[x] # Absent => onDisk'[x] # Absent
  BY <1>1, <1>3, <1>4, Zenon DEF Prepared
<1> QED BY <1>1, <1>6, <1>7, Zenon DEF KeepsDirs, KeepsDir

\* The last reference goes of every directory that apk_db_dir_unref releases.
LEMMA ReleasedUnused ==
  ASSUME NEW d \in Dir, NEW x \in Released(d)
  PROVE  x \in Dir /\ refs[x] = 1 /\ x \in Dropped(d) /\ x \in Between(d, x)
<1>1. x \in Up[d] /\ x \in Dir /\ x \in Between(d, x) /\ refs[x] = 1
  BY UpPath, UpLeast, Zenon DEF Released
<1>2. CASE x = d
  BY <1>1, <1>2, Zenon DEF Dropped
<1>3. CASE x # d
  <2>1. PICK y \in Up[d] \ {Root} : Parent[y] = x
    BY <1>1, <1>3, UpPath, Zenon
  <2>2. Between(d, y) \subseteq Between(d, x)
    BY <2>1, UpPath
  <2>3. y \in Released(d)
    BY <2>2, Zenon DEF Released
  <2> QED BY <1>1, <2>1, <2>3, Zenon DEF Dropped
<1> QED BY <1>2, <1>3, Zenon

\* apk_db_diri_remove: what goes from the disk was in use by nobody.
LEMMA RemoveKeeps ==
  ASSUME KeepInv, NEW d \in Dir, DiriRemove(d)
  PROVE  DiskInv' /\ KeepsDirs
<1> DEFINE elect == NewOwner(d, Leaving, Unlinked(<<Leaving, d>>).next)
           update == owner[d] = Leaving /\ elect # None /\ d \in permissions_ok
           perms == IF update /\ onDisk[d] # Absent THEN [onDisk EXCEPT ![d] = Acl[elect][d]] ELSE onDisk
           gone == Released(d)
<1>1. /\ pc \in {"purge", "cancel"} /\ pc' = pc /\ edits' = edits
      /\ refs' = [x \in Dir |-> IF x \in Dropped(d) THEN refs[x] - 1 ELSE refs[x]]
      /\ onDisk' = [x \in Dir |-> IF x \in Emptied(d, gone) THEN Absent ELSE perms[x]]
      /\ created' = created \ gone
      /\ permissions_ok' = permissions_ok \ gone
  BY Zenon DEF DiriRemove, Cleared, bounds
<1>2. elect \in Pkg \cup {None}
  BY NewOwnerType, Zenon DEF KeepInv
<1>3. update => Acl[elect][d] \in Acls \ {Absent, None, UserAcl} /\ onDisk[d] # UserAcl
  BY <1>2, AclApart, Zenon DEF KeepInv, DiskInv
<1> HIDE DEF elect, update
<1>4. /\ perms \in [Dir -> Acls \cup {Absent}]
      /\ \A x \in Dir : onDisk[x] # Absent => perms[x] # Absent
      /\ \A x \in Dir : perms[x] = UserAcl <=> onDisk[x] = UserAcl
  <2>1. onDisk \in [Dir -> Acls \cup {Absent}]
    BY Zenon DEF KeepInv, DiskInv
  <2> QED BY <1>3, <2>1, Zenon
<1> HIDE DEF perms
<1>5. \A x \in Emptied(d, gone) : x \in gone /\ x \notin foreign
  BY ReleasedUnused, Zenon DEF Emptied
<1>6. \A x \in gone : refs'[x] = 0
  BY <1>1, ReleasedUnused
<1> HIDE DEF gone
<1>7. /\ onDisk' \in [Dir -> Acls \cup {Absent}]
      /\ \A x \in created' : onDisk'[x] # Absent
      /\ \A x \in permissions_ok' : onDisk'[x] # UserAcl
  <2>1. created \subseteq Dir /\ permissions_ok \subseteq Dir
        /\ (\A x \in created : onDisk[x] # Absent) /\ \A x \in permissions_ok : onDisk[x] # UserAcl
    BY Zenon DEF KeepInv, DiskInv, CreatedExists
  <2> QED BY <1>1, <1>4, <1>5, <2>1, DefaultApart, Zenon
<1>8. DiskInv'
  BY <1>1, <1>7, Zenon DEF KeepInv, DiskInv, CreatedExists
<1>9. \A x \in Dir : KeepsDir(x)
  BY <1>1, <1>4, <1>5, <1>6, Zenon DEF KeepsDir
<1> QED BY <1>8, <1>9, Zenon DEF KeepsDirs

\* Every step keeps the flags true, and the directories.
LEMMA KeepStep == ASSUME KeepInv, [Next]_vars PROVE DiskInv' /\ KeepsDirs
<1>1. ASSUME UNCHANGED <<onDisk, created, permissions_ok, edits>>, pc' # "idle" \/ pc = "idle"
      PROVE  DiskInv' /\ KeepsDirs
  BY <1>1, Zenon DEF KeepInv, DiskInv, CreatedExists, KeepsDirs, KeepsDir
<1>2. CASE Commit \/ StartChange \/ PurgeDone \/ StartFix \/ FixDone
  BY <1>1, <1>2, Zenon DEF Commit, StartChange, PurgeDone, StartFix, FixDone, dirvars, bounds
<1>3. CASE UNCHANGED vars
  BY <1>1, <1>3, Zenon DEF vars, dirvars, bounds
<1>4. CASE UnpackDone \/ UnpackError
  BY <1>1, <1>4, Zenon DEF UnpackDone, UnpackError, bounds
<1>5. CASE Segv \/ WriteConfig
  <2>1. onDisk' = onDisk /\ created' = {} /\ permissions_ok' = {} /\ edits' = edits
    BY <1>5, Zenon DEF Segv, WriteConfig, Load, bounds
  <2> QED BY <2>1, Zenon DEF KeepInv, DiskInv, CreatedExists, KeepsDirs, KeepsDir
<1>6. CASE Admin
  <2>1. /\ pc = "idle" /\ edits' = edits + 1
        /\ UNCHANGED <<created, permissions_ok, pc>>
        /\ \/ onDisk' = onDisk
           \/ \E d \in Dir, acl \in {UserAcl, DefaultAcl, Absent} : onDisk' = [onDisk EXCEPT ![d] = acl]
    BY <1>6, Zenon DEF Admin, Chmod, Put, Rmdir, dirvars
  <2>2. onDisk' \in [Dir -> Acls \cup {Absent}]
    BY <2>1, DefaultApart, Zenon DEF KeepInv, DiskInv
  <2>3. DiskInv'
    BY <2>1, <2>2 DEF KeepInv, DiskInv, CreatedExists
  <2>4. edits' # edits
    BY <2>1 DEF KeepInv, DiskInv
  <2> QED BY <2>3, <2>4, Zenon DEF KeepsDirs
<1> QED BY <1>2, <1>3, <1>4, <1>5, <1>6, InstallKeeps, RemoveKeeps, FixKeeps, Zenon DEF Next

\* At first no flag is set.
LEMMA KeepInit == Init => KeepInv
<1> SUFFICES ASSUME Init PROVE KeepInv
  OBVIOUS
<1>1. /\ onDisk = [d \in Dir |-> IF d = Root THEN DefaultAcl ELSE Absent]
      /\ created = {} /\ permissions_ok = {} /\ edits = 0
  BY Zenon DEF Init
<1>2. onDisk \in [Dir -> Acls \cup {Absent}]
  BY <1>1, DefaultApart, Zenon
<1> QED BY <1>1, <1>2, RefInit, LinkInit, Zenon DEF KeepInv, DiskInv, CreatedExists, RefInv

\* The three parts together are inductive.
LEMMA KeepInvStep == ASSUME RefInv, KeepInv, [Next]_vars PROVE KeepInv'
BY RefStep, LinkStep, KeepStep, Zenon DEF KeepInv, RefInv

\* Whatever the packages, the tree and the sequence of installations, upgrades, failures, repairs and
\* edits of the administrator: a directory the process holds for created (dir->created) is on disk,
\* apk_db_dir_unref removes none that is still referenced or holds a foreign file, and only apk fix
\* replaces the permissions the administrator gave.
THEOREM DirectoriesSafe == Spec => DirectoriesKept
<1>1. RefInv /\ KeepInv /\ [Next]_vars => (RefInv /\ KeepInv)'
  BY RefStep, KeepInvStep, Zenon
<1>2. Init => RefInv /\ KeepInv
  BY RefInit, KeepInit, Zenon
<1>3. KeepInv => CreatedExists
  BY Zenon DEF KeepInv, DiskInv
<1>4. KeepInv /\ [Next]_vars =>
        [\A d \in Dir : onDisk[d] # Absent /\ onDisk'[d] = Absent /\ edits' = edits
           => refs'[d] = 0 /\ d \notin foreign]_vars
  BY KeepStep, Zenon DEF KeepsDirs, KeepsDir
<1>5. KeepInv /\ [Next]_vars =>
        [\A d \in Dir : onDisk[d] = UserAcl /\ pc # "fix" /\ edits' = edits
           => onDisk'[d] \in {UserAcl, Absent}]_vars
  BY KeepStep, Zenon DEF KeepsDirs, KeepsDir
<1> QED BY <1>1, <1>2, <1>3, <1>4, <1>5, PTL
        DEF Spec, DirectoriesKept, ReferencedDirsKept, UserPermissionsKept

------------------------------------------------------------------------------
(* The lists of instances, when nothing is reinstalled.                       *)

\* The changes still to come install packages that are not there, and no package twice.
FreshInv ==
  /\ \A j \in DOMAIN plan : plan[j].old # plan[j].new
  /\ \A i, j \in DOMAIN plan : i # j /\ plan[i].new # None => plan[i].new # plan[j].new
  /\ \A j \in DOMAIN plan : j > idx \/ (j = idx /\ pc = "next") => plan[j].new \notin pkgs
  /\ pc = "unpack" => diris[New] = {}

\* The packages whose instances are linked in dir->diris: not yet those of the one being unpacked.
InList(d) == {p \in Holders(d) : ~(pc = "unpack" /\ p = New)}

HasList(d) ==
  \E s \in Seq(Pkg) : /\ IsList(d, s, next, prev)
                      /\ \A p : (\E i \in 1..Len(s) : s[i] = p) <=> p \in InList(d)

Owned(d) == IF Holders(d) = {} THEN owner[d] = None ELSE owner[d] \in Holders(d)

Lists == \A d \in Dir : Owned(d) /\ (refs[d] > 0 => HasList(d))

ListInv == RefInv /\ LinkInv /\ FreshInv /\ Lists

\* A changeset without reinstallations installs what is not there, each package once.
LEMMA ChangesetFresh ==
  ASSUME ~Reinstalls, pkgs \subseteq Pkg, NEW s \in Changesets
  PROVE  /\ \A j \in DOMAIN s : s[j].old # s[j].new /\ s[j].new \notin pkgs
         /\ \A i, j \in DOMAIN s : i # j /\ s[i].new # None => s[i].new # s[j].new
<1>1. PICK n \in 1..MaxChanges :
        s \in [1..n -> Changes(pkgs)] /\ \A i, j \in 1..n : i # j => Named(s[i]) # Named(s[j])
  BY Zenon DEF Changesets
<1>2. \A j \in DOMAIN s : s[j] \in Changes(pkgs)
  BY <1>1, Zenon
<1>3. \A j \in DOMAIN s : s[j].old # s[j].new /\ s[j].new \notin pkgs
  BY <1>2, ConstantsAssumption DEF Changes
<1>4. \A i, j \in DOMAIN s : i # j /\ s[i].new # None => s[i].new # s[j].new
  BY <1>1, Zenon DEF Named
<1> QED BY <1>3, <1>4, Zenon

\* What is still to be installed stays absent.
LEMMA FreshStep == ASSUME ~Reinstalls, RefInv, FreshInv, [Next]_vars PROVE FreshInv'
<1>0. /\ pkgs \subseteq Pkg /\ plan \in Seq(Change) /\ idx \in Nat /\ DOMAIN plan \subseteq Int
      /\ \A p \in Pkg \ pkgs : diris[p] = {}
  BY DEF RefInv, DirInv
<1>1. CASE Commit
  <2>1. pc' = "next" /\ idx' = 1 /\ plan' \in Changesets /\ pkgs' = pkgs
    BY <1>1, Zenon DEF Commit
  <2> QED BY <1>0, <2>1, ChangesetFresh, Zenon DEF FreshInv
<1>2. CASE StartChange
  <2>1. /\ pc = "next" /\ idx \in DOMAIN plan /\ UNCHANGED <<diris, plan, idx>>
    BY <1>2 DEF StartChange, RefInv, DirInv
  <2>2. New' = New /\ New \notin pkgs /\ New = plan[idx].new /\ New \in Pkg \cup {None}
    BY <2>1, AtHand, Zenon DEF New, FreshInv, RefInv
  <2>3. CASE New = None
    <3>1. pc' = "purge" /\ pkgs' = pkgs
      BY <1>2, <2>3, Zenon DEF StartChange
    <3> QED BY <2>1, <3>1, Zenon DEF FreshInv
  <2>4. CASE New # None
    <3>1. pc' = "unpack" /\ pkgs' = pkgs \cup {New} /\ diris[New] = {}
      BY <1>0, <1>2, <2>2, <2>4, Zenon DEF StartChange
    <3>2. \A j \in DOMAIN plan : j > idx => plan[j].new # New
      BY <1>0, <2>1, <2>2, <2>4 DEF FreshInv
    <3> QED BY <2>1, <2>2, <3>1, <3>2, Zenon DEF FreshInv
  <2> QED BY <2>3, <2>4, Zenon
<1>3. CASE \E d \in Dir \ {Root} : InstallDir(d)
  <2>1. UNCHANGED <<pkgs, diris, plan, idx, pc>>
    BY <1>3, Zenon DEF InstallDir
  <2> QED BY <2>1, Zenon DEF FreshInv, New
<1>4. CASE UnpackDone \/ UnpackError \/ PurgeDone
  <2>1. /\ plan' = plan /\ pkgs' \subseteq pkgs
        /\ \/ idx' = idx /\ pc' \in {"purge", "cancel"}
           \/ idx' = idx + 1 /\ pc' = "next"
    BY <1>4, Zenon DEF UnpackDone, UnpackError, PurgeDone
  <2> QED BY <1>0, <2>1 DEF FreshInv
<1>5. CASE \E d \in Dir : DiriRemove(d)
  <2>1. UNCHANGED <<pkgs, diris, plan, idx, pc>>
    BY <1>5, Zenon DEF DiriRemove
  <2> QED BY <2>1 DEF FreshInv, New
<1>6. CASE Segv \/ WriteConfig
  <2>1. plan' = <<>> /\ pc' = "idle" /\ DOMAIN plan' = {}
    BY <1>6 DEF Segv, WriteConfig, Load
  <2> QED BY <2>1, Zenon DEF FreshInv
<1>7. CASE StartFix \/ FixDone \/ \E d \in Dir : FixDir(d)
  <2>1. plan' = plan /\ pc \in {"idle", "fix"} /\ pc' # "unpack"
    BY <1>7, Zenon DEF StartFix, FixDone, FixDir
  <2>2. plan = <<>>
    BY <2>1, Zenon DEF RefInv, DirInv
  <2> QED BY <2>1, <2>2 DEF FreshInv
<1>8. CASE Admin \/ UNCHANGED vars
  <2>1. UNCHANGED <<pkgs, diris, plan, idx, pc>>
    BY <1>8, Zenon DEF Admin, Chmod, Put, Rmdir, vars
  <2> QED BY <2>1 DEF FreshInv, New
<1> QED BY <1>1, <1>2, <1>3, <1>4, <1>5, <1>6, <1>7, <1>8, Zenon DEF Next

\* A step that changes neither lists nor holders.
LEMMA SameLists ==
  ASSUME Lists, UNCHANGED <<refs, owner, next, prev>>,
         \A d \in Dir : Holders(d)' = Holders(d) /\ InList(d)' = InList(d)
  PROVE  Lists'
BY Zenon DEF Lists, Owned, HasList

\* The database lists a package once.
LEMMA UsersOnce ==
  ASSUME NEW S \in SUBSET Pkg, NEW d
  PROVE  \A i, j \in 1..Len(Users(S, d)) : i # j => Users(S, d)[i] # Users(S, d)[j]
<1> DEFINE U == {p \in S : d \in DirsOf[p]}
           c == Cardinality(U)
<1>1. U \in SUBSET Pkg
  BY Zenon
<1>2. Users(S, d) = CHOOSE s \in [1..c -> U] : Ordered(s, U)
  BY Zenon DEF Users, Ordered
<1> HIDE DEF U
<1>3. c \in Nat
  BY <1>1, FS_Subset, FS_CardinalityType, ConstantsAssumption
<1>4. Users(S, d) \in [1..c -> U] /\ Ordered(Users(S, d), U)
  BY <1>1, <1>2, OrderExists, Zenon
<1> HIDE DEF c
<1>5. Users(S, d) \in Surjection(1..c, U) /\ Len(Users(S, d)) = c
  BY <1>3, <1>4 DEF Surjection, Ordered
<1>6. IsFiniteSet(1..c) /\ Cardinality(1..c) = c
  <2>1. 1 \in Int /\ c \in Int
    BY <1>3
  <2>2. IsFiniteSet(1..c) /\ Cardinality(1..c) = IF 1 > c THEN 0 ELSE c - 1 + 1
    BY <2>1, FS_Interval, Zenon
  <2> QED BY <1>3, <2>2
<1>7. Users(S, d) \in Injection(1..c, U)
  BY <1>5, <1>6, FS_Surjection, Zenon DEF c
<1> QED BY <1>5, <1>7, Zenon DEF Injection, IsInjective

\* apk_db_fdb_read leaves for each directory the list of its users, in the order of their names.
LEMMA LoadLists ==
  ASSUME NEW S \in SUBSET Pkg, Load(S)
  PROVE  Lists'
<1> SUFFICES ASSUME NEW d \in Dir PROVE Owned(d)' /\ HasList(d)'
  BY Zenon DEF Lists
<1> DEFINE u == Users(S, d)
           after(q, e) == LET w == Users(S, e)
                              k == CHOOSE j \in DOMAIN w : w[j] = q
                          IN IF k = Len(w) THEN e ELSE <<w[k+1], e>>
           before(q, e) == LET w == Users(S, e)
                               k == CHOOSE j \in DOMAIN w : w[j] = q
                           IN IF k = 1 THEN e ELSE <<w[k-1], e>>
<1>1. /\ u \in Seq(Pkg) /\ Len(u) \in Nat /\ DOMAIN u = 1..Len(u)
      /\ \A i \in 1..Len(u) : u[i] \in Pkg
      /\ \A i \in 1..Len(u) : u[i] \in S /\ d \in DirsOf[u[i]]
      /\ \A p \in S : d \in DirsOf[p] => \E i \in 1..Len(u) : u[i] = p
  BY UsersType, SMTT(30)
<1>2. \A i, j \in 1..Len(u) : i # j => u[i] # u[j]
  BY UsersOnce, Zenon
<1>3. \A p : p \in Holders(d)' <=> p \in S /\ d \in DirsOf[p]
  BY Zenon DEF Load, Holders
<1>4. InList(d)' = Holders(d)'
  BY Zenon DEF Load, InList
<1>5. owner'[d] = Elect(u, {})
  BY Zenon DEF Load
<1>6. Owned(d)'
  <2> HIDE DEF u
  <2>1. IF u = <<>> THEN Elect(u, {}) = None ELSE \E j \in 1..Len(u) : Elect(u, {}) = u[j]
    BY <1>1, ElectType, Zenon
  <2>2. u = <<>> <=> Len(u) = 0
    BY <1>1
  <2>3. CASE Len(u) = 0
    <3>1. Holders(d)' = {}
      BY <1>1, <1>3, <2>3
    <3> QED BY <1>5, <2>1, <2>2, <2>3, <3>1, Zenon DEF Owned
  <2>4. CASE Len(u) # 0
    <3>1. owner'[d] \in Holders(d)'
      BY <1>1, <1>3, <1>5, <2>1, <2>2, <2>4, Zenon
    <3> QED BY <3>1, Zenon DEF Owned
  <2> QED BY <2>3, <2>4, Zenon
<1>7. /\ next'[d] = IF Len(u) = 0 THEN d ELSE <<u[1], d>>
      /\ prev'[d] = IF Len(u) = 0 THEN d ELSE <<u[Len(u)], d>>
  BY Zenon DEF Load
<1>8. ASSUME NEW i \in 1..Len(u)
      PROVE  /\ next'[<<u[i], d>>] = IF i = Len(u) THEN d ELSE <<u[i+1], d>>
             /\ prev'[<<u[i], d>>] = IF i = 1 THEN d ELSE <<u[i-1], d>>
  <2> DEFINE x == <<u[i], d>>
  <2>1. x \in Node /\ x \notin Dir /\ x[1] = u[i] /\ x[2] = d /\ u[i] \in S /\ d \in DirsOf[u[i]]
    <3>1. u[i] \in Pkg /\ u[i] \in S /\ d \in DirsOf[u[i]]
      BY <1>1, Zenon
    <3>2. <<u[i], d>> \in Node
      BY <3>1, NodeApart, Zenon
    <3> QED BY <3>1, <3>2, ConstantsAssumption, Zenon
  <2>2. /\ next'[x] = IF x[1] \in S /\ x[2] \in DirsOf[x[1]] THEN after(x[1], x[2]) ELSE x
        /\ prev'[x] = IF x[1] \in S /\ x[2] \in DirsOf[x[1]] THEN before(x[1], x[2]) ELSE x
    <3> HIDE DEF x
    <3> QED BY <2>1, Zenon DEF Load
  <2> DEFINE k == CHOOSE j \in DOMAIN u : u[j] = u[i]
  <2>3. /\ after(u[i], d) = IF k = Len(u) THEN d ELSE <<u[k+1], d>>
        /\ before(u[i], d) = IF k = 1 THEN d ELSE <<u[k-1], d>>
    BY Zenon
  <2>4. k = i
    <3> HIDE DEF u
    <3> QED BY <1>1, <1>2, Zenon
  <2> HIDE DEF u, k, after, before
  <2> QED BY <2>1, <2>2, <2>3, <2>4, Zenon
<1> HIDE DEF u
<1>9. IsList(d, u, next', prev')
  <2>1. Len(u) \in Nat
    BY <1>1, Zenon
  <2>2. next'[At(d, u, 0)] = At(d, u, 0 + 1) /\ prev'[At(d, u, Len(u) + 1)] = At(d, u, Len(u) + 1 - 1)
    BY <1>7, <2>1, AtHead, Zenon
  <2>3. ASSUME NEW i \in 1..Len(u)
        PROVE  next'[At(d, u, i)] = At(d, u, i + 1) /\ prev'[At(d, u, i)] = At(d, u, i - 1)
    <3>1. /\ At(d, u, i) = <<u[i], d>>
          /\ At(d, u, i + 1) = IF i = Len(u) THEN d ELSE <<u[i+1], d>>
          /\ At(d, u, i - 1) = IF i = 1 THEN d ELSE <<u[i-1], d>>
      BY <2>1, AtNeighbours, Zenon
    <3> QED BY <1>8, <3>1, Zenon
  <2>4. \A i \in 0..Len(u) : i = 0 \/ i \in 1..Len(u)
    BY <2>1
  <2>5. \A i \in 1..(Len(u) + 1) : i = Len(u) + 1 \/ i \in 1..Len(u)
    BY <2>1
  <2>6. \A i \in 0..Len(u) : next'[At(d, u, i)] = At(d, u, i + 1)
    BY <2>2, <2>3, <2>4, Zenon
  <2>7. ASSUME NEW i \in 1..(Len(u) + 1) PROVE prev'[At(d, u, i)] = At(d, u, i - 1)
    <3>1. CASE i = Len(u) + 1
      BY <2>2, <3>1
    <3>2. CASE i \in 1..Len(u)
      BY <2>3, <3>2, Zenon
    <3> QED BY <2>5, <3>1, <3>2, Zenon
  <2> QED BY <1>2, <2>6, <2>7, Zenon DEF IsList
<1>10. \A p : (\E i \in 1..Len(u) : u[i] = p) <=> p \in InList(d)'
  BY <1>1, <1>3, <1>4, Zenon
<1>11. HasList(d)'
  BY <1>1, <1>9, <1>10, Zenon DEF HasList
<1> QED BY <1>6, <1>11, Zenon

\* apk_db_dir_get starts an empty list where nobody had the directory.
LEMMA InstallLists ==
  ASSUME ListInv, NEW d \in Dir \ {Root}, InstallDir(d)
  PROVE  Lists'
<1>1. /\ pc = "unpack" /\ ic' = ic \cup {d} /\ todo' = todo \ {d}
      /\ UNCHANGED <<pkgs, diris, plan, idx, pc>>
      /\ owner' = [owner EXCEPT ![d] = IF owner[d] = None \/ ReplacesDir(owner[d], New, removing)
                                       THEN New ELSE owner[d]]
  BY Zenon DEF InstallDir
<1>2. New' = New /\ New \in pkgs /\ New \in Pkg /\ diris[New] = {}
  BY <1>1, Zenon DEF New, ListInv, RefInv, DirInv, FreshInv
<1>3. Holders(d)' = Holders(d) \cup {New} /\ \A x \in Dir \ {d} : Holders(x)' = Holders(x)
  BY <1>1, <1>2, Zenon DEF Holders
<1>4. \A x \in Dir : InList(x)' = InList(x)
  BY <1>1, <1>2, <1>3 DEF InList
<1>5. ASSUME NEW x \in Dir PROVE Owned(x)'
  <2>1. Owned(x) /\ owner \in [Dir -> Pkg \cup {None}]
    BY Zenon DEF ListInv, Lists, LinkInv
  <2>2. CASE x = d
    BY <1>1, <1>2, <1>3, <2>1, <2>2, ConstantsAssumption, Zenon DEF Owned
  <2>3. CASE x # d
    BY <1>1, <1>3, <2>1, <2>3, Zenon DEF Owned
  <2> QED BY <2>2, <2>3, Zenon
<1>6. Exact
  BY Zenon DEF ListInv, RefInv, RelinkFailed, Relinks, FreshInv
<1>7. CASE d \in ic
  <2>1. UNCHANGED <<refs, next, prev>>
    BY <1>7, Zenon DEF InstallDir
  <2> QED BY <1>4, <1>5, <2>1 DEF ListInv, Lists, HasList
<1>8. CASE d \notin ic
  <2>1. /\ refs' = [x \in Dir |-> IF x \in Referring(d) THEN refs[x] + 1 ELSE refs[x]]
        /\ next' = [x \in DOMAIN next |-> IF x \in Revived(d) THEN x ELSE next[x]]
        /\ prev' = [x \in DOMAIN prev |-> IF x \in Revived(d) THEN x ELSE prev[x]]
    BY <1>8, Zenon DEF InstallDir
  <2>2. Revived(d) \subseteq Dir /\ \A x \in Revived(d) : refs[x] = 0
    BY UpPath, UpLeast, Zenon DEF Revived
  <2>3. ASSUME NEW x \in Dir, x \notin Revived(d), refs'[x] > 0 PROVE refs[x] > 0
    <3>1. refs[x] \in Nat
      BY <1>6, ExactCounts, Zenon DEF ListInv, RefInv, DirInv
    <3>2. x \in Referring(d) => refs[x] # 0
      <4>1. CASE x = d
        BY <2>3, <4>1, UpPath, UpLeast DEF Revived
      <4>2. CASE x # d /\ x \in Referring(d)
        <5>1. PICK y \in Revived(d) \ {Root} : x = Parent[y]
          BY <4>2, Zenon DEF Referring
        <5>2. y \in Up[d] \ {Root} /\ x \in Up[d] /\ Between(d, x) = Between(d, y) \cup {x}
          BY <5>1, UpPath, UpLeast DEF Revived
        <5> QED BY <2>3, <5>1, <5>2, Zenon DEF Revived
      <4> QED BY <4>1, <4>2, Zenon
    <3> QED BY <2>1, <2>3, <3>1, <3>2
  <2>4. ASSUME NEW x \in Revived(d) PROVE HasList(x)'
    <3>1. x \in Dir /\ Holders(x) = {}
      <4>1. x \in Dir /\ refs[x] = 0 /\ pkgs \subseteq Pkg
        BY <2>2, Zenon DEF ListInv, RefInv, DirInv
      <4>2. Holders(x) # {} => refs[x] > 0
        BY <1>6, <4>1, ExactCounts, Zenon
      <4> QED BY <4>1, <4>2
    <3>2. InList(x)' = {}
      BY <1>4, <3>1, Zenon DEF InList
    <3>3. next'[x] = x /\ prev'[x] = x
      BY <2>1, <3>1, Zenon DEF ListInv, LinkInv
    <3>4. IsList(x, <<>>, next', prev')
      BY <3>1, <3>3, ListEmpty, Zenon
    <3>5. <<>> \in Seq(Pkg) /\ Len(<<>>) = 0 /\ 1..0 = {}
      OBVIOUS
    <3> QED BY <3>2, <3>4, <3>5, Zenon DEF HasList
  <2>5. ASSUME NEW x \in Dir, x \notin Revived(d), refs'[x] > 0 PROVE HasList(x)'
    <3>1. HasList(x)
      BY <2>3, <2>5, Zenon DEF ListInv, Lists
    <3>2. PICK s \in Seq(Pkg) : /\ IsList(x, s, next, prev)
                                /\ \A p : (\E i \in 1..Len(s) : s[i] = p) <=> p \in InList(x)
      BY <3>1, Zenon DEF HasList
    <3>3. ASSUME NEW y \in Family(x) \ {Poison} PROVE next'[y] = next[y] /\ prev'[y] = prev[y]
      <4>1. y \in Node \cup Dir /\ (y \in Dir => y = x)
        BY FamilyApart, ConstantsAssumption, Zenon
      <4> QED BY <2>1, <2>2, <2>5, <4>1, Zenon DEF ListInv, LinkInv
    <3>4. IsList(x, s, next', prev')
      BY <3>2, <3>3, ListSame, Zenon
    <3> QED BY <1>4, <3>2, <3>4, Zenon DEF HasList
  <2> QED BY <1>5, <2>4, <2>5, Zenon DEF Lists
<1> QED BY <1>7, <1>8, Zenon

\* apk_db_ipkg_commit links the instances of the new package at the ends of their lists.
LEMMA AddTailLists ==
  ASSUME ListInv, pc = "unpack", ListAddTail(New, ic), UNCHANGED <<refs, owner>>, pc' # "unpack",
         \A d \in Dir : Holders(d)' = Holders(d)
  PROVE  Lists'
<1>1. New \in pkgs /\ New \in Pkg /\ diris[New] = {} /\ ic \subseteq Dir
  BY Zenon DEF ListInv, RefInv, DirInv, FreshInv
<1>2. \A d \in Dir : Owned(d)'
  BY Zenon DEF ListInv, Lists, Owned
<1> SUFFICES ASSUME NEW d \in Dir, refs[d] > 0 PROVE HasList(d)'
  BY <1>2, Zenon DEF Lists
<1>3. PICK s \in Seq(Pkg) : /\ IsList(d, s, next, prev)
                            /\ \A p : (\E i \in 1..Len(s) : s[i] = p) <=> p \in InList(d)
  BY Zenon DEF ListInv, Lists, HasList
<1>4. /\ \A p : p \in InList(d)' <=> p \in InList(d) \/ (p = New /\ d \in ic)
      /\ New \notin InList(d)
  BY <1>1, Zenon DEF InList, Holders
<1>5. ASSUME NEW y \in Family(d) \ {Poison}
      PROVE  /\ y \in DOMAIN next /\ y \in DOMAIN prev
             /\ \A e \in ic : y = e \/ y = <<New, e>> \/ y = prev[e] => e = d
  <2>1. \A e \in ic : e \in Family(e) /\ <<New, e>> \in Family(e) /\ prev[e] \in Family(e)
    BY <1>1, NodeApart, Zenon DEF ListInv, LinkInv, Linked
  <2>2. y \in DOMAIN next /\ y \in DOMAIN prev
    BY FamilyApart, Zenon DEF ListInv, LinkInv
  <2>3. \A e \in Dir : y \in Family(e) => e = d
    BY FamilyApart, Zenon
  <2> QED BY <1>1, <2>1, <2>2, <2>3, Zenon
<1>6. ASSUME NEW y \in Family(d) \ {Poison}
      PROVE  /\ prev'[y] = IF y \in ic THEN <<New, y>>
                           ELSE IF \E e \in ic : y = <<New, e>> THEN prev[y[2]] ELSE prev[y]
             /\ next'[y] = IF \E e \in ic : y = prev[e] THEN <<New, (CHOOSE e \in ic : y = prev[e])>>
                           ELSE IF \E e \in ic : y = <<New, e>> THEN y[2] ELSE next[y]
  BY <1>5, Zenon DEF ListAddTail
<1>7. CASE d \in ic
  <2>1. ASSUME NEW y \in Family(d) \ {Poison}
        PROVE  /\ next'[y] = IF y = prev[d] THEN <<New, d>> ELSE IF y = <<New, d>> THEN d ELSE next[y]
               /\ prev'[y] = IF y = d THEN <<New, d>> ELSE IF y = <<New, d>> THEN prev[d] ELSE prev[y]
    <3>1. /\ (\E e \in ic : y = prev[e]) <=> y = prev[d]
          /\ (\E e \in ic : y = <<New, e>>) <=> y = <<New, d>>
          /\ y \in ic <=> y = d
      BY <1>5, <1>7, Zenon
    <3>2. y = prev[d] => (CHOOSE e \in ic : y = prev[e]) = d
      BY <1>5, <1>7, Zenon
    <3>3. y = <<New, d>> => y[2] = d
      OBVIOUS
    <3> QED BY <1>6, <3>1, <3>2, <3>3, Zenon
  <2>2. \A i \in 1..Len(s) : s[i] # New
    BY <1>3, <1>4, Zenon
  <2>3. IsList(d, Append(s, New), next', prev')
    BY <1>1, <1>3, <2>1, <2>2, ListAppend, Zenon
  <2>4. \A p : (\E i \in 1..Len(Append(s, New)) : Append(s, New)[i] = p)
                 <=> (\E i \in 1..Len(s) : s[i] = p) \/ p = New
    <3>1. /\ Len(Append(s, New)) = Len(s) + 1 /\ Len(s) \in Nat /\ Append(s, New)[Len(s) + 1] = New
          /\ \A i \in 1..Len(s) : Append(s, New)[i] = s[i]
      BY <1>1
    <3> DEFINE t == Append(s, New)
    <3> HIDE DEF t
    <3> QED BY <3>1 DEF t
  <2>5. Append(s, New) \in Seq(Pkg)
    BY <1>1
  <2>6. \A p : (\E i \in 1..Len(Append(s, New)) : Append(s, New)[i] = p) <=> p \in InList(d)'
    BY <1>3, <1>4, <1>7, <2>4, Zenon
  <2> QED BY <2>3, <2>5, <2>6, Zenon DEF HasList
<1>8. CASE d \notin ic
  <2>1. ASSUME NEW y \in Family(d) \ {Poison} PROVE next'[y] = next[y] /\ prev'[y] = prev[y]
    <3>1. \A e \in ic : y # e /\ y # <<New, e>> /\ y # prev[e]
      BY <1>5, <1>8, Zenon
    <3> QED BY <1>6, <3>1, Zenon
  <2>2. IsList(d, s, next', prev')
    BY <1>3, <2>1, ListSame, Zenon
  <2>3. \A p : p \in InList(d)' <=> p \in InList(d)
    BY <1>4, <1>8, Zenon
  <2> QED BY <1>3, <2>2, <2>3, Zenon DEF HasList
<1> QED BY <1>7, <1>8, Zenon

\* apk_db_diri_remove takes the instance out of its list, and the walk over the rest finds an owner.
LEMMA RemoveLists ==
  ASSUME ListInv, NEW d \in Dir, DiriRemove(d)
  PROVE  Lists'
<1> DEFINE p == Leaving
           nd == <<p, d>>
           list == Unlinked(nd)
<1>1. /\ pc \in {"purge", "cancel"} /\ d \in todo /\ todo' = todo \ {d}
      /\ refs' = [x \in Dir |-> IF x \in Dropped(d) THEN refs[x] - 1 ELSE refs[x]]
      /\ next' = [x \in DOMAIN next |-> IF x \in Released(d) THEN Poison ELSE list.next[x]]
      /\ prev' = [x \in DOMAIN prev |-> IF x \in Released(d) THEN Poison ELSE list.prev[x]]
      /\ owner' = [owner EXCEPT ![d] = NewOwner(d, p, list.next)]
      /\ UNCHANGED <<pkgs, diris, ic, plan, idx, pc>>
  BY Zenon DEF DiriRemove
<1>2. Old' = Old /\ New' = New /\ Leaving' = Leaving
  BY <1>1, Zenon DEF Old, New, Leaving
<1>3. p \in Pkg /\ p \in pkgs /\ d \in diris[p]
  <2>1. p \in Pkg
    BY <1>1, AtHand, Zenon DEF Leaving, ListInv, RefInv, DirInv
  <2> QED BY <1>1, <2>1, Zenon DEF ListInv, RefInv, DirInv
<1>4. /\ p \in Holders(d) /\ Holders(d)' = Holders(d) \ {p}
      /\ \A x \in Dir \ {d} : Holders(x)' = Holders(x)
  BY <1>1, <1>2, <1>3, Zenon DEF Holders, Leaving
<1>5. \A x \in Dir : InList(x) = Holders(x) /\ InList(x)' = Holders(x)'
  BY <1>1, Zenon DEF InList
<1>6. Exact
  BY Zenon DEF ListInv, RefInv, RelinkFailed, Relinks, FreshInv
<1>7. refs[d] > 0
  BY <1>4, <1>6, ExactCounts, Zenon DEF ListInv, RefInv, DirInv
<1>8. /\ DOMAIN list.next = Node \cup Dir /\ DOMAIN list.prev = Node \cup Dir
      /\ \A e \in Dir : Linked(e, list.next) /\ Linked(e, list.prev)
  BY <1>3, UnlinkLinks, Zenon DEF ListInv
<1>9. /\ nd \in Family(d) \ {Poison} /\ next[nd] \in Family(d) /\ prev[nd] \in Family(d)
      /\ DOMAIN next = Node \cup Dir /\ DOMAIN prev = Node \cup Dir
  BY <1>3, NodeApart, Zenon DEF ListInv, LinkInv, Linked
<1>10. ASSUME NEW e \in Dir, NEW y \in Family(e) \ {Poison, nd}
       PROVE  /\ y \in Node \cup Dir
              /\ list.next[y] = IF y = prev[nd] THEN next[nd] ELSE next[y]
              /\ list.prev[y] = IF y = next[nd] THEN prev[nd] ELSE prev[y]
              /\ y = prev[nd] \/ y = next[nd] => e = d
  <2>1. y \in Node \cup Dir
    BY FamilyApart, Zenon
  <2>2. y = prev[nd] \/ y = next[nd] => e = d
    BY <1>9, FamilyApart
  <2>3. /\ list.next = [next EXCEPT ![prev[nd]] = next[nd], ![nd] = Poison]
        /\ list.prev = [prev EXCEPT ![next[nd]] = prev[nd], ![nd] = Poison]
    BY Zenon DEF Unlinked
  <2> HIDE DEF nd, list
  <2> QED BY <1>9, <2>1, <2>2, <2>3, Zenon
<1>11. PICK s \in Seq(Pkg) : /\ IsList(d, s, next, prev)
                             /\ \A q : (\E i \in 1..Len(s) : s[i] = q) <=> q \in Holders(d)
  BY <1>5, <1>7, Zenon DEF ListInv, Lists, HasList
<1>12. PICK k \in 1..Len(s) : s[k] = p
  BY <1>4, <1>11, Zenon
<1> HIDE DEF list
<1>13. PICK t \in Seq(Pkg) : /\ IsList(d, t, list.next, list.prev)
                             /\ \A q : (\E i \in 1..Len(t) : t[i] = q) <=> q \in Holders(d)'
  <2>1. \A y \in Family(d) \ {Poison, <<s[k], d>>} :
           /\ list.next[y] = IF y = prev[<<s[k], d>>] THEN next[<<s[k], d>>] ELSE next[y]
           /\ list.prev[y] = IF y = next[<<s[k], d>>] THEN prev[<<s[k], d>>] ELSE prev[y]
    BY <1>10, <1>12, Zenon
  <2>2. PICK t \in Seq(Pkg) : IsList(d, t, list.next, list.prev) /\ Without(t, s, k)
    BY <1>11, <2>1, ListDelete, Zenon
  <2>3. \A q : q \in Holders(d)' <=> (\E i \in 1..Len(s) : s[i] = q) /\ q # s[k]
    BY <1>4, <1>11, <1>12, Zenon
  <2> QED BY <2>2, <2>3, Zenon DEF Without
<1>14. Owned(d)'
  <2>1. Owned(d) /\ owner \in [Dir -> Pkg \cup {None}]
    BY Zenon DEF ListInv, Lists, LinkInv
  <2>2. CASE owner[d] = p
    <3>1. Walk(d, list.next) = t
      BY <1>8, <1>13, ListWalk, Zenon
    <3>2. owner'[d] = Elect(t, removing)
      BY <1>1, <2>1, <2>2, <3>1, Zenon DEF NewOwner
    <3>3. IF t = <<>> THEN Elect(t, removing) = None ELSE \E j \in 1..Len(t) : Elect(t, removing) = t[j]
      BY ElectType, Zenon
    <3>4. t = <<>> <=> Holders(d)' = {}
      <4>1. Len(t) \in Nat /\ (t = <<>> <=> Len(t) = 0)
        OBVIOUS
      <4>2. Len(t) = 0 => \A q : q \notin Holders(d)'
        BY <1>13
      <4>3. Len(t) # 0 => t[1] \in Holders(d)'
        BY <1>13, <4>1
      <4> QED BY <4>1, <4>2, <4>3, Zenon
    <3> QED BY <1>13, <3>2, <3>3, <3>4, Zenon DEF Owned
  <2>3. CASE owner[d] # p
    BY <1>1, <1>4, <2>1, <2>3, Zenon DEF Owned, NewOwner
  <2> QED BY <2>2, <2>3, Zenon
<1>15. \A x \in Dir : Owned(x)'
  BY <1>1, <1>4, <1>14, Zenon DEF Owned, ListInv, Lists, LinkInv
<1>16. ASSUME NEW x \in Dir, refs'[x] > 0 PROVE HasList(x)'
  <2>1. x \notin Released(d)
    <3> SUFFICES ASSUME x \in Released(d) PROVE FALSE
      BY Zenon
    <3>1. refs[x] = 1 /\ x \in Dropped(d)
      BY ReleasedUnused, Zenon
    <3> QED BY <1>1, <1>16, <3>1
  <2>2. refs[x] > 0
    BY <1>1, <1>16 DEF ListInv, RefInv, DirInv
  <2>3. ASSUME NEW y \in Family(x) \ {Poison} PROVE next'[y] = list.next[y] /\ prev'[y] = list.prev[y]
    <3>1. y \in Node \cup Dir /\ (y \in Dir => y = x) /\ Released(d) \subseteq Dir
      BY FamilyApart, ReleasedUnused, ConstantsAssumption, Zenon
    <3> QED BY <1>1, <1>9, <2>1, <3>1, Zenon
  <2>4. CASE x = d
    <3>1. IsList(d, t, next', prev')
      BY <1>13, <2>3, <2>4, ListSame
    <3> QED BY <1>5, <1>13, <2>4, <3>1, Zenon DEF HasList
  <2>5. CASE x # d
    <3>1. PICK w \in Seq(Pkg) : /\ IsList(x, w, next, prev)
                                /\ \A q : (\E i \in 1..Len(w) : w[i] = q) <=> q \in Holders(x)
      BY <1>5, <2>2 DEF ListInv, Lists, HasList
    <3>2. ASSUME NEW y \in Family(x) \ {Poison} PROVE next'[y] = next[y] /\ prev'[y] = prev[y]
      <4>1. y # nd
        <5>1. \A e \in Dir : y \in Family(e) => e = x
          BY FamilyApart, Zenon
        <5> HIDE DEF nd
        <5> QED BY <1>9, <2>5, <5>1, Zenon
      <4> QED BY <1>10, <2>3, <2>5, <4>1
    <3>3. IsList(x, w, next', prev')
      BY <3>1, <3>2, ListSame, Zenon
    <3> QED BY <1>4, <1>5, <2>5, <3>1, <3>3, Zenon DEF HasList
  <2> QED BY <2>4, <2>5, Zenon
<1> QED BY <1>15, <1>16, Zenon DEF Lists

\* Every step that reinstalls nothing keeps the lists.
LEMMA ListStep == ASSUME ~Reinstalls, ListInv, [Next]_vars PROVE ListInv'
<1>1. RefInv' /\ LinkInv' /\ FreshInv'
  BY RefStep, LinkStep, FreshStep, Zenon DEF ListInv, RefInv
<1>0. DirInv /\ Lists /\ FreshInv
  BY Zenon DEF ListInv, RefInv
<1>2. CASE Commit
  <2>1. /\ pc = "idle" /\ pc' = "next" /\ UNCHANGED <<pkgs, diris, refs, owner, next, prev>>
    BY <1>2, Zenon DEF Commit, dirvars
  <2>2. \A d \in Dir : Holders(d)' = Holders(d) /\ InList(d)' = InList(d)
    BY <2>1, Zenon DEF Holders, InList
  <2> QED BY <1>0, <1>1, <2>1, <2>2, SameLists, Zenon DEF ListInv
<1>3. CASE StartChange
  <2>1. /\ pc = "next" /\ idx \in DOMAIN plan
        /\ UNCHANGED <<diris, plan, idx, refs, owner, next, prev>>
    BY <1>0, <1>3 DEF StartChange, dirvars, DirInv
  <2>2. New' = New /\ Old' = Old /\ New \in Pkg \cup {None} /\ New \notin pkgs
    BY <1>0, <2>1, AtHand, Zenon DEF New, Old, FreshInv
  <2>3. CASE New = None
    <3>1. pc' = "purge" /\ todo' = diris[Old] /\ pkgs' = pkgs
      BY <1>3, <2>3, Zenon DEF StartChange
    <3>2. \A d \in Dir : Holders(d)' = Holders(d) /\ InList(d)' = InList(d)
      BY <2>1, <2>2, <3>1, Zenon DEF Holders, InList
    <3> QED BY <1>0, <1>1, <2>1, <3>2, SameLists, Zenon DEF ListInv
  <2>4. CASE New # None
    <3>1. pc' = "unpack" /\ pkgs' = pkgs \cup {New} /\ ic' = diris[New] /\ diris[New] = {}
      BY <1>0, <1>3, <2>2, <2>4, Zenon DEF StartChange, DirInv
    <3>2. \A d \in Dir : Holders(d)' = Holders(d) /\ New \notin Holders(d)
      BY <2>1, <2>2, <3>1, Zenon DEF Holders
    <3>3. \A d \in Dir : InList(d)' = InList(d)
      BY <2>1, <2>2, <3>1, <3>2, Zenon DEF InList
    <3> QED BY <1>0, <1>1, <2>1, <3>2, <3>3, SameLists, Zenon DEF ListInv
  <2> QED BY <2>3, <2>4, Zenon
<1>4. CASE \E d \in Dir \ {Root} : InstallDir(d)
  BY <1>1, <1>4, InstallLists, Zenon DEF ListInv
<1>5. CASE UnpackDone
  <2>1. /\ pc = "unpack" /\ diris' = [diris EXCEPT ![New] = ic] /\ ListAddTail(New, ic)
        /\ UNCHANGED <<pkgs, plan, refs, owner>>
        /\ \/ Old # New /\ pc' = "purge" /\ todo' = diris[Old] /\ idx' = idx
           \/ pc' = "next"
    BY <1>5, Zenon DEF UnpackDone
  <2>2. New \in Pkg /\ New \in pkgs /\ diris[New] = {} /\ diris \in [Pkg -> SUBSET Dir] /\ pkgs \subseteq Pkg
    BY <1>0, <2>1, Zenon DEF DirInv, FreshInv
  <2>3. diris'[New] = ic /\ \A p \in Pkg \ {New} : diris'[p] = diris[p]
    BY <2>1, <2>2, Zenon
  <2>4. idx' = idx => Old' = Old /\ New' = New
    BY <2>1, Zenon DEF Old, New
  <2>5. \A d \in Dir : Holders(d)' = Holders(d)
    BY <2>1, <2>2, <2>3, <2>4, Zenon DEF Holders
  <2> QED BY <1>1, <2>1, <2>5, AddTailLists, Zenon DEF ListInv
<1>6. CASE UnpackError
  <2>1. pc = "unpack" /\ idx \in DOMAIN plan /\ Old # New
    BY <1>0, <1>6, Zenon DEF UnpackError, DirInv, FreshInv, Old, New
  <2>2. /\ diris' = [diris EXCEPT ![New] = ic] /\ ListAddTail(New, ic) /\ todo' = ic /\ pc' = "cancel"
        /\ UNCHANGED <<pkgs, plan, idx, refs, owner>>
    BY <1>6, <2>1, Zenon DEF UnpackError
  <2>3. New \in Pkg /\ New \in pkgs /\ diris[New] = {} /\ diris \in [Pkg -> SUBSET Dir] /\ pkgs \subseteq Pkg
    BY <1>0, <2>1, Zenon DEF DirInv, FreshInv
  <2>4. diris'[New] = ic /\ \A p \in Pkg \ {New} : diris'[p] = diris[p]
    BY <2>2, <2>3, Zenon
  <2>5. Old' = Old /\ New' = New
    BY <2>2, Zenon DEF Old, New
  <2>6. \A d \in Dir : Holders(d)' = Holders(d)
    BY <2>1, <2>2, <2>3, <2>4, <2>5, Zenon DEF Holders
  <2> QED BY <1>1, <2>1, <2>2, <2>6, AddTailLists, Zenon DEF ListInv
<1>7. CASE \E d \in Dir : DiriRemove(d)
  BY <1>1, <1>7, RemoveLists, Zenon DEF ListInv
<1>8. CASE PurgeDone
  <2>1. /\ pc \in {"purge", "cancel"} /\ todo = {} /\ diris' = [diris EXCEPT ![Leaving] = {}]
        /\ pkgs' = pkgs \ {Leaving} /\ pc' = "next" /\ UNCHANGED <<refs, owner, next, prev>>
    BY <1>8, Zenon DEF PurgeDone, dirvars
  <2>2. Leaving \in Pkg /\ diris \in [Pkg -> SUBSET Dir] /\ pkgs \subseteq Pkg
    BY <1>0, <2>1, AtHand, Zenon DEF Leaving, DirInv
  <2>3. \A p \in Pkg \ {Leaving} : diris'[p] = diris[p]
    BY <2>1, <2>2, Zenon
  <2>4. \A d \in Dir : Holders(d)' = Holders(d)
    BY <2>1, <2>2, <2>3, Zenon DEF Holders, Leaving
  <2>5. \A d \in Dir : InList(d)' = InList(d)
    BY <2>1, <2>4, Zenon DEF InList
  <2> QED BY <1>0, <1>1, <2>1, <2>4, <2>5, SameLists, Zenon DEF ListInv
<1>9. CASE Segv \/ WriteConfig
  <2>1. \E S \in SUBSET Pkg : Load(S)
    BY <1>0, <1>9, Zenon DEF Segv, WriteConfig, DirInv
  <2> QED BY <1>1, <2>1, LoadLists, Zenon DEF ListInv
<1>10. CASE StartFix \/ FixDone \/ (\E d \in Dir : FixDir(d)) \/ Admin \/ UNCHANGED vars
  <2>1. /\ UNCHANGED <<pkgs, diris, ic, plan, idx, refs, owner, next, prev>>
        /\ \/ pc' = pc /\ todo' = todo
           \/ pc \in {"idle", "fix"} /\ pc' \in {"fix", "next"}
    BY <1>10, Zenon DEF StartFix, FixDone, FixDir, Admin, Chmod, Put, Rmdir, vars, dirvars
  <2>2. \A d \in Dir : Holders(d)' = Holders(d) /\ InList(d)' = InList(d)
    BY <2>1, Zenon DEF Holders, InList, Old, New
  <2> QED BY <1>0, <1>1, <2>1, <2>2, SameLists, Zenon DEF ListInv
<1> QED BY <1>2, <1>3, <1>4, <1>5, <1>6, <1>7, <1>8, <1>9, <1>10, Zenon DEF Next

\* At first all lists are empty.
LEMMA ListInit == Init => ListInv
<1> SUFFICES ASSUME Init PROVE ListInv
  OBVIOUS
<1>1. /\ pkgs = {} /\ refs = [d \in Dir |-> 0] /\ owner = [d \in Dir |-> None]
      /\ plan = <<>> /\ pc = "idle" /\ DOMAIN plan = {}
  BY DEF Init
<1>2. FreshInv
  BY <1>1, Zenon DEF FreshInv
<1>3. \A d \in Dir : Holders(d) = {} /\ refs[d] = 0 /\ owner[d] = None
  BY <1>1, Zenon DEF Holders
<1>4. Lists
  BY <1>3 DEF Lists, Owned
<1> QED BY <1>2, <1>4, RefInit, LinkInit, Zenon DEF ListInv

\* Walk reads the ghost sequence back.
LEMMA ListsExact == ListInv => ListExact
<1> SUFFICES ASSUME ListInv, NEW d \in Dir, refs[d] > 0
             PROVE  /\ WalkReturns(d, next)
                    /\ LET w == Walk(d, next) IN
                         /\ {w[i] : i \in DOMAIN w} = {p \in Holders(d) : ~(pc = "unpack" /\ p = New)}
                         /\ \A i, j \in DOMAIN w : i # j => w[i] # w[j]
  BY Zenon DEF ListExact
<1>1. PICK s \in Seq(Pkg) : /\ IsList(d, s, next, prev)
                            /\ \A p : (\E i \in 1..Len(s) : s[i] = p) <=> p \in InList(d)
  BY Zenon DEF ListInv, Lists, HasList
<1>2. WalkReturns(d, next) /\ Walk(d, next) = s
  BY <1>1, ListWalk, Zenon DEF ListInv, LinkInv
<1>3. DOMAIN s = 1..Len(s) /\ \A i, j \in 1..Len(s) : i # j => s[i] # s[j]
  BY <1>1 DEF IsList
<1>4. {s[i] : i \in DOMAIN s} = InList(d)
  BY <1>1, <1>3
<1> QED BY <1>2, <1>3, <1>4, Zenon DEF InList

\* The walk of apk_db_diri_remove reads the list without the node that was removed.
LEMMA WalksEnd == ListInv => OwnerWalkEnds
<1> SUFFICES ASSUME ListInv, pc \in {"purge", "cancel"}, NEW d \in todo
             PROVE  /\ Poison \notin {next[<<Leaving, d>>], prev[<<Leaving, d>>]}
                    /\ WalkReturns(d, Unlinked(<<Leaving, d>>).next)
  BY Zenon DEF OwnerWalkEnds
<1> DEFINE nd == <<Leaving, d>>
           list == Unlinked(nd)
<1>1. Leaving \in Pkg /\ Leaving \in pkgs /\ d \in diris[Leaving] /\ d \in Dir
  <2>1. Leaving \in Pkg
    BY AtHand, Zenon DEF Leaving, ListInv, RefInv, DirInv
  <2> QED BY <2>1, Zenon DEF ListInv, RefInv, DirInv
<1>2. Leaving \in Holders(d) /\ InList(d) = Holders(d)
  BY <1>1, Zenon DEF Holders, Leaving, InList
<1>3. refs[d] > 0
  <2>1. Exact
    BY Zenon DEF ListInv, RefInv, RelinkFailed, Relinks, FreshInv
  <2> QED BY <1>1, <1>2, <2>1, ExactCounts, Zenon DEF ListInv, RefInv, DirInv
<1>4. PICK s \in Seq(Pkg) : /\ IsList(d, s, next, prev)
                            /\ \A p : (\E i \in 1..Len(s) : s[i] = p) <=> p \in Holders(d)
  BY <1>1, <1>2, <1>3 DEF ListInv, Lists, HasList
<1>5. PICK k \in 1..Len(s) : s[k] = Leaving
  BY <1>2, <1>4, Zenon
<1>6. At(d, s, k) = nd /\ k \in 0..Len(s) /\ k \in 1..(Len(s) + 1)
  BY <1>5 DEF At
<1>7. Poison \notin {next[nd], prev[nd]}
  <2>1. next[nd] = At(d, s, k + 1) /\ prev[nd] = At(d, s, k - 1)
    BY <1>4, <1>6, Zenon DEF IsList
  <2> QED BY <1>1, <2>1, AtNode
<1>8. ASSUME NEW y \in Family(d) \ {Poison, <<s[k], d>>}
      PROVE  /\ list.next[y] = IF y = prev[<<s[k], d>>] THEN next[<<s[k], d>>] ELSE next[y]
             /\ list.prev[y] = IF y = next[<<s[k], d>>] THEN prev[<<s[k], d>>] ELSE prev[y]
  <2>1. /\ list.next = [next EXCEPT ![prev[nd]] = next[nd], ![nd] = Poison]
        /\ list.prev = [prev EXCEPT ![next[nd]] = prev[nd], ![nd] = Poison]
    BY Zenon DEF Unlinked
  <2>2. y \in DOMAIN next /\ y \in DOMAIN prev /\ <<s[k], d>> = nd
    BY <1>1, <1>5, FamilyApart, Zenon DEF ListInv, LinkInv
  <2> HIDE DEF nd, list
  <2> QED BY <2>1, <2>2, Zenon
<1>9. Linked(d, list.next)
  BY <1>1, UnlinkLinks, Zenon DEF ListInv
<1> HIDE DEF list
<1>10. \E t \in Seq(Pkg) : IsList(d, t, list.next, list.prev) /\ Without(t, s, k)
  BY <1>1, <1>4, <1>8, ListDelete, Zenon
<1>11. WalkReturns(d, list.next)
  BY <1>1, <1>9, <1>10, ListWalk, Zenon
<1> QED BY <1>7, <1>11, Zenon DEF list

\* While no changeset reinstalls a package: dir->owner is always one of the packages that have the
\* directory (apk_db_diri_remove elects it anew when the owner goes), dir->diris holds exactly the
\* linked instances, each once, and list_del and the walk of apk_db_diri_remove meet no removed node.
\* It holds for any packages, priorities, tree and number of changes, through failed installations too.
THEOREM OwnersHold == ASSUME ~Reinstalls PROVE Spec => [](OwnerHolds /\ ListSound)
<1>1. ListInv /\ [Next]_vars => ListInv'
  BY ListStep, Zenon
<1>2. ListInv => OwnerHolds /\ ListSound
  <2>1. ListInv => OwnerHolds
    BY Zenon DEF ListInv, Lists, Owned, OwnerHolds
  <2> QED BY <2>1, ListsExact, WalksEnd, Zenon DEF ListSound, RelinkHarmless
<1> QED BY <1>1, <1>2, ListInit, PTL DEF Spec
=============================================================================
