------------------------------- MODULE ApkDirs -------------------------------
(* The directories of the installed database: reference counts, owners,       *)
(* permissions and the lists of directory instances that apk-tools/src/       *)
(* database.c keeps for every directory, while the changes of a changeset     *)
(* install, upgrade, reinstall and purge packages.  A directory instance      *)
(* (struct apk_db_dir_instance) is a pair of a package and a directory; its   *)
(* list node lives in the doubly linked list dir->diris, which is modelled    *)
(* pointer by pointer.                                                        *)
EXTENDS Integers, FiniteSets, Sequences

CONSTANTS
  Pkg,         \* package versions
  NameOf,      \* [Pkg -> names]
  NameRank,    \* [Pkg -> Nat]: the order of the names, as strcmp gives it
  Origin,      \* [Pkg -> names or NoOrigin]
  Prio,        \* [Pkg -> Nat]: replaces_priority
  Dir, Root,   \* directories; the root directory is one of them
  Parent,      \* [Dir \ {Root} -> Dir]
  DirsOf,      \* [Pkg -> SUBSET Dir]: directory entries of the archive
  Acl,         \* [Pkg -> [Dir -> modes]]: their permissions
  DefaultAcl, UserAcl,
  Reinstalls,  \* whether changesets may reinstall
  MaxChanges, MaxCommits, MaxEdits, MaxFaults,
  None, NoOrigin, Absent, Poison

Acls == {Acl[p][d] : p \in Pkg, d \in Dir} \cup {DefaultAcl, UserAcl}

\* d and the directories above it: what every set has that holds d and, with a directory, its parent.
Up == [d \in Dir |->
         {x \in Dir : \A S \in SUBSET Dir :
            d \in S /\ (\A y \in S \ {Root} : Parent[y] \in S) => x \in S}]
Children(d) == {c \in Dir \ {Root} : Parent[c] = d}
Between(d, x) == {y \in Up[d] : x \in Up[y]}

Node == Pkg \X Dir
Link == Node \cup Dir \cup {Poison}

ASSUME ConstantsAssumption ==
  /\ IsFiniteSet(Pkg) /\ IsFiniteSet(Dir)
  /\ Root \in Dir /\ Parent \in [Dir \ {Root} -> Dir]
  /\ \A d \in Dir : Root \in Up[d]
  /\ DirsOf \in [Pkg -> SUBSET (Dir \ {Root})]
  /\ Prio \in [Pkg -> Nat] /\ NameRank \in [Pkg -> Nat]
  /\ \A p, q \in Pkg : NameRank[p] = NameRank[q] <=> NameOf[p] = NameOf[q]
  /\ Reinstalls \in BOOLEAN
  /\ {MaxChanges, MaxCommits, MaxEdits, MaxFaults} \subseteq Nat
  /\ None \notin Pkg /\ Poison \notin Node \cup Dir /\ Node \cap Dir = {}
  /\ {None, Absent} \cap Acls = {}
  /\ UserAcl \notin {Acl[p][d] : p \in Pkg, d \in Dir} \cup {DefaultAcl}

VARIABLES
  onDisk,     \* [Dir -> permissions or Absent]
  foreign,    \* directories that hold something apk does not own
  db,         \* packages in the database file
  pkgs,       \* packages with an ipkg
  removing,   \* packages with ipkg->to_be_removed
  diris,      \* [Pkg -> SUBSET Dir]: ipkg->diris
  ic,         \* db->ic.diris, the directories of the package being unpacked
  refs, owner, created, permissions_ok, modified,   \* of struct apk_db_dir
  next, prev, \* the list heads and nodes of dir->diris
  plan, idx, pc, todo, commits, edits, faults

dirvars == <<refs, owner, created, permissions_ok, modified, next, prev>>
bounds == <<commits, edits, faults>>
vars == <<onDisk, foreign, db, pkgs, removing, diris, ic, dirvars, plan, idx, pc, todo, bounds>>

Change == [old : Pkg \cup {None}, new : Pkg \cup {None}]

----------------------------------------------------------------------------
\* apk_pkg_replaces_dir(a, b) = APK_PKG_REPLACES_YES, with rm the packages to be removed.
ReplacesDir(a, b, rm) ==
  \/ NameOf[a] = NameOf[b]
  \/ a \in rm
  \/ /\ a \notin rm /\ b \notin rm
     /\ \/ Prio[a] < Prio[b]
        \/ /\ Prio[a] = Prio[b]
           /\ LET kin == Origin[a] # NoOrigin /\ Origin[a] = Origin[b]
              IN IF kin /\ Origin[a] = NameOf[a] THEN FALSE
                 ELSE IF kin /\ Origin[b] = NameOf[b] THEN TRUE
                 ELSE NameRank[a] > NameRank[b]

\* The owner a walk over packages s (in list order) settles on.
Elect(s, rm) ==
  LET o[i \in 0..Len(s)] ==
        IF i = 0 THEN None
        ELSE IF o[i-1] = None \/ ReplacesDir(o[i-1], s[i], rm) THEN s[i] ELSE o[i-1]
  IN o[Len(s)]

----------------------------------------------------------------------------
(* Lists of apk_defines.h.                                                    *)

\* list_add_tail of the node of package p, for every directory of D.
ListAddTail(p, D) ==
  /\ prev' = [x \in DOMAIN prev |->
                IF x \in D THEN <<p, x>>
                ELSE IF \E d \in D : x = <<p, d>> THEN prev[x[2]]
                ELSE prev[x]]
  /\ next' = [x \in DOMAIN next |->
                IF \E d \in D : x = prev[d] THEN <<p, (CHOOSE d \in D : x = prev[d])>>
                ELSE IF \E d \in D : x = <<p, d>> THEN x[2]
                ELSE next[x]]

\* Faulty variant: the back pointer of the successor is forgotten.
UnlinkedForward(n) ==
  [next |-> [next EXCEPT ![prev[n]] = next[n], ![n] = Poison],
   prev |-> [prev EXCEPT ![n] = Poison]]

\* list_del of node n.
Unlinked(n) ==
  [next |-> [next EXCEPT ![prev[n]] = next[n], ![n] = Poison],
   prev |-> [prev EXCEPT ![next[n]] = prev[n], ![n] = Poison]]

\* list_for_each_entry over the list of d: the packages met, if the walk returns to d.
Steps(d, nx) ==
  LET at[i \in 0..(Cardinality(Pkg) + 1)] ==
        IF i = 0 THEN nx[d] ELSE IF at[i-1] \in {d, Poison} THEN at[i-1] ELSE nx[at[i-1]]
  IN at
WalkReturns(d, nx) == Steps(d, nx)[Cardinality(Pkg) + 1] = d
Walk(d, nx) ==
  LET at  == Steps(d, nx)
      len == Cardinality({i \in DOMAIN at : at[i] # d})
  IN [i \in 1..len |-> at[i-1][1]]

----------------------------------------------------------------------------
(* Reading the database.                                                      *)

\* The packages of S that have directory d, in the order fdb_read meets them.
Users(S, d) ==
  LET U == {p \in S : d \in DirsOf[p]}
  IN CHOOSE s \in [1..Cardinality(U) -> U] :
       /\ \A p \in U : \E i \in DOMAIN s : s[i] = p
       /\ \A i, j \in DOMAIN s : i < j => NameRank[s[i]] <= NameRank[s[j]]

Referenced(S) == UNION {Up[d] : d \in UNION {DirsOf[p] : p \in S}}
RefsOf(S, d) ==
  Cardinality({p \in S : d \in DirsOf[p]}) + Cardinality(Children(d) \cap Referenced(S))

\* The state of a new apk process that has read the packages S.
Load(S) ==
  LET after(p, d) == LET u == Users(S, d)
                         i == CHOOSE j \in DOMAIN u : u[j] = p
                     IN IF i = Len(u) THEN d ELSE <<u[i+1], d>>
      before(p, d) == LET u == Users(S, d)
                          i == CHOOSE j \in DOMAIN u : u[j] = p
                      IN IF i = 1 THEN d ELSE <<u[i-1], d>>
  IN
  /\ pkgs' = S /\ removing' = {}
  /\ diris' = [p \in Pkg |-> IF p \in S THEN DirsOf[p] ELSE {}]
  /\ ic' = {}
  /\ refs' = [d \in Dir |-> RefsOf(S, d)]
  /\ owner' = [d \in Dir |-> Elect(Users(S, d), {})]
  /\ created' = {} /\ permissions_ok' = {} /\ modified' = {}
  /\ next' = [x \in Node \cup Dir |->
                IF x \in Dir THEN IF Len(Users(S, x)) = 0 THEN x ELSE <<Users(S, x)[1], x>>
                ELSE IF x[1] \in S /\ x[2] \in DirsOf[x[1]] THEN after(x[1], x[2]) ELSE x]
  /\ prev' = [x \in Node \cup Dir |->
                IF x \in Dir THEN IF Len(Users(S, x)) = 0 THEN x
                                  ELSE <<Users(S, x)[Len(Users(S, x))], x>>
                ELSE IF x[1] \in S /\ x[2] \in DirsOf[x[1]] THEN before(x[1], x[2]) ELSE x]
  /\ plan' = <<>> /\ idx' = 1 /\ pc' = "idle" /\ todo' = {}

Init ==
  /\ onDisk = [d \in Dir |-> IF d = Root THEN DefaultAcl ELSE Absent]
  /\ foreign = {} /\ db = {}
  /\ pkgs = {} /\ removing = {} /\ diris = [p \in Pkg |-> {}] /\ ic = {}
  /\ refs = [d \in Dir |-> 0] /\ owner = [d \in Dir |-> None]
  /\ created = {} /\ permissions_ok = {} /\ modified = {}
  /\ next = [x \in Node \cup Dir |-> x] /\ prev = [x \in Node \cup Dir |-> x]
  /\ plan = <<>> /\ idx = 1 /\ pc = "idle" /\ todo = {}
  /\ commits = 0 /\ edits = 0 /\ faults = 0

\* The changes the solver may ask for when S is installed.
Changes(S) ==
  {c \in Change :
     /\ c.old # None \/ c.new # None
     /\ c.old # None => c.old \in S
     /\ c.new # None =>
          \/ c.old = c.new /\ Reinstalls
          \/ c.new \notin S
             /\ \A p \in S : NameOf[p] = NameOf[c.new] <=> p = c.old
     /\ c.old # None /\ c.new # None => NameOf[c.old] = NameOf[c.new]}
Named(c) == IF c.new # None THEN NameOf[c.new] ELSE NameOf[c.old]
Changesets ==
  UNION {{s \in [1..n -> Changes(pkgs)] :
            \A i, j \in 1..n : i # j => Named(s[i]) # Named(s[j])} : n \in 1..MaxChanges}

\* apk_solver_commit_changeset starts: it marks the packages that go as to_be_removed.
Commit ==
  /\ pc = "idle" /\ commits < MaxCommits
  /\ \E s \in Changesets :
       /\ plan' = s
       /\ removing' = {s[i].old : i \in {j \in DOMAIN s : s[j].old # s[j].new}} \ {None}
  /\ pc' = "next" /\ idx' = 1 /\ commits' = commits + 1
  /\ UNCHANGED <<onDisk, foreign, db, pkgs, diris, ic, dirvars, todo, edits, faults>>

Old == plan[idx].old
New == plan[idx].new

\* The package being purged.
Leaving == IF pc = "purge" THEN Old ELSE New

\* A failed reinstallation leaves its instances linked after the ipkg is freed:
\* apk_pkg_replaces_dir follows the NULL pointer, and the process dies.  So it does in
\* fix_directory_permissions on a directory that is only there for those below it.
Dangles(d) ==
  CASE pc = "unpack" -> owner[d] \notin pkgs \cup {None} /\ NameOf[owner[d]] # NameOf[New]
    [] pc = "fix"    -> owner[d] = None
    [] OTHER -> /\ owner[d] = Leaving
                /\ LET w == Walk(d, Unlinked(<<Leaving, d>>).next)
                   IN Len(w) > 1 /\ \E i \in DOMAIN w : w[i] \notin pkgs
----------------------------------------------------------------------------
(* Installing.                                                                *)

\* apk_db_install_pkg starts on the next change.
StartChange ==
  /\ pc = "next" /\ idx <= Len(plan)
  /\ IF New = None
     THEN /\ pc' = "purge" /\ todo' = diris[Old]
          /\ UNCHANGED <<pkgs, ic>>
     ELSE /\ pc' = "unpack" /\ todo' = DirsOf[New]
          /\ pkgs' = pkgs \cup {New} /\ ic' = diris[New]
  /\ UNCHANGED <<onDisk, foreign, db, removing, diris, dirvars, plan, idx, bounds>>

\* apk_db_dir_get(d): the reference counts, and the directories it brings to life.
Revived(d) == {x \in Up[d] : \A y \in Between(d, x) : refs[y] = 0}
Referring(d) == {d} \cup {Parent[x] : x \in Revived(d) \ {Root}}

\* apk_db_dir_prepare of d with the given permissions, on the directories above it that
\* are not yet created with the default ones: what is on disk, created and permissions_ok after.
Prepare(d, expected, new) ==
  LET chain == {x \in Up[d] \ {Root} : \A y \in Between(d, x) : y \notin created}
      want(x) == IF x = d THEN expected ELSE DefaultAcl
      make(x) == IF x = d THEN new ELSE DefaultAcl
      fine == {x \in chain : onDisk[x] = Absent \/ onDisk[x] = want(x)}
  IN [onDisk  |-> [x \in Dir |-> IF x \in chain /\ onDisk[x] = Absent THEN make(x) ELSE onDisk[x]],
      created |-> created \cup chain,
      ok      |-> permissions_ok \cup fine]

\* apk_db_install_file on the entry of directory d: apk_db_diri_get,
\* apk_db_dir_apply_diri_permissions and apk_db_dir_prepare.
InstallDir(d) ==
  LET p     == New
      fresh == d \notin ic
      was   == owner[d]
      takes == was = None \/ ReplacesDir(was, p, removing)
      now   == IF takes THEN p ELSE was
      expected == IF was = None THEN None ELSE Acl[was][d]
      update == takes /\ was # None /\ Acl[was][d] # Acl[p][d] /\ d \in permissions_ok
      ready  == Prepare(d, expected, Acl[now][d])
  IN
  /\ pc = "unpack" /\ d \in todo /\ Parent[d] \notin todo /\ ~Dangles(d)
  /\ ic' = ic \cup {d}
  /\ refs' = IF fresh THEN [x \in Dir |-> IF x \in Referring(d) THEN refs[x] + 1 ELSE refs[x]]
             ELSE refs
  /\ next' = IF fresh THEN [x \in DOMAIN next |-> IF x \in Revived(d) THEN x ELSE next[x]] ELSE next
  /\ prev' = IF fresh THEN [x \in DOMAIN prev |-> IF x \in Revived(d) THEN x ELSE prev[x]] ELSE prev
  /\ owner' = [owner EXCEPT ![d] = now]
  /\ modified' = IF update THEN modified \cup {d} ELSE modified
  /\ onDisk' = IF update THEN [ready.onDisk EXCEPT ![d] = Acl[p][d]] ELSE ready.onDisk
  /\ created' = ready.created
  /\ permissions_ok' = ready.ok
  /\ todo' = todo \ {d}
  /\ UNCHANGED <<foreign, db, pkgs, removing, diris, plan, idx, pc, bounds>>

\* apk_db_unpack_pkg returns; apk_db_ipkg_commit links the instances, and
\* apk_db_migrate_files marks the directories modified.
UnpackDone ==
  /\ pc = "unpack" /\ todo = {}
  /\ diris' = [diris EXCEPT ![New] = ic] /\ ic' = {}
  /\ ListAddTail(New, ic)
  /\ modified' = modified \cup ic
  /\ IF Old # None /\ Old # New
     THEN pc' = "purge" /\ todo' = diris[Old] /\ UNCHANGED idx
     ELSE pc' = "next" /\ idx' = idx + 1 /\ UNCHANGED todo
  /\ UNCHANGED <<onDisk, foreign, db, pkgs, removing, refs, owner, created, permissions_ok, plan, bounds>>

\* apk_db_unpack_pkg fails: the instances are linked all the same, and unless the package
\* was being reinstalled they are purged as not installed.
UnpackError ==
  /\ pc = "unpack" /\ faults < MaxFaults
  /\ faults' = faults + 1
  /\ ListAddTail(New, ic)
  /\ ic' = {}
  /\ IF Old # New
     THEN /\ diris' = [diris EXCEPT ![New] = ic] /\ todo' = ic
          /\ pc' = "cancel" /\ UNCHANGED <<pkgs, idx>>
     ELSE /\ diris' = [diris EXCEPT ![New] = {}] /\ todo' = {}
          /\ pkgs' = pkgs \ {New} /\ pc' = "next" /\ idx' = idx + 1
  /\ UNCHANGED <<onDisk, foreign, db, removing, refs, owner, created, permissions_ok, modified,
                 plan, commits, edits>>

----------------------------------------------------------------------------
(* Purging.                                                                   *)

\* Faulty variant: off by one.
ReleasedEarly(d) == {x \in Up[d] : \A y \in Between(d, x) : refs[y] <= 2}

\* apk_db_dir_unref(d): the directories whose last reference goes.
Released(d) == {x \in Up[d] : \A y \in Between(d, x) : refs[y] = 1}
\* Faulty variant: the parent keeps its reference.
DroppedAlone(d) == {d}
Dropped(d) == {d} \cup {Parent[x] : x \in Released(d) \ {Root}}

\* rmdir of the directories of R, from the lowest up, fails on one that is not empty.
Emptied(d, R) ==
  {x \in R \ {Root} :
     \A y \in Between(d, x) :
        /\ y \notin foreign
        /\ \A c \in Children(y) \ R : onDisk[c] = Absent}

\* "dir->created = dir->permissions_ok = 0" at the end of apk_db_dir_unref.
Cleared(flag, gone) == flag \ gone

\* Faulty variant: the directory keeps the owner it had.
SameOwner(d, p, nx) == owner[d]
\* The owner of d once the instance of p is gone from the list.
NewOwner(d, p, nx) == IF owner[d] = p THEN Elect(Walk(d, nx), removing) ELSE owner[d]

\* One round of apk_db_purge_pkg: apk_db_diri_remove on directory d of package p.
DiriRemove(d) ==
  LET p     == Leaving
      gone  == Released(d)
      list  == Unlinked(<<p, d>>)
      elect == NewOwner(d, p, list.next)
      update == owner[d] = p /\ elect # None /\ d \in permissions_ok
      perms == IF update /\ onDisk[d] # Absent THEN [onDisk EXCEPT ![d] = Acl[elect][d]] ELSE onDisk
  IN
  /\ pc \in {"purge", "cancel"} /\ d \in todo
  /\ (owner[d] = p => WalkReturns(d, list.next)) /\ ~Dangles(d)
  /\ next' = [x \in DOMAIN next |-> IF x \in gone THEN Poison ELSE list.next[x]]
  /\ prev' = [x \in DOMAIN prev |-> IF x \in gone THEN Poison ELSE list.prev[x]]
  /\ owner' = [owner EXCEPT ![d] = elect]
  /\ refs' = [x \in Dir |-> IF x \in Dropped(d) THEN refs[x] - 1 ELSE refs[x]]
  /\ onDisk' = [x \in Dir |-> IF x \in Emptied(d, gone) THEN Absent ELSE perms[x]]
  /\ modified' = modified \cup (gone \ {Root})
                 \cup (IF update \/ pc = "purge" THEN {d} ELSE {})
  /\ created' = Cleared(created, gone)
  /\ permissions_ok' = Cleared(permissions_ok, gone)
  /\ todo' = todo \ {d}
  /\ UNCHANGED <<foreign, db, pkgs, removing, diris, ic, plan, idx, pc, bounds>>

\* The process follows a NULL pointer: of a freed ipkg, or of a directory without owner.
Segv ==
  /\ pc \in {"unpack", "purge", "cancel", "fix"}
  /\ \E d \in todo : Dangles(d)
  /\ Load(db)
  /\ UNCHANGED <<onDisk, foreign, db, bounds>>

\* apk_db_purge_pkg returns and apk_pkg_uninstall drops the package.
PurgeDone ==
  /\ pc \in {"purge", "cancel"} /\ todo = {}
  /\ diris' = [diris EXCEPT ![Leaving] = {}]
  /\ pkgs' = pkgs \ {Leaving} /\ removing' = removing \ {Leaving}
  /\ pc' = "next" /\ idx' = idx + 1
  /\ UNCHANGED <<onDisk, foreign, db, ic, dirvars, plan, todo, bounds>>

\* apk_db_write_config, and the process ends: the next one reads what was written.
WriteConfig ==
  /\ pc = "next" /\ idx > Len(plan)
  /\ db' = pkgs
  /\ Load(pkgs)
  /\ UNCHANGED <<onDisk, foreign, bounds>>

----------------------------------------------------------------------------
(* apk fix --directory-permissions, and the administrator.                    *)

StartFix ==
  /\ pc = "idle" /\ commits < MaxCommits
  /\ commits' = commits + 1
  /\ pc' = "fix" /\ todo' = {d \in Dir \ {Root} : refs[d] > 0}
  /\ UNCHANGED <<onDisk, foreign, db, pkgs, removing, diris, ic, dirvars, plan, idx, edits, faults>>

\* fix_directory_permissions on one directory, in the order of the hash table.
FixDir(d) ==
  LET acl   == Acl[owner[d]][d]
      ready == Prepare(d, acl, acl)
      fixed == d \notin ready.ok
  IN
  /\ pc = "fix" /\ d \in todo /\ ~Dangles(d)
  /\ onDisk' = IF fixed THEN [ready.onDisk EXCEPT ![d] = acl] ELSE ready.onDisk
  /\ created' = ready.created
  /\ permissions_ok' = ready.ok \cup {d}
  /\ modified' = IF fixed THEN modified \cup {d} ELSE modified
  /\ todo' = todo \ {d}
  /\ UNCHANGED <<foreign, db, pkgs, removing, diris, ic, refs, owner, next, prev, plan, idx, pc, bounds>>

\* The command goes on to commit a changeset of the packages to fix, here an empty one.
FixDone ==
  /\ pc = "fix" /\ todo = {}
  /\ pc' = "next"
  /\ UNCHANGED <<onDisk, foreign, db, pkgs, removing, diris, ic, dirvars, plan, idx, todo, bounds>>

\* Between two runs of apk the administrator changes a directory's permissions, ...
Chmod(d, acl) ==
  /\ pc = "idle" /\ edits < MaxEdits
  /\ d # Root /\ onDisk[d] \notin {Absent, acl}
  /\ onDisk' = [onDisk EXCEPT ![d] = acl]
  /\ edits' = edits + 1
  /\ UNCHANGED <<foreign, db, pkgs, removing, diris, ic, dirvars, plan, idx, pc, todo, commits, faults>>

\* ... creates a file of their own in one, ...
Put(d) ==
  /\ pc = "idle" /\ edits < MaxEdits
  /\ d # Root /\ onDisk[d] # Absent /\ d \notin foreign
  /\ foreign' = foreign \cup {d}
  /\ edits' = edits + 1
  /\ UNCHANGED <<onDisk, db, pkgs, removing, diris, ic, dirvars, plan, idx, pc, todo, commits, faults>>

\* ... or deletes one.
Rmdir(d) ==
  /\ pc = "idle" /\ edits < MaxEdits
  /\ d # Root /\ onDisk[d] # Absent /\ d \notin foreign
  /\ \A c \in Children(d) : onDisk[c] = Absent
  /\ onDisk' = [onDisk EXCEPT ![d] = Absent]
  /\ edits' = edits + 1
  /\ UNCHANGED <<foreign, db, pkgs, removing, diris, ic, dirvars, plan, idx, pc, todo, commits, faults>>

Admin == \E d \in Dir :
  \/ \E acl \in {UserAcl, DefaultAcl} : Chmod(d, acl)
  \/ Put(d)
  \/ Rmdir(d)

Next ==
  \/ Commit
  \/ StartChange
  \/ \E d \in Dir \ {Root} : InstallDir(d)
  \/ UnpackDone
  \/ UnpackError
  \/ \E d \in Dir : DiriRemove(d)
  \/ Segv
  \/ PurgeDone
  \/ WriteConfig
  \/ StartFix
  \/ \E d \in Dir : FixDir(d)
  \/ FixDone
  \/ Admin

Spec == Init /\ [][Next]_vars

----------------------------------------------------------------------------
(* Properties.                                                                *)

TypeOK ==
  /\ onDisk \in [Dir -> Acls \cup {Absent}]
  /\ foreign \subseteq Dir
  /\ db \subseteq Pkg /\ pkgs \subseteq Pkg /\ removing \subseteq Pkg
  /\ diris \in [Pkg -> SUBSET Dir] /\ ic \subseteq Dir
  /\ refs \in [Dir -> Nat]
  /\ owner \in [Dir -> Pkg \cup {None}]
  /\ created \subseteq Dir /\ permissions_ok \subseteq Dir /\ modified \subseteq Dir
  /\ next \in [Node \cup Dir -> Link] /\ prev \in [Node \cup Dir -> Link]
  /\ \A i \in DOMAIN plan : plan[i] \in Change
  /\ idx \in 1..(MaxChanges + 1)
  /\ pc \in {"idle", "next", "unpack", "purge", "cancel", "fix"}
  /\ todo \subseteq Dir
  /\ commits \in 0..MaxCommits /\ edits \in 0..MaxEdits /\ faults \in 0..MaxFaults

\* The instances a directory has now: linked ones that are still to be removed, and those of
\* the package being unpacked.
Holders(d) ==
  {p \in pkgs : \/ d \in diris[p] /\ ~(pc = "purge" /\ p = Old /\ d \notin todo)
                                   /\ ~(pc = "cancel" /\ p = New /\ d \notin todo)
                \/ pc = "unpack" /\ p = New /\ d \in ic}

\* A reinstallation takes the directory instances of the package over and links them again.
\* One that fails leaves them behind when the package's record is freed.
Relinks == \E i \in DOMAIN plan : plan[i].old = plan[i].new
RelinkFailed == Relinks /\ faults > 0

\* apk_db_dir_get and apk_db_dir_unref keep the counts exact through upgrades and failed
\* installations: a directory is referenced once by every package instance that has it and
\* once by every referenced directory directly below it.
RefsExact ==
  \A d \in Dir : ~RelinkFailed =>
    refs[d] = Cardinality(Holders(d)) + Cardinality({c \in Children(d) : refs[c] > 0})

\* A directory has an owner exactly while some package has it, and the owner is one of the
\* packages that have it (the pointer dir->owner never dangles).
OwnerHolds ==
  RelinkFailed \/ \A d \in Dir :
    IF Holders(d) = {} THEN owner[d] = None ELSE owner[d] \in Holders(d)

\* The list dir->diris holds exactly the linked instances of the directory, each once, as
\* long as the changeset reinstalls nothing.
ListExact ==
  \A d \in Dir : ~Relinks /\ refs[d] > 0 =>
    /\ WalkReturns(d, next)
    /\ LET w == Walk(d, next) IN
         /\ {w[i] : i \in DOMAIN w} = {p \in Holders(d) : ~(pc = "unpack" /\ p = New)}
         /\ \A i, j \in DOMAIN w : i # j => w[i] # w[j]

\* dir->created is never stale: a directory the process believes to have prepared is there,
\* so no file of a later package is extracted into a directory that was removed meanwhile.
CreatedExists == \A d \in created : onDisk[d] # Absent

\* apk removes a directory only when no package has it any longer, and only when nothing
\* of the administrator's is in it.
ReferencedDirsKept ==
  [][\A d \in Dir : onDisk[d] # Absent /\ onDisk'[d] = Absent /\ edits' = edits
        => refs'[d] = 0 /\ d \notin foreign]_vars

\* Permissions the administrator gave a directory before the run are kept (permissions_ok
\* is only set for a directory that is as the database says), except by apk fix.
UserPermissionsKept ==
  [][\A d \in Dir : onDisk[d] = UserAcl /\ pc # "fix" /\ edits' = edits
        => onDisk'[d] \in {UserAcl, Absent}]_vars

\* "Check if the ACL changed and the directory needs update": once apk is done, a directory
\* whose permissions nobody changed has those of its owner.
PermissionsCurrent ==
  pc = "idle" /\ edits = 0 =>
    \A d \in Dir : owner[d] # None => onDisk[d] = Acl[owner[d]][d]

\* "Walk the directory instance to determine new owner": the walk over dir->diris comes back
\* to the list head, and no node is unlinked twice.
OwnerWalkEnds ==
  pc \in {"purge", "cancel"} =>
    \A d \in todo :
      /\ Poison \notin {next[<<Leaving, d>>], prev[<<Leaving, d>>]}
      /\ owner[d] = Leaving => WalkReturns(d, Unlinked(<<Leaving, d>>).next)

\* A reinstallation links its instances a second time and so breaks the list; as long as
\* nothing fails this is harmless, because the reinstalled package has taken its directories
\* over from every package that is to be removed, and only the removal of an owner walks.
RelinkHarmless == faults = 0 => OwnerWalkEnds

\* The list dir->diris can be relied on: it is exact, or its damage is not met by a walk.
ListSound == ListExact /\ RelinkHarmless

\* What apk does to directories on disk: one it takes for prepared is there, one that is in use
\* or not empty is not removed, and the administrator's permissions stay.
DirectoriesKept == []CreatedExists /\ ReferencedDirsKept /\ UserPermissionsKept
=============================================================================
