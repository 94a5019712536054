------------------------ MODULE ApkInstallOwnProofs ------------------------
(* Ownership of paths, in ApkInstall, for changesets that reinstall nothing:  *)
(* "apk fix" is the subject of the run install_fix.                           *)
EXTENDS ApkInstallProofs

------------------------------------------------------------------------------
(* Ownership.                                                                 *)

\* The changes that are left are changes of the packages there are, each of another name; the change
\* at hand is of two different packages.
PlanInv ==
  /\ pc = "idle" => pkgs = disk.pkgs /\ plan = <<>>
  /\ pc # "idle" => idx \in 1..(Len(plan) + 1)
  /\ pc \notin Between => idx \in 1..Len(plan)
  /\ \A i, j \in DOMAIN plan : i # j => NameOfChange(plan[i]) # NameOfChange(plan[j])
  /\ \A j \in DOMAIN plan : j > idx \/ (j = idx /\ pc = "change") => plan[j] \in Changes
  /\ pc \notin Between => /\ Old # New
                          /\ Old # None => Old \in pkgs
                          /\ New # None => New \in pkgs
                          /\ Old # None /\ New # None => NameOf[Old] = NameOf[New]
  /\ pc \in {"unpack", "migrate", "migrated"} => New # None
  /\ pc = "purge" => Old # None

\* One version of a package, but for the two of an upgrade.
OneVersion ==
  \A p, q \in pkgs :
    NameOf[p] = NameOf[q] => p = q \/ (pc \notin Between /\ {p, q} = {Old, New})

\* Entries are their owner's, and taken over only from packages that do not come again.
EntryInv ==
  /\ \A o \in Owner : \A e \in files[o] : e.pkg = o /\ e.gen = 0
  /\ \A o \in Owner : o \notin pkgs \cup {Overlay} => files[o] = {}
  /\ \A e \in audited : \A j \in DOMAIN plan : j >= idx => e.pkg # plan[j].new

\* What owns a path.
HashInv ==
  \A f \in Path : hash[f] # NoEntry =>
    /\ hash[f].path = f
    /\ hash[f] \in files[hash[f].pkg] \ audited
    /\ hash[f].pkg \in pkgs \cup {Overlay}

\* How far a change has come: who does not own its paths yet, or no more.
SettledInv ==
  /\ \A p \in pkgs : \A e \in files[p] \ audited :
       \/ hash[e.path] = e
       \/ pc = "unpack" /\ p = New
       \/ pc = "migrate" /\ p = New /\ e \in todo
       \/ pc = "purge" /\ p = Old /\ e \notin todo
  /\ pc = "unpack" => \A f \in Path : hash[f] # NoEntry => hash[f].pkg # New
  /\ pc = "migrate" => todo \subseteq files[New]
  /\ pc = "purge" =>
       /\ todo \subseteq files[Old] \ audited
       /\ \A e \in todo : hash[e.path] = e
       /\ \A f \in Path : hash[f] # NoEntry /\ hash[f].pkg = Old => hash[f] \in todo

CountInv == stats = Cardinality({f \in Path : hash[f] # NoEntry})

\* A database that gives every path to one package, and is of one version of each.
Readable(d) ==
  /\ \A e \in d.files : e.pkg \in d.pkgs /\ e.gen = 0
  /\ \A a, e \in d.files : a.path = e.path => a = e
  /\ \A p, q \in d.pkgs : NameOf[p] = NameOf[q] => p = q

OwnInv ==
  PlanInv /\ OneVersion /\ EntryInv /\ HashInv /\ SettledInv /\ CountInv /\ Readable(disk)

\* apk_db_open gives every path of the database to its entry, and counts them.
LEMMA LoadOwn ==
  ASSUME NEW d \in Database, NEW o \in SUBSET Path, Readable(d), o = {} \/ d.files = {}, Load(d, o)
  PROVE  /\ pkgs' = d.pkgs /\ audited' = {} /\ HashInv' /\ CountInv'
         /\ \A q \in Owner : \A e \in files'[q] : e.pkg = q /\ e.gen = 0 /\ hash'[e.path] = e
         /\ \A q \in Owner : q \notin pkgs' \cup {Overlay} => files'[q] = {}
<1> DEFINE over == {[pkg |-> Overlay, path |-> f, gen |-> 0] : f \in o}
           all  == d.files \cup over
<1>1. /\ pkgs' = d.pkgs /\ audited' = {}
      /\ files' = [q \in Owner |-> {e \in all : e.pkg = q}]
      /\ hash' = [f \in Path |-> IF \E e \in all : e.path = f
                                 THEN CHOOSE e \in all : e.path = f ELSE NoEntry]
      /\ stats' = Cardinality({e.path : e \in all})
  BY Zenon DEF Load
<1>2. d.files \subseteq Entry
  BY Zenon DEF Database
<1>3. over \subseteq Entry /\ \A e \in over : e.pkg = Overlay /\ e.gen = 0
  <2>1. over \subseteq Entry
    BY EntryType, Zenon DEF Owner
  <2>2. \A e \in over : e.pkg = Overlay /\ e.gen = 0
    OBVIOUS
  <2> QED BY <2>1, <2>2, Zenon
<1>4. \A a, e \in all : a.path = e.path => a = e
  BY DEF Readable
<1>5. all \subseteq Entry /\ \A e \in all : e.pkg \in d.pkgs \cup {Overlay} /\ e.gen = 0
  BY <1>2, <1>3, Zenon DEF Readable
<1> HIDE DEF all
<1>6. \A e \in all : hash'[e.path] = e
  BY <1>1, <1>4, <1>5, EntryType, Zenon
<1>7. \A f \in Path : hash'[f] # NoEntry => hash'[f] \in all /\ hash'[f].path = f
  BY <1>1, Zenon
<1>8. HashInv'
  <2> SUFFICES ASSUME NEW f \in Path, hash'[f] # NoEntry
               PROVE  /\ hash'[f].path = f
                      /\ hash'[f] \in files'[hash'[f].pkg] \ audited'
                      /\ hash'[f].pkg \in pkgs' \cup {Overlay}
    BY Zenon DEF HashInv
  <2>1. hash'[f] \in all /\ hash'[f].path = f
    BY <1>7, Zenon
  <2>2. hash'[f].pkg \in Owner /\ hash'[f].pkg \in pkgs' \cup {Overlay}
    BY <1>1, <1>5, <2>1, EntryType, Zenon
  <2> QED BY <1>1, <2>1, <2>2, Zenon
<1>9. CountInv'
  <2>1. {f \in Path : hash'[f] # NoEntry} = {e.path : e \in all}
    <3>1. ASSUME NEW f \in Path, hash'[f] # NoEntry PROVE f \in {e.path : e \in all}
      BY <1>7, <3>1, Zenon
    <3>2. ASSUME NEW e \in all PROVE e.path \in Path /\ hash'[e.path] # NoEntry
      BY <1>5, <1>6, EntryType, NoEntryAssumption, Zenon
    <3> QED BY <3>1, <3>2, Zenon
  <2> QED BY <1>1, <2>1, Zenon DEF CountInv
<1> QED BY <1>1, <1>5, <1>6, <1>8, <1>9

\* So does a new process, after a run or a crash.
LEMMA RestartOwn ==
  ASSUME NEW d \in Database, Readable(d), Restart(d), disk' = d
  PROVE  OwnInv'
<1>1. Load(d, {})
  BY Zenon DEF Restart
<1>2. {} \in SUBSET Path
  BY Zenon
<1>3. /\ pkgs' = d.pkgs /\ audited' = {} /\ HashInv' /\ CountInv'
      /\ \A q \in Owner : \A e \in files'[q] : e.pkg = q /\ e.gen = 0 /\ hash'[e.path] = e
      /\ \A q \in Owner : q \notin pkgs' \cup {Overlay} => files'[q] = {}
  BY <1>1, <1>2, LoadOwn, Zenon
<1>4. plan' = <<>> /\ idx' = 0 /\ pc' = "idle" /\ DOMAIN <<>> = {}
  BY DEF Restart
<1>5. pkgs' \subseteq Owner
  BY <1>3, Zenon DEF Database, Owner
<1>6. PlanInv'
  BY <1>3, <1>4, Zenon DEF PlanInv, Between
<1>7. OneVersion' /\ Readable(disk')
  BY <1>3, Zenon DEF OneVersion, Readable
<1>8. EntryInv'
  BY <1>3, <1>4, Zenon DEF EntryInv
<1>9. SettledInv'
  BY <1>3, <1>4, <1>5, Zenon DEF SettledInv
<1> QED BY <1>3, <1>6, <1>7, <1>8, <1>9, Zenon DEF OwnInv

\* Between two changes the database in memory can be written and read back.
LEMMA WrittenReadable ==
  ASSUME TypeOK, OwnInv, pc = "change"
  PROVE  Readable(Written)
<1> DEFINE live == {e \in UNION {files[p] : p \in pkgs} : e \notin audited}
<1>1. \A e \in live : e \in Entry /\ e.pkg \in pkgs /\ e.gen = 0 /\ hash[e.path] = e
  BY DEF TypeOK, OwnInv, EntryInv, SettledInv, Owner
<1>2. \A e \in live : [e EXCEPT !.gen = 0] = e
  BY <1>1, Zenon DEF Entry
<1>3. Written.files = {[e EXCEPT !.gen = 0] : e \in live} /\ Written.pkgs = pkgs
  BY Zenon DEF Written
<1> HIDE DEF live
<1>4. Written.files = live
  BY <1>2, <1>3
<1>5. \A p, q \in pkgs : NameOf[p] = NameOf[q] => p = q
  BY Zenon DEF OwnInv, OneVersion, Between
<1> QED BY <1>1, <1>3, <1>4, <1>5 DEF Readable

\* A change that is begun installs a package that was not there.
LEMMA NewIsNew ==
  ASSUME ~Reinstalls, TypeOK, FrameInv, OwnInv, pc = "change", idx \in 1..Len(plan)
  PROVE  /\ Old \in Pkg \cup {None} /\ New \in Pkg \cup {None} /\ Old # New
         /\ Old # None => Old \in pkgs
         /\ Old # None /\ New # None => NameOf[Old] = NameOf[New]
         /\ New # None => New \notin pkgs /\ \A p \in pkgs : NameOf[p] = NameOf[New] => p = Old
<1>1. idx \in DOMAIN plan /\ plan[idx] \in Changes
  BY SeqIndices, Zenon DEF TypeOK, OwnInv, PlanInv
<1>2. Old \in Pkg \cup {None} /\ New \in Pkg \cup {None} /\ (Old # None \/ New # None)
  BY ChangeAtHand, Zenon
<1>3. /\ Old # None => Old \in pkgs
      /\ Old = None => \A p \in pkgs : NameOf[p] # NameOf[New]
      /\ Old # None /\ New # None => NameOf[Old] = NameOf[New]
      /\ Old # New
  BY <1>1, Zenon DEF Changes, Old, New
<1>4. \A p, q \in pkgs : NameOf[p] = NameOf[q] => p = q
  BY Zenon DEF OwnInv, OneVersion, Between
<1> QED BY <1>2, <1>3, <1>4, Zenon

\* A change that is left stays possible when the packages of another name change.
LEMMA ChangeStays ==
  ASSUME TypeOK, NEW c \in Changes, c \in Change, NEW x \in Pkg, NameOf[x] # NameOfChange(c),
         pkgs' = pkgs \cup {x} \/ pkgs' = pkgs \ {x}
  PROVE  c \in Changes'
<1>1. /\ c.old # None \/ c.new # None
      /\ c.old # None => c.old \in pkgs
      /\ c.old = None => \A p \in pkgs : NameOf[p] # NameOf[c.new]
      /\ c.old # None /\ c.new # None => NameOf[c.old] = NameOf[c.new]
      /\ c.old = c.new => Reinstalls
  BY Zenon DEF Changes
<1>2. c.old # None => c.old # x
  BY <1>1, Zenon DEF NameOfChange
<1>3. c.old = None => NameOf[x] # NameOf[c.new]
  BY <1>1, Zenon DEF NameOfChange
<1> QED BY <1>1, <1>2, <1>3, Zenon DEF Changes

\* The plan and the disk stay, and the packages too.
LEMMA SamePlan ==
  ASSUME PlanInv, OneVersion, UNCHANGED <<plan, idx, pc, pkgs, disk>>
  PROVE  PlanInv' /\ OneVersion'
<1>1. Changes' = Changes
  BY Zenon DEF Changes
<1> QED BY <1>1, Zenon DEF PlanInv, OneVersion, Old, New

\* The names of the change at hand and of the later ones differ.
LEMMA LaterNames ==
  ASSUME TypeOK, FrameInv, PlanInv, idx \in 1..Len(plan), NEW j \in DOMAIN plan, j > idx,
         NEW x \in Pkg, x \in {Old, New}, Old # None /\ New # None => NameOf[Old] = NameOf[New]
  PROVE  /\ plan[j] \in Changes /\ plan[j] \in Change /\ NameOf[x] # NameOfChange(plan[j])
         /\ x # plan[j].new
<1>1. plan[j] \in Changes /\ plan[j] \in Change /\ idx \in DOMAIN plan /\ idx # j
  BY SeqIndices DEF TypeOK, PlanInv
<1>2. NameOfChange(plan[idx]) = NameOf[x]
  BY ConstantsAssumption, Zenon DEF NameOfChange, Old, New
<1>3. NameOf[x] # NameOfChange(plan[j])
  BY <1>1, <1>2, Zenon DEF PlanInv
<1> QED BY <1>1, <1>3, ConstantsAssumption, Zenon DEF NameOfChange

\* The change at hand is done, and at most one of its two packages is left.
LEMMA ChangeDone ==
  ASSUME TypeOK, FrameInv, OwnInv, pc \notin Between, idx' = idx + 1, pc' = "change",
         UNCHANGED <<plan, disk>>,
         \/ Old = None /\ pkgs' = pkgs
         \/ \E x \in Pkg : x \in {Old, New} /\ pkgs' = pkgs \ {x}
  PROVE  PlanInv' /\ OneVersion'
<1>1. /\ idx \in 1..Len(plan) /\ Len(plan) \in Nat /\ DOMAIN plan = 1..Len(plan)
      /\ Old # None /\ New # None => NameOf[Old] = NameOf[New]
      /\ Old \in Pkg \cup {None} /\ New \in Pkg \cup {None}
  BY ChangeAtHand, SeqIndices, Zenon DEF FrameInv, OwnInv, PlanInv, TypeOK
<1>2. \A j \in DOMAIN plan : j > idx => plan[j] \in Changes'
  <2> SUFFICES ASSUME NEW j \in DOMAIN plan, j > idx PROVE plan[j] \in Changes'
    BY Zenon
  <2>1. CASE Old = None /\ pkgs' = pkgs
    BY <2>1, Zenon DEF OwnInv, PlanInv, Changes
  <2>2. ASSUME NEW x \in Pkg, x \in {Old, New}, pkgs' = pkgs \ {x} PROVE plan[j] \in Changes'
    BY <1>1, <2>2, LaterNames, ChangeStays, Zenon DEF OwnInv
  <2> QED BY <2>1, <2>2, Zenon
<1>3. PlanInv'
  BY <1>1, <1>2 DEF OwnInv, PlanInv, Between
<1>4. OneVersion'
  <2> SUFFICES ASSUME NEW p \in pkgs', NEW q \in pkgs', NameOf[p] = NameOf[q] PROVE p = q
    BY Zenon DEF OneVersion
  <2>1. p \in pkgs /\ q \in pkgs /\ None \notin pkgs
    BY ConstantsAssumption, Zenon DEF TypeOK
  <2>2. p = q \/ {p, q} = {Old, New}
    BY <2>1, Zenon DEF OwnInv, OneVersion
  <2>3. ~(Old \in pkgs' /\ New \in pkgs')
    BY <2>1
  <2> QED BY <2>2, <2>3, Zenon
<1> QED BY <1>3, <1>4, Zenon

\* The entries of a changed path are counted.
LEMMA CountStep ==
  ASSUME TypeOK, CountInv, NEW f \in Path, NEW e \in Entry \cup {NoEntry},
         hash' = [hash EXCEPT ![f] = e],
         \/ hash[f] = NoEntry /\ e # NoEntry /\ stats' = stats + 1
         \/ hash[f] # NoEntry /\ e # NoEntry /\ stats' = stats
         \/ hash[f] # NoEntry /\ e = NoEntry /\ stats' = stats - 1
  PROVE  CountInv'
<1> DEFINE S == {g \in Path : hash[g] # NoEntry}
           T == {g \in Path : hash'[g] # NoEntry}
<1>1. IsFiniteSet(S) /\ stats = Cardinality(S) /\ stats \in Nat
  <2>1. IsFiniteSet(S)
    BY FS_Subset, ConstantsAssumption
  <2> QED BY <2>1, FS_CardinalityType, Zenon DEF CountInv
<1>2. T = IF e = NoEntry THEN S \ {f} ELSE S \cup {f}
  BY Zenon DEF TypeOK
<1>3. f \in S <=> hash[f] # NoEntry
  BY Zenon
<1> HIDE DEF S, T
<1>4. stats' = Cardinality(T)
  <2>1. CASE hash[f] = NoEntry /\ e # NoEntry /\ stats' = stats + 1
    BY <1>1, <1>2, <1>3, <2>1, FS_AddElement, Zenon
  <2>2. CASE hash[f] # NoEntry /\ e # NoEntry /\ stats' = stats
    <3>1. S \cup {f} = S
      BY <1>3, <2>2, Zenon
    <3> QED BY <1>1, <1>2, <2>2, <3>1, Zenon
  <2>3. CASE hash[f] # NoEntry /\ e = NoEntry /\ stats' = stats - 1
    BY <1>1, <1>2, <1>3, <2>3, FS_RemoveElement, Zenon
  <2> QED BY <2>1, <2>2, <2>3, Zenon
<1> QED BY <1>4, Zenon DEF CountInv, T

------------------------------------------------------------------------------
(* One lemma per action of Next.                                              *)

\* A run begins: apk_db_open and the changeset.
LEMMA OpenOwn ==
  ASSUME ~Reinstalls, TypeOK, OwnInv, NEW s \in Changesets, NEW o \in OverlaySets,
         NEW f \in FlagSets, Open(s, o, f)
  PROVE  OwnInv'
<1>1. o \in SUBSET Path /\ disk \in Database /\ Readable(disk)
  BY ConstantsAssumption, Zenon DEF TypeOK, OwnInv
<1>2. /\ Load(disk, o) /\ plan' = s /\ idx' = 1 /\ pc' = "change" /\ disk' = disk /\ pc = "idle"
      /\ o # {} => disk.pkgs = {}
  BY Zenon DEF Open
<1>3. o = {} \/ disk.files = {}
  BY <1>1, <1>2, Zenon DEF Readable
<1>4. /\ pkgs' = disk.pkgs /\ audited' = {} /\ HashInv' /\ CountInv'
      /\ \A q \in Owner : \A e \in files'[q] : e.pkg = q /\ e.gen = 0 /\ hash'[e.path] = e
      /\ \A q \in Owner : q \notin pkgs' \cup {Overlay} => files'[q] = {}
  BY <1>1, <1>2, <1>3, LoadOwn, Zenon
<1>5. pkgs' = pkgs /\ pkgs' \subseteq Owner
  BY <1>2, <1>4, Zenon DEF OwnInv, PlanInv, TypeOK, Owner
<1>6. Changes' = Changes
  BY <1>5, Zenon DEF Changes
<1>7. PlanInv'
  BY <1>2, <1>6, ChangesetType, SeqIndices DEF PlanInv, Between
<1>8. OneVersion' /\ Readable(disk')
  BY <1>1, <1>2, <1>4, Zenon DEF OneVersion, Readable
<1>9. EntryInv' /\ SettledInv'
  BY <1>2, <1>4, <1>5, Zenon DEF EntryInv, SettledInv
<1> QED BY <1>4, <1>7, <1>8, <1>9, Zenon DEF OwnInv

\* A change begins.
LEMMA StartOwn ==
  ASSUME ~Reinstalls, TypeOK, FrameInv, OwnInv, StartChange
  PROVE  OwnInv'
<1>1. idx \in 1..Len(plan) /\ Len(plan) \in Nat /\ DOMAIN plan = 1..Len(plan) /\ pc = "change"
  BY SeqIndices DEF StartChange, FrameInv, TypeOK
<1>2. /\ Old \in Pkg \cup {None} /\ New \in Pkg \cup {None} /\ Old # New
      /\ Old # None => Old \in pkgs
      /\ Old # None /\ New # None => NameOf[Old] = NameOf[New]
      /\ New # None => New \notin pkgs /\ \A p \in pkgs : NameOf[p] = NameOf[New] => p = Old
  BY <1>1, NewIsNew, Zenon
<1>3. /\ UNCHANGED <<files, hash, audited, stats, plan, idx, disk>>
      /\ pc' \in {"purge", "unpack", "migrated"}
  BY Zenon DEF StartChange
<1>4. Old' = Old /\ New' = New
  BY <1>3, Zenon DEF Old, New
<1>5. CountInv' /\ Readable(disk')
  BY <1>3, Zenon DEF OwnInv, CountInv, Readable
<1>6. CASE New = None
  <2>1. pc' = "purge" /\ todo' = files[Old] \ audited /\ pkgs' = pkgs /\ Old # None
    BY <1>2, <1>6, Zenon DEF StartChange
  <2>2. Changes' = Changes
    BY <2>1, Zenon DEF Changes
  <2>3. PlanInv'
    BY <1>1, <1>2, <1>3, <1>4, <1>6, <2>1, <2>2, Zenon DEF OwnInv, PlanInv, Between
  <2>4. OneVersion' /\ EntryInv' /\ HashInv'
    BY <1>1, <1>3, <2>1 DEF OwnInv, OneVersion, EntryInv, HashInv, Between
  <2>5. SettledInv'
    BY <1>1, <1>2, <1>3, <1>4, <2>1, Zenon DEF OwnInv, SettledInv, HashInv
  <2> QED BY <1>5, <2>3, <2>4, <2>5, Zenon DEF OwnInv
<1>7. CASE New # None
  <2>1. /\ pc' = (IF Ships[New] = {} THEN "migrated" ELSE "unpack")
        /\ pkgs' = pkgs \cup {New} /\ todo' = todo /\ New \in Pkg
    BY <1>2, <1>7, Zenon DEF StartChange
  <2>2. \A j \in DOMAIN plan : j > idx => plan[j] \in Changes'
    BY <1>1, <1>2, <2>1, LaterNames, ChangeStays, Zenon DEF OwnInv
  <2>3. PlanInv'
    BY <1>1, <1>2, <1>3, <1>4, <1>7, <2>1, <2>2, Zenon DEF OwnInv, PlanInv, Between
  <2>4. OneVersion'
    <3> SUFFICES ASSUME NEW p \in pkgs', NEW q \in pkgs', NameOf[p] = NameOf[q]
                 PROVE  p = q \/ {p, q} = {Old, New}
      BY <1>3, <1>4, Zenon DEF OneVersion, Between
    <3>1. CASE p \in pkgs /\ q \in pkgs
      BY <1>1, <3>1, Zenon DEF OwnInv, OneVersion, Between
    <3>2. CASE p = New \/ q = New
      BY <1>2, <1>7, <2>1, <3>2, Zenon
    <3> QED BY <2>1, <3>1, <3>2, Zenon
  <2>5. EntryInv' /\ HashInv'
    BY <1>3, <2>1 DEF OwnInv, EntryInv, HashInv
  <2>6. files[New] = {} /\ \A f \in Path : hash[f] # NoEntry => hash[f].pkg # New
    BY <1>2, <1>7, <2>1, ConstantsAssumption, Zenon DEF OwnInv, EntryInv, HashInv, Owner
  <2>7. SettledInv'
    BY <1>1, <1>3, <1>4, <2>1, <2>6, Zenon DEF OwnInv, SettledInv
  <2> QED BY <1>5, <2>3, <2>4, <2>5, <2>7, Zenon DEF OwnInv
<1> QED BY <1>6, <1>7, Zenon

\* A file that is left alone.
LEMMA SkipOwn ==
  ASSUME OwnInv, NEW f \in Path, SkipFile(f) PROVE OwnInv'
<1>1. UNCHANGED <<files, hash, audited, stats, plan, idx, disk, pkgs, pc, todo>>
  BY Zenon DEF SkipFile
<1>2. PlanInv' /\ OneVersion'
  BY <1>1, SamePlan, Zenon DEF OwnInv
<1> QED BY <1>1, <1>2 DEF OwnInv, EntryInv, HashInv, SettledInv, CountInv, Readable, Old, New

\* A file that is extracted is an entry of the new package, which owns nothing yet.
LEMMA ExtractOwn ==
  ASSUME ~Reinstalls, TypeOK, FrameInv, OwnInv, NEW f \in Path,
         NEW out \in {"ok", "extract", "special"}, ExtractFile(f, out)
  PROVE  OwnInv'
<1> DEFINE e == [pkg |-> New, path |-> f, gen |-> 0]
<1>1. pc = "unpack" /\ Old # New /\ New \in Pkg /\ New \in pkgs
  BY ChangeAtHand, Zenon DEF ExtractFile, OwnInv, PlanInv, Between, FrameInv
<1>2. FileOf(f) = e
  BY <1>1, Zenon DEF FileOf, OwnInv, SettledInv
<1>3. /\ files' = [files EXCEPT ![New] = @ \cup {e}]
      /\ UNCHANGED <<hash, audited, stats, plan, idx, disk, pkgs, pc, todo>>
  BY <1>2, Zenon DEF ExtractFile
<1>4. PlanInv' /\ OneVersion'
  BY <1>3, SamePlan, Zenon DEF OwnInv
<1>5. Old' = Old /\ New' = New
  BY <1>3, Zenon DEF Old, New
<1>6. /\ e.pkg = New /\ e.gen = 0 /\ New \in Owner
      /\ files'[New] = files[New] \cup {e} /\ \A o \in Owner \ {New} : files'[o] = files[o]
  BY <1>1, <1>3, Zenon DEF TypeOK, Owner
<1> HIDE DEF e
<1>7. EntryInv'
  BY <1>1, <1>3, <1>6 DEF OwnInv, EntryInv
<1>8. HashInv'
  BY <1>3, <1>6, EntryType DEF OwnInv, HashInv, TypeOK
<1>9. SettledInv'
  BY <1>1, <1>3, <1>5, <1>6, Zenon DEF OwnInv, SettledInv, TypeOK, Owner
<1> QED BY <1>3, <1>4, <1>7, <1>8, <1>9, Zenon DEF OwnInv, CountInv, Readable

\* The archive is read.
LEMMA UnpackDoneOwn ==
  ASSUME OwnInv, UnpackDone PROVE OwnInv'
<1>1. /\ UNCHANGED <<files, hash, audited, stats, plan, idx, disk, pkgs>>
      /\ pc = "unpack" /\ pc' = "migrate" /\ todo' = files[New]
  BY Zenon DEF UnpackDone, memory
<1>2. Changes' = Changes /\ Old' = Old /\ New' = New
  BY <1>1, Zenon DEF Changes, Old, New
<1>3. PlanInv' /\ OneVersion'
  BY <1>1, <1>2, Zenon DEF OwnInv, PlanInv, OneVersion, Between
<1>4. EntryInv' /\ HashInv' /\ CountInv' /\ Readable(disk')
  BY <1>1 DEF OwnInv, EntryInv, HashInv, CountInv, Readable
<1>5. SettledInv'
  BY <1>1, <1>2, Zenon DEF OwnInv, SettledInv
<1> QED BY <1>3, <1>4, <1>5, Zenon DEF OwnInv

\* The archive cannot be read: nothing of the new package owns a path yet.
LEMMA UnpackErrorOwn ==
  ASSUME TypeOK, FrameInv, OwnInv, UnpackError
  PROVE  OwnInv'
<1>1. /\ pc = "unpack" /\ pc' = "change" /\ idx' = idx + 1 /\ pkgs' = pkgs \ {New}
      /\ files' = [files EXCEPT ![New] = {}] /\ UNCHANGED <<hash, audited, stats, plan, disk>>
  BY Zenon DEF UnpackError, Forget, NextChange
<1>2. idx \in 1..Len(plan) /\ Len(plan) \in Nat /\ DOMAIN plan = 1..Len(plan) /\ New \in Pkg
  BY <1>1, ChangeAtHand, SeqIndices, Zenon DEF FrameInv, OwnInv, PlanInv, Between, TypeOK
<1>3. PlanInv' /\ OneVersion'
  BY <1>1, <1>2, ChangeDone, Zenon DEF Between
<1>4. files'[New] = {} /\ \A o \in Owner \ {New} : files'[o] = files[o]
  BY <1>1, <1>2, Zenon DEF TypeOK, Owner
<1>5. EntryInv'
  BY <1>1, <1>2, <1>4 DEF OwnInv, EntryInv
<1>6. \A f \in Path : hash[f] # NoEntry => hash[f].pkg # New /\ hash[f].pkg \in Owner
  BY <1>1, EntryType, Zenon DEF OwnInv, SettledInv, TypeOK
<1>7. HashInv'
  BY <1>1, <1>4, <1>6 DEF OwnInv, HashInv
<1>8. SettledInv'
  BY <1>1, <1>4, Zenon DEF OwnInv, SettledInv, TypeOK, Owner
<1> QED BY <1>1, <1>3, <1>5, <1>7, <1>8, Zenon DEF OwnInv, CountInv, Readable

\* A package that a later change installs is not installed yet.
LEMMA LaterIsNew ==
  ASSUME ~Reinstalls, TypeOK, FrameInv, OwnInv, pc \notin Between, NEW j \in DOMAIN plan, j > idx
  PROVE  plan[j].new \notin pkgs \cup {Overlay}
<1>1. /\ idx \in 1..Len(plan) /\ plan[j] \in Changes /\ plan[j] \in Change
      /\ Old # None /\ New # None => NameOf[Old] = NameOf[New]
  BY DEF OwnInv, PlanInv, FrameInv, TypeOK
<1>2. \A x \in Pkg : x \in {Old, New} => x # plan[j].new
  BY <1>1, LaterNames, Zenon DEF OwnInv
<1>3. /\ plan[j].new \in Pkg \cup {None} /\ plan[j].old # plan[j].new
      /\ plan[j].old # None => plan[j].old \in pkgs
      /\ plan[j].old = None => \A p \in pkgs : NameOf[p] # NameOf[plan[j].new]
      /\ plan[j].old # None /\ plan[j].new # None => NameOf[plan[j].old] = NameOf[plan[j].new]
  BY <1>1, Zenon DEF Changes, Change
<1>4. plan[j].new # Overlay /\ None \notin pkgs /\ pkgs \subseteq Pkg
  BY <1>3, ConstantsAssumption, Zenon DEF TypeOK
<1>5. ASSUME plan[j].new \in pkgs PROVE FALSE
  <2>1. plan[j].old \in pkgs /\ NameOf[plan[j].old] = NameOf[plan[j].new]
    BY <1>3, <1>4, <1>5, Zenon
  <2>2. {plan[j].old, plan[j].new} = {Old, New}
    BY <1>3, <1>5, <2>1, Zenon DEF OwnInv, OneVersion
  <2> QED BY <1>2, <1>4, <1>5, <2>2, Zenon
<1> QED BY <1>4, <1>5, Zenon

\* A file is migrated: its entry owns the path, and the one that did is marked.
LEMMA MigrateOwn ==
  ASSUME ~Reinstalls, TypeOK, FrameInv, OwnInv, NEW e \in todo, NEW fault \in BOOLEAN,
         MigrateFile(e, fault)
  PROVE  OwnInv'
<1> DEFINE of == hash[e.path]
<1>1. /\ pc = "migrate" /\ hash' = [hash EXCEPT ![e.path] = e] /\ todo' = todo \ {e}
      /\ audited' = Marked(of, e) /\ stats' = Counted(of)
      /\ UNCHANGED <<disk, pkgs, files, plan, idx, pc>>
  BY Zenon DEF MigrateFile
<1>2. Old' = Old /\ New' = New
  BY <1>1, Zenon DEF Old, New
<1>3. idx \in 1..Len(plan) /\ idx \in DOMAIN plan /\ New \in Pkg /\ New \in pkgs /\ New \in Owner
  BY <1>1, ChangeAtHand, SeqIndices DEF FrameInv, OwnInv, PlanInv, Between, TypeOK, Owner
<1>4. e \in files[New] /\ e \in Entry /\ e.pkg = New /\ e.gen = 0 /\ e.path \in Path /\ e # NoEntry
  <2>1. e \in files[New] /\ e \in Entry
    BY <1>1, <1>3, Zenon DEF OwnInv, SettledInv, TypeOK
  <2>2. e.pkg = New /\ e.gen = 0
    BY <1>3, <2>1, Zenon DEF OwnInv, EntryInv
  <2> QED BY <2>1, <2>2, EntryType, NoEntryAssumption, Zenon
<1>5. of # NoEntry => /\ of \in Entry /\ of.path = e.path /\ of.pkg \in Owner /\ of.gen = 0
                      /\ of \in files[of.pkg] \ audited /\ of.pkg \in pkgs \cup {Overlay}
  <2>1. of # NoEntry => of \in Entry /\ of.pkg \in Owner
    BY <1>4, EntryType, Zenon DEF TypeOK
  <2> QED BY <1>4, <2>1 DEF OwnInv, HashInv, EntryInv
<1>6. of # NoEntry /\ of # e => of.pkg # New
  BY <1>4, <1>5 DEF Entry
<1>7. audited' = IF of \in {e, NoEntry} THEN audited ELSE audited \cup {of}
  BY <1>1, Zenon DEF Marked
<1>8. hash'[e.path] = e /\ \A f \in Path : f # e.path => hash'[f] = hash[f]
  BY <1>1, <1>4, Zenon DEF TypeOK
<1>9. e \notin audited /\ e \notin audited'
  <2>1. idx >= idx
    BY <1>3
  <2>2. e \notin audited
    BY <1>3, <1>4, <2>1, Zenon DEF OwnInv, EntryInv, New
  <2> QED BY <1>7, <2>2, Zenon
<1>10. PlanInv' /\ OneVersion'
  BY <1>1, SamePlan, Zenon DEF OwnInv
<1>11. CountInv'
  <2>1. \/ of = NoEntry /\ e # NoEntry /\ stats' = stats + 1
        \/ of # NoEntry /\ e # NoEntry /\ stats' = stats
    BY <1>1, <1>4, Zenon DEF Counted
  <2> QED BY <1>1, <1>4, <2>1, CountStep, Zenon DEF OwnInv
<1>12. EntryInv'
  <2>1. \A x \in audited' : \A j \in DOMAIN plan : j >= idx => x.pkg # plan[j].new
    <3> SUFFICES ASSUME of \notin {e, NoEntry}, NEW j \in DOMAIN plan, j >= idx
                 PROVE  of.pkg # plan[j].new
      BY <1>7, Zenon DEF OwnInv, EntryInv
    <3>1. CASE j = idx
      BY <1>6, <3>1, Zenon DEF New
    <3>2. CASE j > idx
      BY <1>1, <1>5, <3>2, LaterIsNew, Zenon DEF Between
    <3> QED BY <3>1, <3>2 DEF TypeOK
  <2> QED BY <1>1, <2>1, SMTT(30) DEF OwnInv, EntryInv
<1>13. HashInv'
  <2> SUFFICES ASSUME NEW f \in Path, hash'[f] # NoEntry
               PROVE  /\ hash'[f].path = f
                      /\ hash'[f] \in files[hash'[f].pkg] \ audited'
                      /\ hash'[f].pkg \in pkgs \cup {Overlay}
    BY <1>1, Zenon DEF HashInv
  <2>1. CASE f = e.path
    BY <1>3, <1>4, <1>8, <1>9, <2>1, Zenon
  <2>2. CASE f # e.path
    BY <1>5, <1>7, <1>8, <2>2, Zenon DEF OwnInv, HashInv
  <2> QED BY <2>1, <2>2, Zenon
<1>14. SettledInv'
  <2>1. \A p \in pkgs : \A x \in files[p] \ audited' :
          hash'[x.path] = x \/ (p = New /\ x \in todo')
    <3> SUFFICES ASSUME NEW p \in pkgs, NEW x \in files[p] \ audited'
                 PROVE  hash'[x.path] = x \/ (p = New /\ x \in todo')
      BY Zenon
    <3>1. x \notin audited /\ x.path \in Path
      BY <1>7, EntryType, Zenon DEF TypeOK, Owner
    <3>2. hash[x.path] = x \/ (p = New /\ x \in todo)
      BY <1>1, <3>1, Zenon DEF OwnInv, SettledInv
    <3>3. CASE p = New /\ x \in todo
      BY <1>1, <1>8, <3>3, Zenon
    <3>4. CASE hash[x.path] = x
      BY <1>7, <1>8, <1>4, <3>1, <3>4, NoEntryAssumption DEF TypeOK, Owner
    <3> QED BY <3>2, <3>3, <3>4, Zenon
  <2> QED BY <1>1, <1>2, <2>1, Zenon DEF OwnInv, SettledInv
<1> QED BY <1>1, <1>10, <1>11, <1>12, <1>13, <1>14, Zenon DEF OwnInv, Readable

\* All files are migrated: the old version is purged, or the change is done.
LEMMA MigrateDoneOwn ==
  ASSUME TypeOK, FrameInv, OwnInv, MigrateDone
  PROVE  OwnInv'
<1>1. /\ pc \in {"migrate", "migrated"} /\ (pc = "migrate" => todo = {})
      /\ UNCHANGED <<pkgs, files, hash, audited, stats, plan, disk>>
  BY Zenon DEF MigrateDone, memory
<1>2. /\ idx \in 1..Len(plan) /\ Len(plan) \in Nat /\ DOMAIN plan = 1..Len(plan)
      /\ Old \in Pkg \cup {None} /\ New \in Pkg /\ Old # New
  BY <1>1, ChangeAtHand, SeqIndices, Zenon DEF FrameInv, OwnInv, PlanInv, Between, TypeOK
<1>3. \A p \in pkgs : \A e \in files[p] \ audited : hash[e.path] = e
  BY <1>1, Zenon DEF OwnInv, SettledInv
<1>4. HashInv' /\ CountInv' /\ Readable(disk')
  BY <1>1, Zenon DEF OwnInv, HashInv, CountInv, Readable
<1>5. CASE Old # None
  <2>1. pc' = "purge" /\ todo' = files[Old] \ audited /\ idx' = idx
    BY <1>2, <1>5, Zenon DEF MigrateDone
  <2>2. Old' = Old /\ New' = New /\ Changes' = Changes
    BY <1>1, <2>1, Zenon DEF Old, New, Changes
  <2>3. PlanInv' /\ OneVersion'
    BY <1>1, <1>5, <2>1, <2>2, Zenon DEF OwnInv, PlanInv, OneVersion, Between
  <2>4. EntryInv'
    BY <1>1, <2>1, Zenon DEF OwnInv, EntryInv
  <2>5. Old \in pkgs
    BY <1>1, <1>5, Zenon DEF OwnInv, PlanInv, Between
  <2>6. SettledInv'
    BY <1>1, <1>3, <2>1, <2>2, <2>5 DEF OwnInv, SettledInv, HashInv
  <2> QED BY <1>4, <2>3, <2>4, <2>6, Zenon DEF OwnInv
<1>6. CASE Old = None
  <2>1. pc' = "change" /\ idx' = idx + 1
    BY <1>6, Zenon DEF MigrateDone, NextChange
  <2>2. PlanInv' /\ OneVersion'
    BY <1>1, <1>6, <2>1, ChangeDone, Zenon DEF Between
  <2>3. EntryInv'
    BY <1>1, <1>2, <2>1 DEF OwnInv, EntryInv
  <2>4. SettledInv'
    BY <1>1, <1>3, <2>1, Zenon DEF SettledInv
  <2> QED BY <1>4, <2>2, <2>3, <2>4 DEF OwnInv
<1> QED BY <1>5, <1>6, Zenon

\* A file is purged: its path is nobody's.
LEMMA PurgeOwn ==
  ASSUME TypeOK, FrameInv, OwnInv, NEW e \in todo, PurgeFile(e)
  PROVE  OwnInv'
<1>1. /\ pc = "purge" /\ hash' = [hash EXCEPT ![e.path] = NoEntry] /\ todo' = todo \ {e}
      /\ stats' = stats - 1 /\ UNCHANGED <<disk, pkgs, files, audited, plan, idx, pc>>
  BY Zenon DEF PurgeFile
<1>2. Old' = Old /\ New' = New
  BY <1>1, Zenon DEF Old, New
<1>3. Old \in Pkg /\ Old \in Owner
  BY <1>1, ChangeAtHand, Zenon DEF FrameInv, OwnInv, PlanInv, Between, Owner
<1>4. /\ e \in files[Old] \ audited /\ hash[e.path] = e /\ e \in Entry /\ e.pkg = Old
      /\ e.path \in Path /\ e # NoEntry
  <2>1. e \in files[Old] \ audited /\ hash[e.path] = e /\ e \in Entry
    BY <1>1, <1>3, Zenon DEF OwnInv, SettledInv, TypeOK
  <2>2. e.pkg = Old
    BY <1>3, <2>1, Zenon DEF OwnInv, EntryInv
  <2> QED BY <2>1, <2>2, EntryType, NoEntryAssumption, Zenon
<1>5. hash'[e.path] = NoEntry /\ \A f \in Path : f # e.path => hash'[f] = hash[f]
  BY <1>1, <1>4, Zenon DEF TypeOK
<1>6. PlanInv' /\ OneVersion'
  BY <1>1, SamePlan, Zenon DEF OwnInv
<1>7. CountInv'
  BY <1>1, <1>4, CountStep, Zenon DEF OwnInv
<1>8. EntryInv' /\ HashInv'
  BY <1>1, <1>5 DEF OwnInv, EntryInv, HashInv
<1>9. SettledInv'
  <2>1. \A p \in pkgs : \A x \in files[p] \ audited :
          hash'[x.path] = x \/ (p = Old /\ x \notin todo')
    <3> SUFFICES ASSUME NEW p \in pkgs, NEW x \in files[p] \ audited
                 PROVE  hash'[x.path] = x \/ (p = Old /\ x \notin todo')
      BY Zenon
    <3>1. x.path \in Path /\ x.pkg = p
      BY EntryType, Zenon DEF TypeOK, Owner, OwnInv, EntryInv
    <3>2. hash[x.path] = x \/ (p = Old /\ x \notin todo)
      BY <1>1, Zenon DEF OwnInv, SettledInv
    <3> QED BY <1>1, <1>4, <1>5, <3>1, <3>2, Zenon
  <2>2. todo' \subseteq files[Old] \ audited /\ \A x \in todo' : hash'[x.path] = x
    <3>1. \A x \in todo' : x.path \in Path /\ hash[x.path] = x /\ x # e /\ x \in files[Old] \ audited
      BY <1>1, EntryType, Zenon DEF OwnInv, SettledInv, TypeOK
    <3> QED BY <1>4, <1>5, <3>1, Zenon
  <2>3. \A f \in Path : hash'[f] # NoEntry /\ hash'[f].pkg = Old => hash'[f] \in todo'
    <3> SUFFICES ASSUME NEW f \in Path, hash'[f] # NoEntry, hash'[f].pkg = Old
                 PROVE  hash'[f] \in todo'
      BY Zenon
    <3>1. f # e.path /\ hash'[f] = hash[f]
      BY <1>5, Zenon
    <3>2. hash[f] \in todo /\ hash[f].path = f
      BY <1>1, <3>1, Zenon DEF OwnInv, SettledInv, HashInv
    <3> QED BY <1>1, <3>1, <3>2
  <2> QED BY <1>1, <1>2, <2>1, <2>2, <2>3, Zenon DEF SettledInv
<1> QED BY <1>1, <1>6, <1>7, <1>8, <1>9, Zenon DEF OwnInv, Readable

\* The package is gone with its entries: none of them owns a path.
LEMMA PurgeDoneOwn ==
  ASSUME TypeOK, FrameInv, OwnInv, PurgeDone
  PROVE  OwnInv'
<1>1. /\ pc = "purge" /\ todo = {} /\ pc' = "change" /\ idx' = idx + 1 /\ pkgs' = pkgs \ {Old}
      /\ files' = [files EXCEPT ![Old] = {}] /\ UNCHANGED <<hash, audited, stats, plan, disk>>
  BY Zenon DEF PurgeDone, Forget, NextChange
<1>2. idx \in 1..Len(plan) /\ Len(plan) \in Nat /\ DOMAIN plan = 1..Len(plan) /\ Old \in Pkg
  BY <1>1, ChangeAtHand, SeqIndices, Zenon DEF FrameInv, OwnInv, PlanInv, Between, TypeOK
<1>3. PlanInv' /\ OneVersion'
  BY <1>1, <1>2, ChangeDone, Zenon DEF Between
<1>4. files'[Old] = {} /\ \A o \in Owner \ {Old} : files'[o] = files[o]
  BY <1>1, <1>2, Zenon DEF TypeOK, Owner
<1>5. EntryInv'
  BY <1>1, <1>2, <1>4 DEF OwnInv, EntryInv
<1>6. \A f \in Path : hash[f] # NoEntry => hash[f].pkg # Old /\ hash[f].pkg \in Owner
  BY <1>1, EntryType, Zenon DEF OwnInv, SettledInv, TypeOK
<1>7. HashInv'
  BY <1>1, <1>4, <1>6 DEF OwnInv, HashInv
<1>8. SettledInv'
  BY <1>1, <1>4, Zenon DEF OwnInv, SettledInv, TypeOK, Owner
<1> QED BY <1>1, <1>3, <1>5, <1>7, <1>8, Zenon DEF OwnInv, CountInv, Readable

\* Every step keeps the records of ownership.
LEMMA OwnStep ==
  ASSUME ~Reinstalls, TypeOK, FrameInv, OwnInv, [Next]_vars
  PROVE  OwnInv'
<1>1. ASSUME WriteConfig PROVE OwnInv'
  BY <1>1, WrittenType, WrittenReadable, RestartOwn, Zenon DEF WriteConfig
<1>2. ASSUME Die PROVE OwnInv'
  <2>1. disk \in Database /\ Readable(disk) /\ Restart(disk) /\ disk' = disk
    BY <1>2, Zenon DEF TypeOK, OwnInv, Die
  <2> QED BY <2>1, RestartOwn, Zenon
<1>3. ASSUME UNCHANGED <<files, hash, audited, stats, plan, idx, disk, pkgs, pc, todo>> PROVE OwnInv'
  <2>1. PlanInv' /\ OneVersion'
    BY <1>3, SamePlan, Zenon DEF OwnInv
  <2> QED BY <1>3, <2>1 DEF OwnInv, EntryInv, HashInv, SettledInv, CountInv, Readable, Old, New
<1>4. CASE Next
  <2>1. ASSUME NEW l \in Location, NEW d \in {User, Gone}, Edit(l, d) PROVE OwnInv'
    BY <1>3, <2>1, Zenon DEF Edit, memory
  <2>2. ASSUME NEW f \in Path, Segv(f) PROVE OwnInv'
    BY <1>2, <2>2, Zenon DEF Segv
  <2>3. ASSUME Crash PROVE OwnInv'
    BY <1>2, <2>3, Zenon DEF Crash
  <2>4. ASSUME NEW s \in Changesets, NEW o \in OverlaySets, NEW f \in FlagSets, Open(s, o, f)
        PROVE  OwnInv'
    BY <2>4, OpenOwn, Zenon
  <2>5. ASSUME StartChange PROVE OwnInv'
    BY <2>5, StartOwn, Zenon
  <2>6. ASSUME NEW f \in Path, SkipFile(f) PROVE OwnInv'
    BY <2>6, SkipOwn, Zenon
  <2>7. ASSUME NEW f \in Path, NEW out \in {"ok", "extract", "special"}, ExtractFile(f, out)
        PROVE  OwnInv'
    BY <2>7, ExtractOwn, Zenon
  <2>8. ASSUME UnpackDone PROVE OwnInv'
    BY <2>8, UnpackDoneOwn, Zenon
  <2>9. ASSUME UnpackError PROVE OwnInv'
    BY <2>9, UnpackErrorOwn, Zenon
  <2>10. ASSUME NEW e \in todo, NEW fault \in BOOLEAN, MigrateFile(e, fault) PROVE OwnInv'
    BY <2>10, MigrateOwn, Zenon
  <2>11. ASSUME MigrateDone PROVE OwnInv'
    BY <2>11, MigrateDoneOwn
  <2>12. ASSUME NEW e \in todo, PurgeFile(e) PROVE OwnInv'
    BY <2>12, PurgeOwn, Zenon
  <2>13. ASSUME PurgeDone PROVE OwnInv'
    BY <2>13, PurgeDoneOwn
  <2>14. ASSUME LookAgain \/ \E e \in todo : LookAtFile(e) \/ LookAtOldFile(e) PROVE OwnInv'
    BY <1>3, <2>14, Zenon DEF LookAgain, LookAtFile, LookAtOldFile, memory
  <2> QED BY <1>1, <1>4, <2>1, <2>2, <2>3, <2>4, <2>5, <2>6, <2>7, <2>8, <2>9, <2>10, <2>11,
             <2>12, <2>13, <2>14, Zenon DEF Next
<1>5. CASE UNCHANGED vars
  BY <1>3, <1>5, Zenon DEF vars, memory
<1> QED BY <1>4, <1>5, Zenon

\* At first nothing is owned.
LEMMA OwnInit == Init => OwnInv
<1> SUFFICES ASSUME Init PROVE OwnInv
  BY Zenon
<1>1. DOMAIN plan = {} /\ pc = "idle" /\ pkgs = disk.pkgs /\ plan = <<>> /\ disk.files = {}
      /\ pkgs = {} /\ audited = {} /\ files = [o \in Owner |-> {}]
      /\ hash = [f \in Path |-> NoEntry] /\ stats = 0
  BY DEF Init, EmptyDb
<1>2. {f \in Path : hash[f] # NoEntry} = {}
  BY <1>1, Zenon
<1>3. CountInv
  BY <1>1, <1>2, FS_EmptySet, Zenon DEF CountInv
<1>4. PlanInv
  BY <1>1, Zenon DEF PlanInv, Between
<1>5. OneVersion /\ EntryInv /\ HashInv /\ SettledInv /\ Readable(disk)
  BY <1>1, Zenon DEF OneVersion, EntryInv, HashInv, SettledInv, Readable
<1> QED BY <1>3, <1>4, <1>5, Zenon DEF OwnInv

\* The inductive invariant of the records of ownership, for runs that reinstall nothing.
LEMMA OwnInvariant == ASSUME ~Reinstalls PROVE Spec => [](TypeOK /\ FrameInv /\ OwnInv)
<1>1. Spec => [](TypeOK /\ FrameInv)
  BY TypeCorrect, Zenon
<1>2. TypeOK /\ FrameInv /\ OwnInv /\ [Next]_vars => OwnInv'
  BY OwnStep, Zenon
<1> QED BY <1>1, <1>2, OwnInit, PTL DEF Spec

\* Through installations, upgrades, downgrades, removals, takeovers, failing archives, extractions and
\* renames, the overlay and crashes, every path apk_db_install_pkg and apk_db_purge_pkg keep in
\* db->installed.files belongs to exactly the entry that records it, and stats.files counts them.
THEOREM OwnershipKept == ASSUME ~Reinstalls PROVE Spec => []Ownership
<1>1. OwnInv => Ownership
  BY Zenon DEF OwnInv, HashInv, SettledInv, CountInv, Ownership
<1> QED BY <1>1, OwnInvariant, PTL
=============================================================================
