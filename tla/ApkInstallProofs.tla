-------------------------- MODULE ApkInstallProofs --------------------------
(* Proofs about ApkInstall for any packages, paths, aliases and contents, any *)
(* number of runs, edits, failures and crashes.  Ownership is proved for      *)
(* changesets that reinstall nothing: "apk fix" is the subject of the run     *)
(* install_fix.                                                               *)
EXTENDS ApkInstall, FiniteSetTheorems, TLAPS

Between == {"idle", "change"}

------------------------------------------------------------------------------
(* Types.                                                                     *)

\* The change at hand and the entries it works on.
FrameInv ==
  /\ pc # "idle" => idx >= 1
  /\ pc \notin Between => idx \in 1..Len(plan)
  /\ \A j \in DOMAIN plan : plan[j].old # None \/ plan[j].new # None
  /\ pc \in {"unpack", "migrate", "migrated"} => New # None
  /\ pc = "purge" => Old # None
  /\ \A o \in Owner : \A e \in files[o] : e.pkg = o
  /\ pc = "migrate" => todo \subseteq files[New]

\* The indices of a sequence.
LEMMA SeqIndices ==
  ASSUME NEW S, NEW s \in Seq(S)
  PROVE  Len(s) \in Nat /\ DOMAIN s = 1..Len(s)
  OBVIOUS

\* An entry and its parts.
LEMMA EntryType ==
  /\ \A e \in Entry : /\ e.pkg \in Owner /\ e.path \in Path /\ e.gen \in {0, 1}
                      /\ [e EXCEPT !.gen = 0] \in Entry
  /\ \A p \in Owner, f \in Path, g \in {0, 1} : [pkg |-> p, path |-> f, gen |-> g] \in Entry
  BY Zenon DEF Entry

\* The change at hand is one of the changeset.
LEMMA ChangeAtHand ==
  ASSUME TypeOK, FrameInv, idx \in 1..Len(plan)
  PROVE  Old \in Pkg \cup {None} /\ New \in Pkg \cup {None} /\ (Old # None \/ New # None)
<1>1. plan[idx] \in Change /\ idx \in DOMAIN plan
  BY DEF TypeOK
<1> QED BY <1>1, Zenon DEF Change, Old, New, FrameInv

\* What is read back from a database has its types, whatever the overlay lists.
LEMMA LoadType ==
  ASSUME NEW d \in Database, NEW o \in SUBSET Path, Load(d, o)
  PROVE  /\ pkgs' \subseteq Pkg /\ brokenFiles' \subseteq Pkg
         /\ files' \in [Owner -> SUBSET Entry]
         /\ hash' \in [Path -> Entry \cup {NoEntry}]
         /\ digest' \subseteq Entry /\ broken' \subseteq Entry /\ audited' \subseteq Entry
         /\ stats' \in Int
         /\ \A q \in Owner : \A e \in files'[q] : e.pkg = q
<1> DEFINE over == {[pkg |-> Overlay, path |-> f, gen |-> 0] : f \in o}
           all  == d.files \cup over
<1>1. d.pkgs \subseteq Pkg /\ d.files \subseteq Entry /\ d.digest \subseteq Entry /\ d.broken \subseteq Pkg
  BY Zenon DEF Database
<1>2. over \subseteq Entry
  BY EntryType, Zenon DEF Owner
<1>3. all \subseteq Entry
  BY <1>1, <1>2, Zenon
<1>4. /\ pkgs' = d.pkgs /\ digest' = d.digest /\ broken' = {} /\ audited' = {}
      /\ brokenFiles' = d.broken
      /\ files' = [q \in Owner |-> {e \in all : e.pkg = q}]
      /\ hash' = [f \in Path |-> IF \E e \in all : e.path = f
                                 THEN CHOOSE e \in all : e.path = f ELSE NoEntry]
      /\ stats' = Cardinality({e.path : e \in all})
  BY Zenon DEF Load
<1> HIDE DEF all
<1>5. stats' \in Int
  <2>1. {e.path : e \in all} \subseteq Path
    BY <1>3, EntryType, Zenon
  <2>2. IsFiniteSet({e.path : e \in all})
    BY <2>1, FS_Subset, ConstantsAssumption
  <2>3. Cardinality({e.path : e \in all}) \in Nat
    BY <2>2, FS_CardinalityType, Zenon
  <2> QED BY <1>4, <2>3
<1>6. hash' \in [Path -> Entry \cup {NoEntry}]
  BY <1>3, <1>4, Zenon
<1> QED BY <1>1, <1>3, <1>4, <1>5, <1>6, Zenon

\* What is written to the database has its type.
LEMMA WrittenType == ASSUME TypeOK PROVE Written \in Database
<1> DEFINE live == {e \in UNION {files[p] : p \in pkgs} : e \notin audited}
<1>1. live \subseteq Entry
  BY DEF TypeOK, Owner
<1>2. {[e EXCEPT !.gen = 0] : e \in live} \subseteq Entry
  BY <1>1, EntryType, Zenon
<1>3. {[e EXCEPT !.gen = 0] : e \in live \cap digest} \subseteq Entry
  BY <1>1, EntryType, Zenon
<1>4. Written = [pkgs |-> pkgs, files |-> {[e EXCEPT !.gen = 0] : e \in live},
                 digest |-> {[e EXCEPT !.gen = 0] : e \in live \cap digest},
                 broken |-> brokenFiles \cap pkgs]
  BY Zenon DEF Written
<1> HIDE DEF live
<1> QED BY <1>2, <1>3, <1>4, Zenon DEF TypeOK, Database


\* A changeset is a sequence of changes.
LEMMA ChangesetType ==
  ASSUME NEW s \in Changesets
  PROVE  /\ s \in Seq(Change) /\ DOMAIN s = 1..Len(s)
         /\ \A j \in DOMAIN s : s[j] \in Changes /\ s[j] \in Change
         /\ \A j \in DOMAIN s : s[j].old # None \/ s[j].new # None
         /\ \A i, j \in DOMAIN s : i # j => NameOfChange(s[i]) # NameOfChange(s[j])
<1>1. PICK n \in 1..MaxChanges : s \in [1..n -> Changes]
  BY Zenon DEF Changesets
<1>2. Changes \subseteq Change
  BY Zenon DEF Changes
<1>3. n \in Nat
  BY ConstantsAssumption
<1>4. s \in [1..n -> Change]
  BY <1>1, <1>2, Zenon
<1>5. s \in Seq(Change)
  BY <1>3, <1>4
<1>6. DOMAIN s = 1..Len(s)
  BY <1>5, SeqIndices, Zenon
<1> QED BY <1>1, <1>2, <1>5, <1>6, Zenon DEF Changes, Changesets

Controls == {"none", "cancel", "differs", "commit", "apknew", "delete"}

\* The verdicts of the looks at a file.
LEMMA ControlType ==
  ASSUME NEW e
  PROVE  Control(e) \in Controls /\ ControlDiffering(e) \in Controls
<1>1. Control(e) \in {"none", "cancel", "differs", "commit"}
  BY DEF Control
<1>2. ControlDiffering(e) \in {"cancel", "apknew"}
  BY Zenon DEF ControlDiffering
<1> QED BY <1>1, <1>2, Zenon DEF Controls

\* The loop is between two files.
LEMMA NoLookType ==
  /\ NoLook \in [file : Entry \cup {NoEntry}, seen : FileState,
                 ctrl : {"none", "cancel", "differs", "commit", "apknew", "delete"}]
  /\ NoLook.ctrl = "none"
  BY Zenon DEF NoLook, FileState

\* A new process has its types.
LEMMA RestartType ==
  ASSUME NEW d \in Database, Restart(d), TypeOK,
         fs' = fs, apknew' = apknew, tmp' = tmp, disk' \in Database, touched' = touched,
         redo' \in Seq(Change)
  PROVE  TypeOK' /\ FrameInv'
<1>1. Load(d, {})
  BY Zenon DEF Restart
<1>2. {} \in SUBSET Path
  BY Zenon
<1>3. /\ pkgs' \subseteq Pkg /\ brokenFiles' \subseteq Pkg
      /\ files' \in [Owner -> SUBSET Entry]
      /\ hash' \in [Path -> Entry \cup {NoEntry}]
      /\ digest' \subseteq Entry /\ broken' \subseteq Entry /\ audited' \subseteq Entry
      /\ stats' \in Int
      /\ \A q \in Owner : \A e \in files'[q] : e.pkg = q
  BY <1>1, <1>2, LoadType, Zenon
<1>4. /\ plan' = <<>> /\ idx' = 0 /\ pc' = "idle" /\ archive' = {} /\ todo' = {} /\ fileids' = {}
      /\ removing' = {} /\ flags' = {} /\ look' = NoLook
  BY Zenon DEF Restart
<1>5. <<>> \in Seq(Change) /\ DOMAIN <<>> = {}
  OBVIOUS
<1>6. TypeOK'
  BY <1>3, <1>4, <1>5, NoLookType, Zenon DEF TypeOK
<1>7. FrameInv'
  BY <1>3, <1>4, <1>5, Zenon DEF FrameInv, Between
<1> QED BY <1>6, <1>7, Zenon

\* Every step keeps the types.
LEMMA TypeStep == TypeOK /\ FrameInv /\ [Next]_vars => TypeOK' /\ FrameInv'
<1> SUFFICES ASSUME TypeOK, FrameInv, [Next]_vars PROVE TypeOK' /\ FrameInv'
  BY Zenon
<1>0. pc \notin Between => idx \in 1..Len(plan)
  BY Zenon DEF FrameInv
<1>1. ASSUME NEW s \in Changesets, NEW o \in OverlaySets, NEW f \in FlagSets, Open(s, o, f)
      PROVE  TypeOK' /\ FrameInv'
  <2>1. o \in SUBSET Path /\ disk \in Database
    BY ConstantsAssumption, Zenon DEF TypeOK
  <2>2. Load(disk, o)
    BY <1>1, Zenon DEF Open
  <2>3. /\ pkgs' \subseteq Pkg /\ brokenFiles' \subseteq Pkg
        /\ files' \in [Owner -> SUBSET Entry]
        /\ hash' \in [Path -> Entry \cup {NoEntry}]
        /\ digest' \subseteq Entry /\ broken' \subseteq Entry /\ audited' \subseteq Entry
        /\ stats' \in Int
        /\ \A q \in Owner : \A e \in files'[q] : e.pkg = q
    BY <2>1, <2>2, LoadType, Zenon
  <2>4. /\ fs' \in [Location -> FileState] /\ touched' \subseteq Location
        /\ UNCHANGED <<apknew, tmp, disk, archive, todo, look, fileids>>
        /\ plan' = s /\ idx' = 1 /\ pc' = "change" /\ flags' = f /\ redo' = <<>>
    BY <1>1, <2>1, Zenon DEF Open, TypeOK, Location, FileState
  <2>5. removing' \subseteq Pkg
    <3>1. removing' = {s[i].old : i \in {j \in DOMAIN s : s[j].old # s[j].new}} \ {None}
      BY <1>1, Zenon DEF Open
    <3>2. \A i \in DOMAIN s : s[i].old \in Pkg \cup {None}
      BY ChangesetType, Zenon DEF Change
    <3> QED BY <3>1, <3>2, Zenon
  <2>6. <<>> \in Seq(Change) /\ 1 \in Nat
    OBVIOUS
  <2>7. TypeOK'
    BY <2>3, <2>4, <2>5, <2>6, ChangesetType, Zenon DEF TypeOK
  <2>8. FrameInv'
    BY <2>3, <2>4, ChangesetType DEF FrameInv, Between
  <2> QED BY <2>7, <2>8, Zenon
<1>2. ASSUME StartChange PROVE TypeOK' /\ FrameInv'
  <2>1. idx \in 1..Len(plan)
    BY <1>2, SeqIndices DEF StartChange, FrameInv, TypeOK
  <2>2. Old \in Pkg \cup {None} /\ New \in Pkg \cup {None} /\ (Old # None \/ New # None)
    BY <2>1, ChangeAtHand, Zenon
  <2>3. CASE New = None
    <3>1. /\ pc' = "purge" /\ todo' = files[Old] \ audited
          /\ UNCHANGED <<fs, apknew, tmp, disk, files, hash, digest, broken, audited, stats,
                 removing, plan, idx, look, fileids, flags, redo, touched, pkgs, brokenFiles, archive>>
      BY <1>2, <2>3, Zenon DEF StartChange, ghosts
    <3>2. TypeOK'
      BY <2>2, <2>3, <3>1, Zenon DEF TypeOK, Owner
    <3>3. FrameInv'
      BY <2>1, <2>2, <2>3, <3>1 DEF FrameInv, Between, Old, New
    <3> QED BY <3>2, <3>3, Zenon
  <2>4. CASE New # None
    <3>1. /\ pc' \in {"migrated", "unpack"} /\ pkgs' = pkgs \cup {New}
          /\ brokenFiles' = brokenFiles \ {New} /\ archive' = Ships[New]
          /\ UNCHANGED <<fs, apknew, tmp, disk, files, hash, digest, broken, audited, stats,
                 removing, plan, idx, look, fileids, flags, redo, touched, todo>>
      BY <1>2, <2>4, Zenon DEF StartChange, ghosts
    <3>2. TypeOK'
      BY <2>2, <2>4, <3>1, ConstantsAssumption, Zenon DEF TypeOK
    <3>3. FrameInv'
      BY <2>1, <2>4, <3>1 DEF FrameInv, Between, Old, New
    <3> QED BY <3>2, <3>3
  <2> QED BY <2>3, <2>4, Zenon
<1>3. ASSUME NEW f \in Path, SkipFile(f) PROVE TypeOK' /\ FrameInv'
  <2>1. pc = "unpack" /\ idx \in 1..Len(plan) /\ New \in Pkg
    BY <1>0, <1>3, ChangeAtHand, Zenon DEF SkipFile, FrameInv, Between
  <2>2. /\ brokenFiles' \subseteq Pkg /\ archive' = archive \ {f}
        /\ UNCHANGED <<fs, apknew, tmp, disk, pkgs, files, hash, digest, broken, audited,
                 stats, removing, plan, idx, pc, todo, look, fileids, flags, redo, touched>>
    BY <1>3, <2>1, Zenon DEF SkipFile, TypeOK, ghosts
  <2>3. TypeOK'
    BY <2>2, Zenon DEF TypeOK
  <2>4. FrameInv'
    BY <2>2, Zenon DEF FrameInv, Old, New
  <2> QED BY <2>3, <2>4, Zenon
<1>4. ASSUME NEW f \in Path, Segv(f) PROVE TypeOK' /\ FrameInv'
  <2>1. redo' \in Seq(Change)
    BY <1>4 DEF Segv, Die, TypeOK
  <2> QED BY <1>4, <2>1, RestartType, Zenon DEF Segv, Die, ghosts, TypeOK
<1>5. ASSUME NEW f \in Path, NEW out \in {"ok", "extract", "special"}, ExtractFile(f, out)
      PROVE  TypeOK' /\ FrameInv'
  <2> DEFINE e == FileOf(f)
  <2>1. pc = "unpack" /\ idx \in 1..Len(plan) /\ New \in Pkg
    BY <1>0, <1>5, ChangeAtHand, Zenon DEF ExtractFile, FrameInv, Between
  <2>2. e \in Entry /\ e.pkg = New
    <3>1. CASE hash[f] # NoEntry /\ hash[f].pkg = New
      BY <3>1, Zenon DEF FileOf, TypeOK
    <3>2. CASE ~(hash[f] # NoEntry /\ hash[f].pkg = New)
      <4>1. (IF Old = New THEN 1 ELSE 0) \in {0, 1} /\ New \in Owner
        BY <2>1, Zenon DEF Owner
      <4>2. e = [pkg |-> New, path |-> f, gen |-> IF Old = New THEN 1 ELSE 0]
        BY <3>2, Zenon DEF FileOf
      <4>3. e \in Entry
        BY <4>1, <4>2, EntryType, Zenon
      <4> QED BY <4>2, <4>3
    <3> QED BY <3>1, <3>2, Zenon
  <2>3. /\ files' = [files EXCEPT ![New] = @ \cup {e}]
        /\ tmp' = [tmp EXCEPT ![TmpName(New, f)] = IF out = "ok" THEN Content[New][f] ELSE Absent]
        /\ digest' \subseteq digest \cup {e} /\ broken' \subseteq broken \cup {e}
        /\ brokenFiles' \subseteq brokenFiles \cup {New} /\ archive' = archive \ {f}
        /\ UNCHANGED <<fs, apknew, disk, pkgs, hash, audited, stats, removing, plan, idx, pc, todo,
                 look, fileids, flags, redo, touched>>
    BY <1>5, Zenon DEF ExtractFile, ghosts
  <2> HIDE DEF e
  <2>4. tmp' \in [Names \X Path -> Data \cup {Absent}]
    <3>1. (IF out = "ok" THEN Content[New][f] ELSE Absent) \in Data \cup {Absent}
      BY <2>1, ConstantsAssumption, SMTT(30)
    <3> QED BY <2>3, <3>1, Zenon DEF TypeOK
  <2>5. files' \in [Owner -> SUBSET Entry] /\ \A o \in Owner : \A x \in files'[o] : x.pkg = o
    BY <2>1, <2>2, <2>3 DEF TypeOK, FrameInv, Owner
  <2>6. TypeOK'
    BY <2>1, <2>2, <2>3, <2>4, <2>5, Zenon DEF TypeOK
  <2>7. FrameInv'
    BY <2>1, <2>3, <2>5, Zenon DEF FrameInv, Old, New
  <2> QED BY <2>6, <2>7, Zenon
<1>6. ASSUME UnpackDone PROVE TypeOK' /\ FrameInv'
  <2>1. pc = "unpack" /\ idx \in 1..Len(plan) /\ New \in Pkg
    BY <1>0, <1>6, ChangeAtHand, Zenon DEF UnpackDone, FrameInv, Between
  <2>2. /\ pc' = "migrate" /\ todo' = files[New]
        /\ UNCHANGED <<fs, apknew, tmp, disk, pkgs, files, hash, digest, broken, audited,
                 brokenFiles, stats, removing, plan, idx, archive, look, fileids, flags, redo, touched>>
    BY <1>6, Zenon DEF UnpackDone, memory, ghosts
  <2>3. TypeOK'
    BY <2>1, <2>2, Zenon DEF TypeOK, Owner
  <2>4. FrameInv'
    BY <2>1, <2>2, Zenon DEF FrameInv, Between, Old, New
  <2> QED BY <2>3, <2>4
<1>7. ASSUME NEW p \in Pkg, Forget(p), NextChange, pc # "idle", idx \in Nat,
             tmp' \in [Names \X Path -> Data \cup {Absent}],
             UNCHANGED <<fs, apknew, disk, hash, digest, broken, audited, stats, plan, look,
                         flags, redo, touched>>
      PROVE  TypeOK' /\ FrameInv'
  <2>1. /\ idx' = idx + 1 /\ pc' = "change" /\ archive' = {} /\ todo' = {} /\ fileids' = {}
    BY <1>7, Zenon DEF NextChange
  <2>2. /\ pkgs' = pkgs \ {p} /\ files' = [files EXCEPT ![p] = {}]
        /\ brokenFiles' = brokenFiles \ {p} /\ removing' = removing \ {p}
    BY <1>7, Zenon DEF Forget
  <2>3. files' \in [Owner -> SUBSET Entry] /\ \A o \in Owner : \A x \in files'[o] : x.pkg = o
    BY <2>2, Zenon DEF TypeOK, FrameInv, Owner
  <2>4. TypeOK'
    BY <1>7, <2>1, <2>2, <2>3 DEF TypeOK
  <2>5. FrameInv'
    <3>1. plan' = plan /\ idx' >= 1
      BY <1>7, <2>1
    <3> QED BY <2>1, <2>3, <3>1, Zenon DEF FrameInv, Between
  <2> QED BY <2>4, <2>5
<1>8. ASSUME UnpackError PROVE TypeOK' /\ FrameInv'
  <2>1. pc = "unpack" /\ idx \in 1..Len(plan) /\ New \in Pkg
    BY <1>0, <1>8, ChangeAtHand, Zenon DEF UnpackError, FrameInv, Between
  <2>2. tmp' \in [Names \X Path -> Data \cup {Absent}]
    BY <1>8, Zenon DEF UnpackError, Cancelled, TypeOK
  <2>3. idx \in Nat /\ pc # "idle"
    BY <2>1, Zenon DEF TypeOK
  <2> QED BY <1>7, <1>8, <2>1, <2>2, <2>3, Zenon DEF UnpackError, ghosts
<1>9. ASSUME NEW e \in todo, NEW fault \in BOOLEAN, MigrateFile(e, fault)
      PROVE  TypeOK' /\ FrameInv'
  <2> DEFINE x == TmpName(e.pkg, e.path)
             l == Loc[e.path]
  <2>1. pc = "migrate" /\ idx \in 1..Len(plan) /\ New \in Pkg
    BY <1>0, <1>9, ChangeAtHand, Zenon DEF MigrateFile, FrameInv, Between
  <2>2. e \in Entry /\ e.pkg = New /\ e.path \in Path
    BY <2>1, EntryType, Zenon DEF TypeOK, FrameInv, Owner
  <2>3. x \in Names \X Path /\ l \in Location
    BY <2>1, <2>2, Zenon DEF TmpName, Names, Location
  <2>4. tmp[x] \in Data \cup {Absent}
    BY <2>3, Zenon DEF TypeOK
  <2>5. PICK ctrl, ok : FileControl(e, ctrl, ok)
    BY <1>9, Zenon DEF MigrateFile
  <2>6. /\ fs' = fs \/ fs' = [fs EXCEPT ![l] = tmp[x]]
        /\ apknew' = apknew \/ apknew' = [apknew EXCEPT ![l] = tmp[x]]
        /\ tmp' = tmp \/ tmp' = [tmp EXCEPT ![x] = Absent]
    BY <2>5, Zenon DEF FileControl
  <2> HIDE DEF x, l
  <2>7. /\ fs' \in [Location -> FileState] /\ apknew' \in [Location -> Data \cup {Absent}]
        /\ tmp' \in [Names \X Path -> Data \cup {Absent}]
    BY <2>3, <2>4, <2>6, Zenon DEF TypeOK, FileState
  <2>8. /\ brokenFiles' \subseteq brokenFiles \cup {New} /\ hash' = [hash EXCEPT ![e.path] = e]
        /\ audited' = Marked(hash[e.path], e) /\ stats' = Counted(hash[e.path])
        /\ todo' = todo \ {e} /\ look' = NoLook
        /\ UNCHANGED <<disk, pkgs, files, digest, broken, removing, plan, idx, pc, archive, flags,
                       redo, touched>>
    BY <1>9, Zenon DEF MigrateFile, ghosts
  <2>9. fileids' \subseteq Location
    <3>1. fileids' \subseteq fileids \cup {l}
      BY <1>9, Zenon DEF MigrateFile, l
    <3> QED BY <2>3, <3>1, Zenon DEF TypeOK
  <2>10. /\ hash' \in [Path -> Entry \cup {NoEntry}] /\ audited' \subseteq Entry /\ stats' \in Int
    BY <2>2, <2>8 DEF TypeOK, Marked, Counted
  <2>11. TypeOK'
    BY <2>1, <2>7, <2>8, <2>9, <2>10, NoLookType, Zenon DEF TypeOK
  <2>12. FrameInv'
    BY <2>8, Zenon DEF FrameInv, Old, New
  <2> QED BY <2>11, <2>12, Zenon
<1>10. ASSUME MigrateDone PROVE TypeOK' /\ FrameInv'
  <2>1. pc \in {"migrate", "migrated"} /\ idx \in 1..Len(plan) /\ Old \in Pkg \cup {None}
    BY <1>0, <1>10, ChangeAtHand, Zenon DEF MigrateDone, Between
  <2>2. UNCHANGED <<fs, apknew, tmp, disk, pkgs, files, hash, digest, broken, audited, brokenFiles,
                    stats, removing, plan, look, flags, redo, touched>>
    BY <1>10, Zenon DEF MigrateDone, memory, ghosts
  <2>3. CASE Old \notin {None, New}
    <3>1. pc' = "purge" /\ todo' = files[Old] \ audited /\ UNCHANGED <<idx, archive, fileids>>
      BY <1>10, <2>3, Zenon DEF MigrateDone
    <3>2. TypeOK'
      BY <2>1, <2>2, <2>3, <3>1, Zenon DEF TypeOK, Owner
    <3>3. FrameInv'
      BY <2>1, <2>2, <2>3, <3>1, Zenon DEF FrameInv, Between, Old, New
    <3> QED BY <3>2, <3>3
  <2>4. CASE Old \in {None, New}
    <3>1. idx' = idx + 1 /\ pc' = "change" /\ archive' = {} /\ todo' = {} /\ fileids' = {}
      BY <1>10, <2>4, Zenon DEF MigrateDone, NextChange
    <3>2. TypeOK'
      BY <2>2, <3>1 DEF TypeOK
    <3>3. FrameInv'
      BY <2>1, <2>2, <3>1, SeqIndices DEF FrameInv, Between, TypeOK
    <3> QED BY <3>2, <3>3
  <2> QED BY <2>3, <2>4, Zenon
<1>11. ASSUME NEW e \in todo, PurgeFile(e) PROVE TypeOK' /\ FrameInv'
  <2>1. e \in Entry /\ e.path \in Path /\ Loc[e.path] \in Location
    BY EntryType, Zenon DEF TypeOK, Location
  <2>2. /\ fs' = fs \/ fs' = [fs EXCEPT ![Loc[e.path]] = Absent]
        /\ apknew' = apknew \/ apknew' = [apknew EXCEPT ![Loc[e.path]] = Absent]
        /\ hash' = [hash EXCEPT ![e.path] = NoEntry] /\ stats' = stats - 1 /\ todo' = todo \ {e}
        /\ pc = "purge" /\ look' = NoLook
        /\ UNCHANGED <<tmp, disk, pkgs, files, digest, broken, audited, brokenFiles, removing,
                 plan, idx, pc, archive, fileids, flags, redo, touched>>
    BY <1>11, Zenon DEF PurgeFile, ghosts
  <2>3. TypeOK'
    <3>1. fs' \in [Location -> FileState] /\ apknew' \in [Location -> Data \cup {Absent}]
      BY <2>1, <2>2, Zenon DEF TypeOK, FileState
    <3>2. hash' \in [Path -> Entry \cup {NoEntry}] /\ stats' \in Int /\ todo' \subseteq Entry
      BY <2>1, <2>2 DEF TypeOK
    <3> QED BY <2>2, <3>1, <3>2, NoLookType, Zenon DEF TypeOK
  <2>4. FrameInv'
    BY <2>2, Zenon DEF FrameInv, Old, New
  <2> QED BY <2>3, <2>4, Zenon
<1>12. ASSUME PurgeDone PROVE TypeOK' /\ FrameInv'
  <2>1. pc = "purge" /\ idx \in 1..Len(plan) /\ Old \in Pkg
    BY <1>0, <1>12, ChangeAtHand, Zenon DEF PurgeDone, FrameInv, Between
  <2>2. tmp' \in [Names \X Path -> Data \cup {Absent}] /\ idx \in Nat /\ pc # "idle"
    BY <1>12, <2>1, Zenon DEF PurgeDone, TypeOK
  <2> QED BY <1>7, <1>12, <2>1, <2>2, Zenon DEF PurgeDone, ghosts
<1>13. ASSUME WriteConfig PROVE TypeOK' /\ FrameInv'
  BY <1>13, RestartType, WrittenType, Zenon DEF WriteConfig, ghosts, TypeOK
<1>14. ASSUME Crash PROVE TypeOK' /\ FrameInv'
  <2>1. redo' \in Seq(Change)
    BY <1>14 DEF Crash, Die, TypeOK
  <2> QED BY <1>14, <2>1, RestartType, Zenon DEF Crash, Die, ghosts, TypeOK
<1>15. ASSUME NEW l \in Location, NEW d \in {User, Gone}, Edit(l, d) PROVE TypeOK' /\ FrameInv'
  <2>1. /\ fs' = [fs EXCEPT ![l] = d] /\ touched' = touched \cup {l}
        /\ UNCHANGED <<apknew, tmp, disk, pkgs, files, hash, digest, broken, audited, brokenFiles,
                       stats, removing, plan, idx, pc, archive, todo, look, fileids, flags, redo>>
    BY <1>15, Zenon DEF Edit, memory
  <2>2. TypeOK'
    BY <2>1, Zenon DEF TypeOK, FileState
  <2>3. FrameInv'
    BY <2>1, Zenon DEF FrameInv, Old, New
  <2> QED BY <2>2, <2>3, Zenon
<1>17. ASSUME NEW x \in todo, LookAtFile(x) \/ LookAtOldFile(x) PROVE TypeOK' /\ FrameInv'
  <2>1. x \in Entry /\ Loc[x.path] \in Location
    BY EntryType, Zenon DEF TypeOK, Location
  <2>2. PICK c \in Controls : look' = [file |-> x, ctrl |-> c, seen |-> fs[Loc[x.path]]]
    BY <1>17, ControlType, Zenon DEF LookAtFile, LookAtOldFile, Controls
  <2>3. look' \in [file : Entry \cup {NoEntry}, seen : FileState, ctrl : Controls]
    BY <2>1, <2>2, Zenon DEF TypeOK
  <2>4. UNCHANGED <<fs, apknew, tmp, disk, pkgs, files, hash, digest, broken, audited, brokenFiles,
                    stats, removing, plan, idx, pc, archive, todo, fileids, flags, redo, touched>>
    BY <1>17, Zenon DEF LookAtFile, LookAtOldFile, memory, ghosts
  <2>5. TypeOK'
    BY <2>3, <2>4, Zenon DEF TypeOK, Controls
  <2>6. FrameInv'
    BY <2>4, Zenon DEF FrameInv, Old, New
  <2> QED BY <2>5, <2>6, Zenon
<1>18. ASSUME LookAgain PROVE TypeOK' /\ FrameInv'
  <2>1. look' = [look EXCEPT !.ctrl = ControlDiffering(look.file)]
    BY <1>18, Zenon DEF LookAgain
  <2>2. ControlDiffering(look.file) \in Controls
    BY ControlType, Zenon
  <2>3. look' \in [file : Entry \cup {NoEntry}, seen : FileState, ctrl : Controls]
    BY <2>1, <2>2, Zenon DEF TypeOK, Controls
  <2>4. UNCHANGED <<fs, apknew, tmp, disk, pkgs, files, hash, digest, broken, audited, brokenFiles,
                    stats, removing, plan, idx, pc, archive, todo, fileids, flags, redo, touched>>
    BY <1>18, Zenon DEF LookAgain, memory, ghosts
  <2>5. TypeOK'
    BY <2>3, <2>4, Zenon DEF TypeOK, Controls
  <2>6. FrameInv'
    BY <2>4, Zenon DEF FrameInv, Old, New
  <2> QED BY <2>5, <2>6, Zenon
<1>16. CASE UNCHANGED vars
  <2>1. UNCHANGED <<fs, apknew, tmp, disk, pkgs, files, hash, digest, broken, audited, brokenFiles,
                    stats, removing, plan, idx, pc, archive, todo, look, fileids, flags, redo, touched>>
    BY <1>16, Zenon DEF vars, memory, ghosts
  <2>2. TypeOK'
    BY <2>1, Zenon DEF TypeOK
  <2>3. FrameInv'
    BY <2>1, Zenon DEF FrameInv, Old, New
  <2> QED BY <2>2, <2>3
<1> QED BY <1>1, <1>2, <1>3, <1>4, <1>5, <1>6, <1>8, <1>9, <1>10, <1>11, <1>12, <1>13, <1>14, <1>15,
           <1>16, <1>17, <1>18, Zenon DEF Next

\* Every step of apk_db_install_pkg, a crash or an edit keeps the variables in their types.
THEOREM TypeCorrect == Spec => [](TypeOK /\ FrameInv)
<1>1. Init => TypeOK /\ FrameInv
  <2> SUFFICES ASSUME Init PROVE TypeOK /\ FrameInv
    BY Zenon
  <2>1. <<>> \in Seq(Change) /\ DOMAIN <<>> = {} /\ 0 \in Nat
    BY SMTT(30)
  <2>2. TypeOK
    BY <2>1, NoLookType DEF Init, TypeOK, FileState, EmptyDb, Database
  <2>3. FrameInv
    BY <2>1, Zenon DEF Init, FrameInv, Between
  <2> QED BY <2>2, <2>3, Zenon
<1> QED BY <1>1, TypeStep, PTL DEF Spec

------------------------------------------------------------------------------
(* What the administrator changed.                                            *)

\* The overlay is read only into a database without packages, so a changeset that meets a file of
\* the overlay has nothing to purge.
OverlayInv ==
  /\ (\E f \in Path : hash[f] # NoEntry /\ hash[f].pkg = Overlay)
       => \A j \in DOMAIN plan : plan[j].old = None
  /\ pc = "idle" => pkgs = disk.pkgs
  /\ pc = "purge" => todo \subseteq files[Old]
  /\ \A e \in disk.files : e.pkg \in Pkg

\* A new process knows no overlay.
LEMMA RestartOverlay ==
  ASSUME NEW d \in Database, \A e \in d.files : e.pkg \in Pkg, Restart(d), disk' = d
  PROVE  OverlayInv'
<1>1. plan' = <<>> /\ pc' = "idle" /\ pkgs' = d.pkgs
  BY Zenon DEF Restart, Load
<1>2. DOMAIN <<>> = {}
  OBVIOUS
<1> QED BY <1>1, <1>2, Zenon DEF OverlayInv

\* --overlay-from-stdin is read before the changeset is made.
LEMMA OpenOverlay ==
  ASSUME TypeOK, OverlayInv, NEW s \in Changesets, NEW o \in OverlaySets, NEW f \in FlagSets,
         Open(s, o, f)
  PROVE  OverlayInv'
<1> DEFINE over == {[pkg |-> Overlay, path |-> g, gen |-> 0] : g \in o}
           all  == disk.files \cup over
<1>1. /\ pc = "idle" /\ pc' = "change" /\ plan' = s /\ disk' = disk
      /\ hash' = [g \in Path |-> IF \E e \in all : e.path = g
                                 THEN CHOOSE e \in all : e.path = g ELSE NoEntry]
      /\ o # {} => disk.pkgs = {}
  BY Zenon DEF Open, Load
<1>2. CASE o = {}
  <2>1. all = disk.files
    BY <1>2, Zenon
  <2>2. \A g \in Path : hash'[g] # NoEntry => hash'[g] \in all
    BY <1>1, Zenon
  <2>3. \A g \in Path : hash'[g] # NoEntry => hash'[g].pkg # Overlay
    BY <2>1, <2>2, ConstantsAssumption, Zenon DEF OverlayInv
  <2> QED BY <1>1, <2>3, Zenon DEF OverlayInv
<1>3. CASE o # {}
  <2>1. pkgs = {}
    BY <1>1, <1>3, Zenon DEF OverlayInv
  <2>2. \A j \in DOMAIN s : s[j].old = None
    BY <2>1, ChangesetType, Zenon DEF Changes
  <2> QED BY <1>1, <2>2, Zenon DEF OverlayInv
<1> QED BY <1>2, <1>3, Zenon

\* No step purges what the overlay owns.
LEMMA OverlayStep ==
  ASSUME TypeOK, FrameInv, OverlayInv, [Next]_vars
  PROVE  OverlayInv'
<1>1. ASSUME UNCHANGED <<hash, plan, idx, disk>>,
             pc' = "idle" => pc = "idle" /\ pkgs' = pkgs,
             pc' = "purge" => todo' \subseteq files[Old] /\ files' = files
      PROVE  OverlayInv'
  BY <1>1, Zenon DEF OverlayInv, Old
<1>2. ASSUME Die PROVE OverlayInv'
  <2>1. disk \in Database /\ Restart(disk) /\ disk' = disk /\ \A e \in disk.files : e.pkg \in Pkg
    BY <1>2, Zenon DEF TypeOK, OverlayInv, Die
  <2> QED BY <2>1, RestartOverlay, Zenon
<1>3. ASSUME WriteConfig PROVE OverlayInv'
  <2> DEFINE live == {e \in UNION {files[p] : p \in pkgs} : e \notin audited}
  <2>1. Written.files = {[e EXCEPT !.gen = 0] : e \in live}
    BY Zenon DEF Written
  <2>2. \A e \in Written.files : e.pkg \in Pkg
    <3>1. \A e \in live : e \in Entry /\ e.pkg \in Pkg
      BY DEF TypeOK, FrameInv, Owner
    <3>2. \A e \in live : [e EXCEPT !.gen = 0].pkg \in Pkg
      BY <3>1, Zenon DEF Entry
    <3> HIDE DEF live
    <3> QED BY <2>1, <3>2, Zenon
  <2> QED BY <1>3, <2>2, WrittenType, RestartOverlay, Zenon DEF WriteConfig
<1>4. ASSUME NEW f \in Path, NEW out \in {"ok", "extract", "special"}, ExtractFile(f, out)
      PROVE  OverlayInv'
  BY <1>1, <1>4, Zenon DEF ExtractFile
<1>5. ASSUME StartChange PROVE OverlayInv'
  BY <1>1, <1>5, Zenon DEF StartChange
<1>6. ASSUME NEW f \in Path, SkipFile(f) PROVE OverlayInv'
  BY <1>1, <1>6, Zenon DEF SkipFile
<1>7. ASSUME UnpackDone PROVE OverlayInv'
  BY <1>1, <1>7, Zenon DEF UnpackDone, memory
<1>8. ASSUME UnpackError \/ PurgeDone PROVE OverlayInv'
  <2>1. UNCHANGED <<hash, plan, disk>> /\ pc' = "change"
    BY <1>8, Zenon DEF UnpackError, PurgeDone, NextChange
  <2> QED BY <2>1, Zenon DEF OverlayInv
<1>9. ASSUME MigrateDone PROVE OverlayInv'
  <2>1. CASE Old \notin {None, New}
    BY <1>1, <1>9, <2>1, Zenon DEF MigrateDone, memory
  <2>2. CASE Old \in {None, New}
    <3>1. UNCHANGED <<hash, plan, disk>> /\ pc' = "change"
      BY <1>9, <2>2, Zenon DEF MigrateDone, NextChange, memory
    <3> QED BY <3>1 DEF OverlayInv
  <2> QED BY <2>1, <2>2, Zenon
<1>10. ASSUME NEW e \in todo, NEW fault \in BOOLEAN, MigrateFile(e, fault) PROVE OverlayInv'
  <2>1. pc = "migrate" /\ pc' = pc /\ hash' = [hash EXCEPT ![e.path] = e] /\ UNCHANGED <<plan, disk>>
    BY <1>10, Zenon DEF MigrateFile
  <2>2. New \in Pkg /\ e \in files[New] /\ New \in Owner
    BY <2>1, ChangeAtHand, Zenon DEF FrameInv, Between, Owner
  <2>3. e.pkg # Overlay
    BY <2>2, ConstantsAssumption, Zenon DEF FrameInv
  <2>4. \A f \in Path : hash'[f] = hash[f] \/ hash'[f].pkg # Overlay
    BY <2>1, <2>3, Zenon DEF TypeOK
  <2> QED BY <2>1, <2>4, Zenon DEF OverlayInv
<1>11. ASSUME NEW e \in todo, PurgeFile(e) PROVE OverlayInv'
  <2>1. /\ pc = "purge" /\ hash' = [hash EXCEPT ![e.path] = NoEntry] /\ todo' \subseteq todo
        /\ UNCHANGED <<plan, idx, disk, files, pc>>
    BY <1>11, Zenon DEF PurgeFile
  <2>2. \A f \in Path : hash'[f] = hash[f] \/ hash'[f] = NoEntry
    BY <2>1, Zenon DEF TypeOK
  <2> QED BY <2>1, <2>2, Zenon DEF OverlayInv, Old
<1>12. ASSUME NEW l \in Location, NEW d \in {User, Gone}, Edit(l, d) PROVE OverlayInv'
  BY <1>1, <1>12, Zenon DEF Edit, memory, OverlayInv
<1>13. CASE UNCHANGED vars
  BY <1>1, <1>13, Zenon DEF vars, memory, OverlayInv
<1>16. ASSUME LookAgain \/ \E e \in todo : LookAtFile(e) \/ LookAtOldFile(e) PROVE OverlayInv'
  BY <1>1, <1>16, Zenon DEF LookAgain, LookAtFile, LookAtOldFile, memory, OverlayInv
<1>14. ASSUME NEW s \in Changesets, NEW o \in OverlaySets, NEW f \in FlagSets, Open(s, o, f)
       PROVE  OverlayInv'
  BY <1>14, OpenOverlay, Zenon
<1>15. ASSUME Crash \/ \E f \in Path : Segv(f) PROVE OverlayInv'
  BY <1>2, <1>15, Zenon DEF Crash, Segv
<1> QED BY <1>3, <1>4, <1>5, <1>6, <1>7, <1>8, <1>9, <1>10, <1>11, <1>12, <1>13, <1>14, <1>15, <1>16,
           Zenon DEF Next

\* A file that the administrator wrote matches no package's.
LEMMA UserIsChanged ==
  ASSUME TypeOK, NEW f \in Path, fs[Loc[f]] = User,
         NEW e \in Entry \cup {NoEntry}, e = NoEntry \/ e.pkg \in Pkg
  PROVE  Present(Loc[f]) /\ ~Clean(f, e)
<1>1. Present(Loc[f])
  BY ConstantsAssumption, Zenon DEF Present
<1>2. e.pkg \in Pkg => Content[e.pkg][f] \in Data
  BY ConstantsAssumption
<1> QED BY <1>1, <1>2, ConstantsAssumption, Zenon DEF Clean

\* What was decided of the file at hand: it replaces nothing of the overlay, and if it replaces or
\* deletes a protected file then that one was not the administrator's when it was looked at.
LookInv ==
  /\ look # NoLook => pc \in {"migrate", "purge"} /\ look.file \in todo
  /\ look.ctrl = "commit" =>
       /\ look.file.path \in Protected => look.seen # User
       /\ hash[look.file.path] # NoEntry => hash[look.file.path].pkg # Overlay
  /\ look.ctrl = "delete" => (look.file.path \in Protected => "purge" \in flags \/ look.seen # User)

\* apk_db_audit_file before a file is replaced.
LEMMA LookAtNew ==
  ASSUME TypeOK, NEW e \in todo, LookAtFile(e)
  PROVE  LookInv'
<1>1. /\ pc = "migrate" /\ UNCHANGED <<pc, todo, hash, flags>>
      /\ look' = [file |-> e, ctrl |-> Control(e), seen |-> fs[Loc[e.path]]]
  BY Zenon DEF LookAtFile, memory
<1>2. e \in Entry /\ e.path \in Path /\ hash[e.path] \in Entry \cup {NoEntry}
  BY EntryType, Zenon DEF TypeOK
<1>3. look'.file = e /\ look'.ctrl = Control(e) /\ look'.seen = fs[Loc[e.path]]
  BY <1>1, Zenon
<1>4. Control(e) # "delete"
  BY DEF Control
<1>5. ASSUME Control(e) = "commit"
      PROVE  /\ hash[e.path] # NoEntry => hash[e.path].pkg # Overlay
             /\ e.path \in Protected => fs[Loc[e.path]] # User
  <2>1. hash[e.path] # NoEntry => hash[e.path].pkg # Overlay
    BY <1>5, Zenon DEF Control
  <2>2. e.path \in Protected => Clean(e.path, hash[e.path])
    BY <1>5, <2>1, Zenon DEF Control
  <2>3. hash[e.path] = NoEntry \/ hash[e.path].pkg \in Pkg
    BY <1>2, <2>1, EntryType, Zenon DEF Owner
  <2> QED BY <1>2, <2>1, <2>2, <2>3, UserIsChanged, Zenon
<1> QED BY <1>1, <1>3, <1>4, <1>5, Zenon DEF LookInv

\* ... and before one is deleted.
LEMMA LookAtOld ==
  ASSUME TypeOK, FrameInv, OverlayInv, NEW e \in todo, LookAtOldFile(e)
  PROVE  LookInv'
<1>1. /\ pc = "purge" /\ UNCHANGED <<pc, todo, hash, flags>>
      /\ look' = [file |-> e, ctrl |-> IF Deletes(e) THEN "delete" ELSE "none",
                  seen |-> fs[Loc[e.path]]]
  BY Zenon DEF LookAtOldFile, memory
<1>2. e \in Entry /\ e.path \in Path
  BY EntryType, Zenon DEF TypeOK
<1>3. /\ look'.file = e /\ look'.ctrl = (IF Deletes(e) THEN "delete" ELSE "none")
      /\ look'.seen = fs[Loc[e.path]]
  BY <1>1, Zenon
<1>4. e.pkg \in Pkg
  BY <1>1, ChangeAtHand, Zenon DEF OverlayInv, FrameInv, Between, Owner
<1>5. ASSUME Deletes(e), e.path \in Protected
      PROVE  "purge" \in flags \/ fs[Loc[e.path]] # User
  BY <1>2, <1>4, <1>5, UserIsChanged, Zenon DEF Deletes, DirClean
<1> QED BY <1>1, <1>3, <1>5, Zenon DEF LookInv

\* Every step keeps LookInv: what a verdict rests on does not change before it is carried out.
LEMMA LookStep ==
  ASSUME TypeOK, FrameInv, OverlayInv, LookInv, [Next]_vars
  PROVE  LookInv'
<1>1. ASSUME look' = NoLook PROVE LookInv'
  BY <1>1, NoLookType, Zenon DEF LookInv
<1>2. ASSUME UNCHANGED look, pc \notin {"migrate", "purge"} \/ todo = {} PROVE LookInv'
  BY <1>1, <1>2, Zenon DEF LookInv
<1>3. ASSUME UNCHANGED <<look, pc, todo, hash, flags>> PROVE LookInv'
  BY <1>3, Zenon DEF LookInv
<1>4. ASSUME NEW e \in todo, LookAtFile(e) \/ LookAtOldFile(e) PROVE LookInv'
  BY <1>4, LookAtNew, LookAtOld, Zenon
<1>5. ASSUME LookAgain PROVE LookInv'
  <2>1. /\ look' = [look EXCEPT !.ctrl = ControlDiffering(look.file)]
        /\ look.ctrl = "differs" /\ UNCHANGED <<pc, todo>>
    BY <1>5, Zenon DEF LookAgain
  <2>2. look'.file = look.file /\ look'.ctrl \in {"cancel", "apknew"}
    BY <2>1, Zenon DEF ControlDiffering, TypeOK
  <2>3. look # NoLook
    BY <2>1, NoLookType
  <2> QED BY <2>1, <2>2, <2>3 DEF LookInv
<1>6. ASSUME NEW e \in todo, PurgeFile(e) \/ \E fault \in BOOLEAN : MigrateFile(e, fault)
      PROVE  LookInv'
  BY <1>1, <1>6, Zenon DEF PurgeFile, MigrateFile
<1>7. ASSUME WriteConfig \/ Crash \/ \E f \in Path : Segv(f) PROVE LookInv'
  BY <1>1, <1>7, Zenon DEF WriteConfig, Crash, Segv, Die, Restart
<1>8. ASSUME NEW s, NEW o, NEW f, Open(s, o, f) PROVE LookInv'
  BY <1>2, <1>8 DEF Open
<1>9. ASSUME \/ StartChange \/ UnpackDone \/ UnpackError \/ MigrateDone \/ PurgeDone
             \/ (\E g \in Path : SkipFile(g))
             \/ \E g \in Path, out \in {"ok", "extract", "special"} : ExtractFile(g, out)
      PROVE  LookInv'
  <2>1. UNCHANGED look /\ (pc \in {"change", "unpack", "migrated"} \/ todo = {})
    BY <1>9, Zenon DEF StartChange, UnpackDone, UnpackError, MigrateDone, PurgeDone, SkipFile, ExtractFile
  <2> QED BY <1>2, <2>1
<1>10. ASSUME NEW l \in Location, NEW d \in {User, Gone}, Edit(l, d) PROVE LookInv'
  BY <1>3, <1>10, Zenon DEF Edit, memory
<1>11. CASE UNCHANGED vars
  BY <1>3, <1>11, Zenon DEF vars, memory
<1> QED BY <1>4, <1>5, <1>6, <1>7, <1>8, <1>9, <1>10, <1>11, Zenon DEF Next

\* The step of LocalChangesKept.
KeepsLocal ==
  \A f \in Path :
    fs[Loc[f]] = User /\ fs'[Loc[f]] # User /\ edits' = edits =>
      /\ f \in Protected => "purge" \in flags \/ look.seen # User
      /\ hash[f] # NoEntry /\ hash[f].pkg = Overlay
           => \E g \in Path \ {f} : Loc[g] = Loc[f]

\* No step but an edit changes a file of the administrator, other than LocalChangesKept says.
LEMMA KeepsStep ==
  ASSUME TypeOK, FrameInv, OverlayInv, LookInv, [Next]_vars
  PROVE  KeepsLocal
<1> SUFFICES ASSUME NEW f \in Path, fs[Loc[f]] = User, fs'[Loc[f]] # User, edits' = edits
             PROVE  /\ f \in Protected => "purge" \in flags \/ look.seen # User
                    /\ hash[f] # NoEntry /\ hash[f].pkg = Overlay
                         => \E g \in Path \ {f} : Loc[g] = Loc[f]
  BY Zenon DEF KeepsLocal
<1>0. Loc[f] \in Location
  BY Zenon DEF Location
<1>1. ASSUME NEW s \in Changesets, NEW o \in OverlaySets, NEW fl \in FlagSets, Open(s, o, fl)
      PROVE  FALSE
  BY <1>0, <1>1, Zenon DEF Open
<1>2. ASSUME NEW l \in Location, NEW d \in {User, Gone}, Edit(l, d) PROVE FALSE
  BY <1>2 DEF Edit
<1>3. ASSUME NEW e \in todo, NEW fault \in BOOLEAN, MigrateFile(e, fault)
      PROVE  /\ f \in Protected => look.seen # User
             /\ hash[f] # NoEntry /\ hash[f].pkg = Overlay
                  => \E g \in Path \ {f} : Loc[g] = Loc[f]
  <2>1. /\ look.ctrl = "commit" /\ look.file = e /\ e.path \in Path
        /\ fs' = [fs EXCEPT ![Loc[e.path]] = tmp[TmpName(e.pkg, e.path)]]
    <3>1. fs' # fs
      BY Zenon
    <3> QED BY <1>3, <3>1, EntryType, Zenon DEF MigrateFile, FileControl, TypeOK
  <2>2. Loc[f] = Loc[e.path]
    BY <2>1, <1>0, Zenon DEF TypeOK
  <2>3. hash[e.path] # NoEntry => hash[e.path].pkg # Overlay
    BY <2>1, Zenon DEF LookInv
  <2>4. f \in Protected => look.seen # User
    BY <2>1, <2>2, AliasAssumption, Zenon DEF LookInv
  <2> QED BY <2>1, <2>2, <2>3, <2>4, Zenon
<1>4. ASSUME NEW e \in todo, PurgeFile(e)
      PROVE  /\ f \in Protected => "purge" \in flags \/ look.seen # User
             /\ ~(hash[f] # NoEntry /\ hash[f].pkg = Overlay)
  <2>1. /\ pc = "purge" /\ look.ctrl = "delete" /\ look.file = e /\ e.path \in Path
        /\ fs' = [fs EXCEPT ![Loc[e.path]] = Absent]
    <3>1. fs' # fs
      BY Zenon
    <3> QED BY <1>4, <3>1, EntryType, Zenon DEF PurgeFile, TypeOK
  <2>2. Loc[f] = Loc[e.path]
    BY <2>1, <1>0, Zenon DEF TypeOK
  <2>3. idx \in DOMAIN plan /\ Old # None
    BY <2>1, ChangeAtHand, SeqIndices DEF FrameInv, Between, TypeOK, Owner
  <2>4. f \in Protected => "purge" \in flags \/ look.seen # User
    BY <2>1, <2>2, AliasAssumption, Zenon DEF LookInv
  <2> QED BY <2>3, <2>4, Zenon DEF OverlayInv, Old
<1>5. ASSUME UNCHANGED fs PROVE FALSE
  BY <1>5, Zenon
<1>6. CASE Next
  <2>1. ASSUME \/ StartChange \/ UnpackDone \/ UnpackError \/ MigrateDone \/ PurgeDone
               \/ WriteConfig \/ Crash \/ (\E g \in Path : SkipFile(g) \/ Segv(g))
               \/ LookAgain \/ (\E e \in todo : LookAtFile(e) \/ LookAtOldFile(e))
               \/ \E g \in Path, out \in {"ok", "extract", "special"} : ExtractFile(g, out)
        PROVE  UNCHANGED fs
    BY <2>1, Zenon DEF StartChange, UnpackDone, UnpackError, MigrateDone, PurgeDone, WriteConfig, Crash,
                SkipFile, Segv, Die, ExtractFile, LookAgain, LookAtFile, LookAtOldFile
  <2> QED BY <1>1, <1>2, <1>3, <1>4, <1>5, <1>6, <2>1, Zenon DEF Next
<1>7. CASE UNCHANGED vars
  BY <1>5, <1>7, Zenon DEF vars
<1> QED BY <1>6, <1>7, Zenon

\* No run of apk without --purge, whatever it installs, reinstalls, upgrades or purges, and wherever
\* it fails or is interrupted, replaces or deletes a file of a protected directory that was the
\* administrator's when apk_db_audit_file looked at it: what is lost is what came between that look
\* and the rename or unlink.  None overwrites a file of the overlay under its own name.
THEOREM LocalChangesSafe == Spec => LocalChangesKept
<1>1. Init => OverlayInv /\ LookInv
  <2> SUFFICES ASSUME Init PROVE OverlayInv /\ LookInv
    BY Zenon
  <2>1. DOMAIN plan = {} /\ pc = "idle" /\ pkgs = disk.pkgs /\ disk.files = {} /\ look = NoLook
    BY DEF Init, EmptyDb
  <2> QED BY <2>1, NoLookType, Zenon DEF OverlayInv, LookInv
<1>2. TypeOK /\ FrameInv /\ OverlayInv /\ LookInv /\ [Next]_vars => OverlayInv' /\ LookInv'
  BY OverlayStep, LookStep, Zenon
<1>3. TypeOK /\ FrameInv /\ OverlayInv /\ LookInv /\ [Next]_vars => [KeepsLocal]_vars
  BY KeepsStep, Zenon
<1>4. LocalChangesKept <=> [][KeepsLocal]_vars
  BY Zenon DEF LocalChangesKept, KeepsLocal
<1> QED BY <1>1, <1>2, <1>3, <1>4, TypeCorrect, PTL DEF Spec
=============================================================================
