------------------------------ MODULE ApkInstall ------------------------------
(* The file transaction of apk: what apk_db_install_pkg of                    *)
(* apk-tools/src/database.c does to the files of the root file system, to the *)
(* ownership records of the installed database and to the temporary names     *)
(* that fs_fsys.c extracts to, for every change of a changeset, with the      *)
(* administrator's edits, failing extractions and renames, and a crash        *)
(* between any two steps.                                                     *)
(*                                                                            *)
(* The content of a file is a member of Data.  A path names a location of the *)
(* disk; two paths name the same one when a directory is a symbolic link (the *)
(* merged /usr).  Directories themselves are the subject of ApkDirs.          *)
EXTENDS Integers, FiniteSets, Sequences

CONSTANTS
  Pkg,            \* package versions, as in a repository index
  Path,           \* file names, relative to the root directory
  NameOf,         \* [Pkg -> names]: pkg->name
  Origin,         \* [Pkg -> origins]: pkg->origin, NoOrigin when it is empty
  Ships,          \* [Pkg -> SUBSET Path]: the files of the archive
  Content,        \* [Pkg -> [Path -> Data]]: their content
  Data,           \* contents files of packages can have
  Prio,           \* [Pkg -> [Pkg -> Int]]: replaces_priority if the first names the
                  \* second in its "replaces", else -1
  Loc,            \* [Path -> locations]
  Protected,      \* paths whose directory has a protect_mode
  FlagSets,       \* the sets of command line flags to consider
  OverlaySets,    \* the sets of paths that --overlay-from-stdin may list
  Reinstalls,     \* whether changesets may reinstall ("apk fix")
  FaultKinds,     \* what may fail: "archive", "extract", "special", "commit", "apknew"
  Retry,          \* whether an interrupted changeset is the next one to be run
  MaxChanges, MaxCommits, MaxEdits, MaxFaults, MaxCrashes,  \* bounds
  None, NoOrigin, Overlay, NoEntry, Absent, Gone, User

Names == {NameOf[p] : p \in Pkg}
Location == {Loc[f] : f \in Path}
Flags == {"purge", "clean_protected", "force_overwrite"}
Owner == Pkg \cup {Overlay}

ASSUME ConstantsAssumption ==
  /\ IsFiniteSet(Path)
  /\ Ships \in [Pkg -> SUBSET Path]
  /\ Content \in [Pkg -> [Path -> Data]]
  /\ Prio \in [Pkg -> [Pkg -> Int]]
  /\ Protected \subseteq Path
  /\ FlagSets \subseteq SUBSET Flags
  /\ OverlaySets \subseteq SUBSET Path
  /\ {Reinstalls, Retry} \subseteq BOOLEAN
  /\ {MaxChanges, MaxCommits, MaxEdits, MaxFaults, MaxCrashes} \subseteq Nat
  /\ {None, Overlay} \cap Pkg = {} /\ None # Overlay
  /\ {Absent, Gone, User} \cap Data = {} /\ Absent # Gone /\ User \notin {Absent, Gone}

\* A protected name and its alias are in directories with the same protection.
ASSUME AliasAssumption ==
  \A f, g \in Path : Loc[f] = Loc[g] => (f \in Protected <=> g \in Protected)

(* An entry is a struct apk_db_file.  gen tells the one a reinstallation adds *)
(* from the one the database had.                                             *)
Entry == [pkg : Owner, path : Path, gen : {0, 1}]
Change == [old : Pkg \cup {None}, new : Pkg \cup {None}]

ASSUME NoEntryAssumption == NoEntry \notin Entry

VARIABLES
  fs,          \* [Location -> Data, User, Absent or Gone (removed by the administrator)]
  apknew,      \* [Location -> Data or Absent]: the file with the .apk-new suffix
  tmp,         \* [Names \X Path -> Data or Absent]: files under .apk.<digest> names
  disk,        \* the installed database in lib/apk/db
  pkgs,        \* packages with an ipkg
  files,       \* [Owner -> SUBSET Entry]: the files arrays of the directory instances
  hash,        \* [Path -> Entry or NoEntry]: db->installed.files
  digest,      \* entries with a digest
  broken,      \* entries with file->broken
  audited,     \* entries with file->audited
  brokenFiles, \* packages with ipkg->broken_files
  removing,    \* packages with ipkg->to_be_removed
  stats,       \* db->installed.stats.files
  plan, idx,   \* changeset->changes and the change at hand
  pc,          \* the step of apk_db_install_pkg
  archive,     \* files of the archive that are still to be read
  todo,        \* entries the migrating or purging loop has left
  look,        \* [file: the entry the loop is at, ctrl: what is to become of its file,
               \* seen: the content of the file when that was decided]
  fileids,     \* locations recorded for the upgrade at hand
  flags,       \* command line flags
  redo,        \* changeset a crash interrupted
  touched,     \* locations the administrator changed
  commits, edits, faults, crashes

memory == <<pkgs, files, hash, digest, broken, audited, brokenFiles, stats>>
ghosts == <<touched, edits, commits>>
vars == <<fs, apknew, tmp, disk, memory, removing, plan, idx, pc, archive, todo,
          look, fileids, flags, redo, faults, crashes, ghosts>>

----------------------------------------------------------------------------
Present(l) == fs[l] \notin {Absent, Gone}

\* apk_db_audit_file() = 0: the file is missing or has the digest of the entry.
Clean(f, e) ==
  \/ ~Present(Loc[f])
  \/ e # NoEntry /\ e \in digest /\ fs[Loc[f]] = Content[e.pkg][f]

\* apk_pkg_replaces_file(a, b): may a file of package a be taken over by b?
ReplacesFile(a, b) ==
  CASE a = Overlay                        -> "yes"
    [] a # Overlay /\ NameOf[a] = NameOf[b] -> "yes"
    [] OTHER ->
         IF a \in removing THEN "yes"
         ELSE IF b \in removing THEN "no"
         ELSE IF Prio[a][b] > Prio[b][a] THEN "no"
         ELSE IF Prio[b][a] >= 0 THEN "yes"
         ELSE IF Origin[a] # NoOrigin /\ Origin[a] = Origin[b] THEN "yes"
         ELSE "conflict"

\* apk_db_fdb_write of all installed packages: entries marked audited are left out.
Written ==
  LET live == {e \in UNION {files[p] : p \in pkgs} : e \notin audited}
  IN [pkgs   |-> pkgs,
      files  |-> {[e EXCEPT !.gen = 0] : e \in live},
      digest |-> {[e EXCEPT !.gen = 0] : e \in live \cap digest},
      broken |-> brokenFiles \cap pkgs]

\* What apk_db_open has in memory after it read the overlay list and database d.
Load(d, overlay) ==
  LET over  == {[pkg |-> Overlay, path |-> f, gen |-> 0] : f \in overlay}
      all   == d.files \cup over
  IN /\ pkgs' = d.pkgs
     /\ files' = [o \in Owner |-> {e \in all : e.pkg = o}]
     /\ hash' = [f \in Path |-> IF \E e \in all : e.path = f
                                THEN CHOOSE e \in all : e.path = f ELSE NoEntry]
     /\ digest' = d.digest
     /\ broken' = {}
     /\ audited' = {}
     /\ brokenFiles' = d.broken
     /\ stats' = Cardinality({e.path : e \in all})

\* The changes a solver can ask for: install, purge, upgrade (or downgrade), reinstall.
Changes ==
  {c \in Change :
     /\ c.old # None \/ c.new # None
     /\ c.old # None => c.old \in pkgs
     /\ c.old = None => \A p \in pkgs : NameOf[p] # NameOf[c.new]
     /\ c.old # None /\ c.new # None => NameOf[c.old] = NameOf[c.new]
     /\ c.old = c.new => Reinstalls}

NameOfChange(c) == NameOf[IF c.new # None THEN c.new ELSE c.old]

Changesets ==
  {s \in UNION {[1..n -> Changes] : n \in 1..MaxChanges} :
     \A i, j \in DOMAIN s : i # j => NameOfChange(s[i]) # NameOfChange(s[j])}

NoLook == [file |-> NoEntry, ctrl |-> "none", seen |-> Absent]
EmptyDb == [pkgs |-> {}, files |-> {}, digest |-> {}, broken |-> {}]

Init ==
  /\ fs = [l \in Location |-> Absent]
  /\ apknew = [l \in Location |-> Absent]
  /\ tmp = [x \in Names \X Path |-> Absent]
  /\ disk = EmptyDb
  /\ pkgs = {} /\ files = [o \in Owner |-> {}] /\ hash = [f \in Path |-> NoEntry]
  /\ digest = {} /\ broken = {} /\ audited = {} /\ brokenFiles = {} /\ stats = 0
  /\ removing = {} /\ plan = <<>> /\ idx = 0 /\ pc = "idle" /\ archive = {} /\ todo = {}
  /\ look = NoLook /\ fileids = {} /\ flags = {} /\ redo = <<>> /\ touched = {}
  /\ commits = 0 /\ edits = 0 /\ faults = 0 /\ crashes = 0

Old == plan[idx].old
New == plan[idx].new
TmpName(p, f) == <<NameOf[p], f>>

----------------------------------------------------------------------------
(* One apk run: apk_db_open, apk_solver_commit_changeset, apk_db_close.       *)

\* The overlay list is only given to a root without packages (the initramfs).
Open(s, overlay, f) ==
  /\ pc = "idle" /\ commits < MaxCommits
  /\ redo # <<>> => s = redo
  /\ overlay # {} => disk.pkgs = {}
  /\ Load(disk, overlay)
  /\ fs' = [l \in Location |-> IF \E g \in overlay : Loc[g] = l THEN User ELSE fs[l]]
  /\ touched' = touched \cup {Loc[g] : g \in overlay}
  /\ removing' = {s[i].old : i \in {j \in DOMAIN s : s[j].old # s[j].new}} \ {None}
  /\ plan' = s /\ idx' = 1 /\ pc' = "change" /\ flags' = f
  /\ redo' = <<>> /\ commits' = commits + 1
  /\ UNCHANGED <<apknew, tmp, disk, archive, todo, look, fileids, edits, faults, crashes>>

StartChange ==
  /\ pc = "change" /\ idx <= Len(plan)
  /\ IF New = None
     THEN /\ pc' = "purge" /\ todo' = files[Old] \ audited
          /\ UNCHANGED <<pkgs, brokenFiles, archive>>
     ELSE /\ pkgs' = pkgs \cup {New}
          /\ brokenFiles' = brokenFiles \ {New}
          /\ pc' = IF Ships[New] = {} THEN "migrated" ELSE "unpack"
          /\ archive' = Ships[New]
          /\ UNCHANGED todo
  /\ UNCHANGED <<fs, apknew, tmp, disk, files, hash, digest, broken, audited, stats,
                 removing, plan, idx, look, fileids, flags, redo, faults, crashes, ghosts>>

\* An owner whose ipkg is gone: apk_pkg_replaces_file would read through NULL.
DeadOwner(f) ==
  /\ hash[f] # NoEntry
  /\ hash[f].pkg \notin pkgs \cup {Overlay}
  /\ NameOf[hash[f].pkg] # NameOf[New]

Verdict(f) == IF hash[f] = NoEntry THEN "yes" ELSE ReplacesFile(hash[f].pkg, New)

FileOf(f) ==
  IF hash[f] # NoEntry /\ hash[f].pkg = New
  THEN hash[f]
  ELSE [pkg |-> New, path |-> f, gen |-> IF Old = New THEN 1 ELSE 0]

\* apk_db_install_file for an entry whose path stays with its present owner.
SkipFile(f) ==
  /\ pc = "unpack" /\ f \in archive /\ ~DeadOwner(f)
  /\ \/ Verdict(f) = "no" /\ UNCHANGED brokenFiles
     \/ /\ Verdict(f) = "conflict" /\ "force_overwrite" \notin flags
        /\ brokenFiles' = brokenFiles \cup {New}
  /\ archive' = archive \ {f}
  /\ UNCHANGED <<fs, apknew, tmp, disk, pkgs, files, hash, digest, broken, audited,
                 stats, removing, plan, idx, pc, todo, look, fileids, flags, redo, faults,
                 crashes, ghosts>>

\* ... and for one that is extracted, under its temporary name.
ExtractFile(f, out) ==
  LET e == FileOf(f) IN
  /\ pc = "unpack" /\ f \in archive /\ ~DeadOwner(f)
  /\ \/ Verdict(f) = "yes"
     \/ Verdict(f) = "conflict" /\ "force_overwrite" \in flags
  /\ out # "ok" => out \in FaultKinds /\ faults < MaxFaults
  /\ files' = [files EXCEPT ![New] = @ \cup {e}]
  /\ tmp' = [tmp EXCEPT ![TmpName(New, f)] = IF out = "ok" THEN Content[New][f] ELSE Absent]
  /\ digest' = IF out = "ok" THEN digest \cup {e} ELSE digest
  /\ broken' = IF out = "ok" THEN broken ELSE broken \cup {e}
  /\ brokenFiles' = IF out = "extract" THEN brokenFiles \cup {New} ELSE brokenFiles
  /\ faults' = IF out = "ok" THEN faults ELSE faults + 1
  /\ archive' = archive \ {f}
  /\ UNCHANGED <<fs, apknew, disk, pkgs, hash, audited, stats, removing, plan, idx, pc, todo,
                 look, fileids, flags, redo, crashes, ghosts>>

UnpackDone ==
  /\ pc = "unpack" /\ archive = {}
  /\ pc' = "migrate" /\ todo' = files[New]
  /\ UNCHANGED <<fs, apknew, tmp, disk, memory, removing, plan, idx, archive, look, fileids, flags,
                 redo, faults, crashes, ghosts>>

Forget(p) ==
  /\ pkgs' = pkgs \ {p}
  /\ files' = [files EXCEPT ![p] = {}]
  /\ brokenFiles' = brokenFiles \ {p}
  /\ removing' = removing \ {p}

NextChange ==
  /\ idx' = idx + 1 /\ pc' = "change"
  /\ archive' = {} /\ todo' = {} /\ fileids' = {}

\* apk_db_purge_pkg of the package that failed to install, with APK_FS_CTRL_CANCEL.
Cancelled ==
  [x \in DOMAIN tmp |->
     IF \E e \in files[New] \ audited : x = TmpName(New, e.path) THEN Absent ELSE tmp[x]]

(* apk_extract fails: the archive cannot be read, its identity is wrong, or   *)
(* the disk is full.  The temporary files are cancelled by apk_db_purge_pkg,  *)
(* unless the package is being reinstalled.                                   *)
UnpackError ==
  /\ pc = "unpack" /\ "archive" \in FaultKinds /\ faults < MaxFaults
  /\ tmp' = IF Old = New THEN tmp ELSE Cancelled
  /\ Forget(New)
  /\ NextChange
  /\ faults' = faults + 1
  /\ UNCHANGED <<fs, apknew, disk, hash, digest, broken, audited, stats, plan,
                 look, flags, redo, crashes, ghosts>>

----------------------------------------------------------------------------
(* apk_db_migrate_files_for_priority: one file.                               *)

\* Faulty variant: a file without an entry in the database counts as unchanged.
ControlUnknown(e) ==
  LET of == hash[e.path] IN
  IF e \in broken THEN "none"
  ELSE IF of = NoEntry THEN "commit"
  ELSE IF of.pkg = Overlay THEN "cancel"
  ELSE IF e.path \in Protected /\ ~Clean(e.path, of) THEN "differs" ELSE "commit"

\* What is to become of the extracted file; "differs" asks for a second look.
Control(e) ==
  LET of == hash[e.path] IN
  CASE e \in broken                                             -> "none"
    [] e \notin broken /\ of # NoEntry /\ of.pkg = Overlay      -> "cancel"
    [] e \notin broken /\ (of # NoEntry => of.pkg # Overlay) ->
         IF e.path \in Protected /\ ~Clean(e.path, of) THEN "differs" ELSE "commit"

\* Faulty variant: a file that already is the new one counts as changed.
ControlDifferingOnce(e) == IF "clean_protected" \in flags THEN "cancel" ELSE "apknew"

\* ... of a file of a protected directory that is not the one the database knows.
ControlDiffering(e) ==
  IF "clean_protected" \in flags \/ Clean(e.path, e) THEN "cancel" ELSE "apknew"

\* The loop comes to an entry: the owner of its path is looked up, and a protected file is audited.
LookAtFile(e) ==
  /\ pc = "migrate" /\ e \in todo /\ look = NoLook
  /\ look' = [file |-> e, ctrl |-> Control(e), seen |-> fs[Loc[e.path]]]
  /\ UNCHANGED <<fs, apknew, tmp, disk, memory, removing, plan, idx, pc, archive, todo, fileids,
                 flags, redo, faults, crashes, ghosts>>

\* The second audit, against the new entry.
LookAgain ==
  /\ pc = "migrate" /\ look.ctrl = "differs"
  /\ look' = [look EXCEPT !.ctrl = ControlDiffering(look.file)]
  /\ UNCHANGED <<fs, apknew, tmp, disk, memory, removing, plan, idx, pc, archive, todo, fileids,
                 flags, redo, faults, crashes, ghosts>>

\* apk_fsdir_file_control, which fails without a temporary file or by a fault of the disk.
FileControl(e, ctrl, ok) ==
  LET x == TmpName(e.pkg, e.path)
      l == Loc[e.path]
  IN /\ fs' = IF ctrl = "commit" /\ ok THEN [fs EXCEPT ![l] = tmp[x]] ELSE fs
     /\ apknew' = IF ctrl = "apknew" /\ ok THEN [apknew EXCEPT ![l] = tmp[x]] ELSE apknew
     /\ tmp' = IF ctrl = "none" \/ (ctrl = "apknew" /\ ~ok) THEN tmp
               ELSE [tmp EXCEPT ![x] = Absent]

\* Faulty variant: the entry that lost its path is not marked.
MarkedNone(of, e) == audited
Marked(of, e) == IF of \in {e, NoEntry} THEN audited ELSE audited \cup {of}
Counted(of) == IF of = NoEntry THEN stats + 1 ELSE stats

\* The file is moved to its name, or not, and its path changes hands.
MigrateFile(e, fault) ==
  LET ctrl == look.ctrl
      ok   == ~fault /\ (ctrl # "none" => tmp[TmpName(e.pkg, e.path)] # Absent)
      of   == hash[e.path]
  IN
  /\ pc = "migrate" /\ e \in todo /\ look.file = e /\ ctrl # "differs"
  /\ fault => ctrl \in FaultKinds /\ faults < MaxFaults
  /\ FileControl(e, ctrl, ok)
  /\ brokenFiles' = IF ok THEN brokenFiles ELSE brokenFiles \cup {New}
  /\ faults' = IF fault THEN faults + 1 ELSE faults
  /\ hash' = [hash EXCEPT ![e.path] = e]
  /\ audited' = Marked(of, e)
  /\ stats' = Counted(of)
  /\ fileids' = IF of = NoEntry /\ Old # None /\ fs'[Loc[e.path]] \notin {Absent, Gone}
                THEN fileids \cup {Loc[e.path]} ELSE fileids
  /\ todo' = todo \ {e} /\ look' = NoLook
  /\ UNCHANGED <<disk, pkgs, files, digest, broken, removing, plan, idx, pc, archive, flags,
                 redo, crashes, ghosts>>

\* After migration: the old version is purged, or the change is done.
MigrateDone ==
  /\ \/ pc = "migrate" /\ todo = {}
     \/ pc = "migrated"
  /\ IF Old \notin {None, New}
     THEN /\ pc' = "purge" /\ todo' = files[Old] \ audited
          /\ UNCHANGED <<idx, archive, fileids>>
     ELSE NextChange
  /\ UNCHANGED <<fs, apknew, tmp, disk, memory, removing, plan, look, flags, redo, faults,
                 crashes, ghosts>>

----------------------------------------------------------------------------
(* apk_db_purge_pkg of an installed package: one file, and the end.           *)

DirClean(f) == "purge" \in flags \/ f \notin Protected
\* The file is one the new version has put there, under another name.
Moved(e) == Present(Loc[e.path]) /\ Loc[e.path] \in fileids
\* Faulty variant: the new version may have the file under another name.
DeletesByName(e) == DirClean(e.path) \/ Clean(e.path, e)
Deletes(e) == ~Moved(e) /\ (DirClean(e.path) \/ Clean(e.path, e))

\* Whether the file is to be deleted, which for a protected one takes an audit ...
LookAtOldFile(e) ==
  /\ pc = "purge" /\ e \in todo /\ look = NoLook
  /\ look' = [file |-> e, ctrl |-> IF Deletes(e) THEN "delete" ELSE "none", seen |-> fs[Loc[e.path]]]
  /\ UNCHANGED <<fs, apknew, tmp, disk, memory, removing, plan, idx, pc, archive, todo, fileids,
                 flags, redo, faults, crashes, ghosts>>

\* ... and then, whatever became of it since, its deletion.
PurgeFile(e) ==
  LET l == Loc[e.path] IN
  /\ pc = "purge" /\ e \in todo /\ look.file = e
  /\ fs' = IF look.ctrl = "delete" /\ Present(l) THEN [fs EXCEPT ![l] = Absent] ELSE fs
  /\ apknew' = IF e.path \in Protected THEN [apknew EXCEPT ![l] = Absent] ELSE apknew
  /\ hash' = [hash EXCEPT ![e.path] = NoEntry]
  /\ stats' = stats - 1
  /\ todo' = todo \ {e} /\ look' = NoLook
  /\ UNCHANGED <<tmp, disk, pkgs, files, digest, broken, audited, brokenFiles, removing,
                 plan, idx, pc, archive, fileids, flags, redo, faults, crashes, ghosts>>

PurgeDone ==
  /\ pc = "purge" /\ todo = {}
  /\ Forget(Old)
  /\ NextChange
  /\ UNCHANGED <<fs, apknew, tmp, disk, hash, digest, broken, audited, stats, plan, look,
                 flags, redo, faults, crashes, ghosts>>

\* The process ends; the next one starts from the database that is on disk.
Restart(d) ==
  /\ Load(d, {})
  /\ plan' = <<>> /\ idx' = 0 /\ pc' = "idle" /\ archive' = {} /\ todo' = {} /\ fileids' = {}
  /\ removing' = {} /\ flags' = {} /\ look' = NoLook

\* apk_db_write_config (the file "installed" is replaced by a rename), apk_db_close.
WriteConfig ==
  /\ pc = "change" /\ idx > Len(plan)
  /\ disk' = Written
  /\ Restart(Written)
  /\ UNCHANGED <<fs, apknew, tmp, redo, faults, crashes, ghosts>>

Die ==
  /\ Restart(disk)
  /\ redo' = IF Retry THEN plan ELSE <<>>
  /\ UNCHANGED <<fs, apknew, tmp, disk, faults, ghosts>>

Crash ==
  /\ pc # "idle" /\ crashes < MaxCrashes
  /\ Die
  /\ crashes' = crashes + 1

Segv(f) ==
  /\ pc = "unpack" /\ f \in archive /\ DeadOwner(f)
  /\ Die
  /\ UNCHANGED crashes

\* The administrator, or a script, writes or removes a file.
Edit(l, d) ==
  /\ edits < MaxEdits
  /\ d = Gone => Present(l)
  /\ fs' = [fs EXCEPT ![l] = d]
  /\ touched' = touched \cup {l}
  /\ edits' = edits + 1
  /\ UNCHANGED <<apknew, tmp, disk, memory, removing, plan, idx, pc, archive, todo, look,
                 fileids, flags, redo, faults, crashes, commits>>

Next ==
  \/ pc = "idle" /\ \E s \in Changesets, o \in OverlaySets, f \in FlagSets : Open(s, o, f)
  \/ StartChange
  \/ \E f \in Path : SkipFile(f) \/ Segv(f)
  \/ \E f \in Path, out \in {"ok", "extract", "special"} : ExtractFile(f, out)
  \/ UnpackDone
  \/ UnpackError
  \/ \E e \in todo : LookAtFile(e) \/ LookAtOldFile(e)
  \/ LookAgain
  \/ \E e \in todo, fault \in BOOLEAN : MigrateFile(e, fault)
  \/ MigrateDone
  \/ \E e \in todo : PurgeFile(e)
  \/ PurgeDone
  \/ WriteConfig
  \/ Crash
  \/ \E l \in Location, d \in {User, Gone} : Edit(l, d)

Spec == Init /\ [][Next]_vars

----------------------------------------------------------------------------
FileState == Data \cup {User, Absent, Gone}
Database ==
  [pkgs : SUBSET Pkg, files : SUBSET Entry, digest : SUBSET Entry, broken : SUBSET Pkg]

\* The types of the variables.
TypeOK ==
  /\ fs \in [Location -> FileState]
  /\ apknew \in [Location -> Data \cup {Absent}]
  /\ tmp \in [Names \X Path -> Data \cup {Absent}]
  /\ disk \in Database
  /\ pkgs \subseteq Pkg /\ removing \subseteq Pkg /\ brokenFiles \subseteq Pkg
  /\ files \in [Owner -> SUBSET Entry]
  /\ hash \in [Path -> Entry \cup {NoEntry}]
  /\ digest \subseteq Entry /\ broken \subseteq Entry /\ audited \subseteq Entry
  /\ stats \in Int
  /\ plan \in Seq(Change) /\ idx \in Nat /\ redo \in Seq(Change)
  /\ pc \in {"idle", "change", "unpack", "migrate", "migrated", "purge"}
  /\ archive \subseteq Path /\ todo \subseteq Entry
  /\ fileids \subseteq Location /\ touched \subseteq Location
  /\ flags \in FlagSets \cup {{}}
  /\ look \in [file : Entry \cup {NoEntry}, seen : FileState,
              ctrl : {"none", "cancel", "differs", "commit", "apknew", "delete"}]

(* Every path of db->installed.files belongs to an entry of an installed      *)
(* package (or of the overlay) that was not taken over by another, and        *)
(* between two changes every such entry is the owner of its path: whatever    *)
(* packages replace, upgrade, fail or are removed, ownership is neither lost  *)
(* nor shared.  The count of installed files that apk reports is that of the  *)
(* owned paths.                                                               *)
Ownership ==
  /\ \A f \in Path : hash[f] # NoEntry =>
       /\ hash[f].path = f
       /\ hash[f] \in files[hash[f].pkg] \ audited
       /\ hash[f].pkg \in pkgs \cup {Overlay}
  /\ pc \in {"idle", "change"} =>
       \A p \in pkgs : \A e \in files[p] \ audited : hash[e.path] = e
  /\ stats = Cardinality({f \in Path : hash[f] # NoEntry})

(* When no run is in progress, every file of an installed package that was    *)
(* extracted is on disk unless the administrator removed it: purging the old  *)
(* version, or another package, never deletes a file that is still owned.     *)
(* ipkg->broken_files excuses the package; a file that the administrator      *)
(* removes and puts back while apk looks at it may be deleted by its old name.*)
OwnedFilesPresent ==
  pc = "idle" /\ redo = <<>> =>
    \A f \in Path :
      hash[f] # NoEntry /\ hash[f].pkg \notin brokenFiles /\ hash[f] \in digest
        => fs[Loc[f]] # Absent \/ (Loc[f] \in touched /\ edits > 1)

(* A run leaves no temporary .apk.* file behind, even when packages fail to   *)
(* install (unless one that fails was being reinstalled); after a crash, the  *)
(* run that repeats the changeset removes them.                               *)
NoTemporaryLeft ==
  pc = "idle" /\ redo = <<>> /\ (faults = 0 \/ (crashes = 0 /\ ~Reinstalls)) =>
    \A x \in DOMAIN tmp : tmp[x] = Absent

(* No run of apk without --purge changes or deletes a file of a protected     *)
(* directory that the administrator changed, unless the change was not yet    *)
(* there when apk looked at the file: it may come between apk_db_audit_file   *)
(* and the rename or the unlink, and is then lost.  No run overwrites a file  *)
(* that the overlay holds, unless it has a second name by which a package     *)
(* brings it.                                                                 *)
LocalChangesKept ==
  [][\A f \in Path :
       fs[Loc[f]] = User /\ fs'[Loc[f]] # User /\ edits' = edits =>
         /\ f \in Protected => "purge" \in flags \/ look.seen # User
         /\ hash[f] # NoEntry /\ hash[f].pkg = Overlay
              => \E g \in Path \ {f} : Loc[g] = Loc[f]]_vars

(* A .apk-new file appears only beside a file the administrator changed: an   *)
(* interrupted upgrade that is run again does not mistake the files it had    *)
(* already replaced for local changes, unless the repetition fails.           *)
ApkNewOnlyForChanges ==
  faults = 0 => \A l \in Location : apknew[l] # Absent => l \in touched

\* What a run leaves beside the files it installed: no temporary file, and a .apk-new file only
\* where the administrator had changed something.
NoLitter == NoTemporaryLeft /\ ApkNewOnlyForChanges
=============================================================================
