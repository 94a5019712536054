-------------------------------- MODULE ApkDb --------------------------------
(* Write transactions of apk-tools: several apk processes (apk add, del,      *)
(* upgrade) open the database of one root, each under the flock of            *)
(* lib/apk/db/lock, read it, commit a changeset and write it back             *)
(* (apk-tools/src/database.c, commit.c, apk.c, app_add.c, app_del.c,          *)
(* app_upgrade.c).  What happens inside apk_db_install_pkg is the subject of  *)
(* ApkInstall and ApkDirs; here a package is its name and version, and the    *)
(* solver is the function Solution.                                           *)
EXTENDS Integers, FiniteSets

CONSTANTS
  Proc,        \* apk processes
  Creator,     \* the ones started with --initdb (APK_OPENF_CREATE)
  Waiter,      \* the ones started with --wait
  Nested,      \* the ones a package script or commit hook may start
  Name, Self,  \* package names; the one that owns the apk binary
  Needs,       \* [Name -> SUBSET Name]: the name and its dependencies
  Avail,       \* [Name -> 1..MaxVer]: the version the repositories offer
  MaxVer,
  Worlds,      \* worlds to start from
  Commands,    \* [Proc -> the requests it may be started with]
  Fresh,       \* whether the root may start without lib/apk/db
  InitdbAlone, \* whether --initdb is only used while no other apk runs
  MaxFaults, MaxCrashes,
  None

Request == [op : {"add", "del"}, name : Name] \cup {[op |-> "upgrade", name |-> Self]}

ASSUME ConstantsAssumption ==
  /\ Creator \subseteq Proc /\ Waiter \subseteq Proc /\ Nested \subseteq Proc
  /\ None \notin Proc /\ Self \in Name /\ Fresh \in BOOLEAN /\ InitdbAlone \in BOOLEAN
  /\ MaxVer \in Nat /\ Avail \in [Name -> 1..MaxVer]
  /\ Needs \in [Name -> SUBSET Name] /\ \A n \in Name : n \in Needs[n]
  /\ Worlds \subseteq SUBSET Name /\ Commands \in [Proc -> SUBSET Request]
  /\ MaxFaults \in Nat /\ MaxCrashes \in Nat

VARIABLES
  dbdir,      \* lib/apk/db exists
  lock,       \* the process that holds the flock, or None
  hasWorld,   \* etc/apk/world exists
  worldF,     \* its contents
  installedF, brokenF,     \* installed: versions (0: none), and the broken flags
  scriptsF, triggersF,     \* scripts.tar.gz and triggers: versions of their entries
  fs,         \* [Name -> version whose files are in the root, or 0]
  pc, req,
  err,        \* processes that counted an error
  world, installed, broken, scripts, triggers,   \* the same in memory, per process
  todo,       \* [Proc -> names the changeset has left to change]
  resumed,    \* processes re-executed after a preupgrade
  pre,        \* processes whose commit is a preupgrade
  child,      \* [Proc -> the process its script started, or None]
  late,       \* processes whose SIGALRM came before they called flock
  masked,     \* --initdb processes that found no world to read
  damaged,    \* whether a file of the database could not be written, or was
              \* unreadable and passed for a shorter one
  faults, crashes

disk == <<worldF, installedF, brokenF, scriptsF, triggersF>>
Storage == <<dbdir, hasWorld, disk, fs>>
mem == <<world, installed, broken, scripts, triggers, todo>>
locals == <<req, resumed, pre, child, late, masked, damaged>>
vars == <<Storage, lock, pc, mem, err, locals, faults, crashes>>

Ver == 0..MaxVer
Absent == [n \in Name |-> 0]

Locking == {"lock", "armed", "flock"}
Reading == {"world", "installed", "triggers", "scripts"}
Changing == {"solve", "apply", "fire"}
Writing == {"config", "wWorld", "wInstalled", "wScripts", "wTriggers"}
Holding == Reading \cup Changing \cup Writing \cup {"hooks", "close"}
PC == {"start"} \cup Locking \cup Holding \cup {"done"}

\* The names the solver installs for a world, and the version it gives one.
Solution(w) == UNION {Needs[n] : n \in w}
Target(w, n) == IF n \in Solution(w) THEN Avail[n] ELSE 0

Init ==
  /\ dbdir \in BOOLEAN /\ (dbdir \/ Fresh) /\ lock = None
  /\ hasWorld \in BOOLEAN /\ (hasWorld => dbdir) /\ (dbdir => hasWorld \/ Fresh)
  /\ \E w \in IF dbdir THEN Worlds ELSE {{}}, v \in [Name -> Ver] :
       /\ \A n \in Name : v[n] \in IF n \in Solution(w) THEN 1..Avail[n] ELSE {0}
       /\ worldF = (IF hasWorld THEN w ELSE {})
       /\ installedF = v /\ scriptsF = v /\ triggersF = v /\ fs = v
  /\ brokenF = {}
  /\ pc = [p \in Proc |-> "start"] /\ req \in [Proc -> Request]
  /\ (\A p \in Proc : req[p] \in Commands[p])
  /\ world = [p \in Proc |-> {}] /\ broken = [p \in Proc |-> {}] /\ todo = [p \in Proc |-> {}]
  /\ installed = [p \in Proc |-> Absent] /\ scripts = [p \in Proc |-> Absent]
  /\ triggers = [p \in Proc |-> Absent] /\ err = {}
  /\ resumed = {} /\ pre = {} /\ late = {} /\ masked = {} /\ child = [p \in Proc |-> None]
  /\ damaged = FALSE /\ faults = 0 /\ crashes = 0

Goto(p, l) == pc' = [pc EXCEPT ![p] = l]
Errs(p, e) == err' = IF e THEN err \cup {p} ELSE err

\* A process that runs a script waits for it (apk_process_run).
Runs(p) == child[p] # None => pc[child[p]] = "done"
RunsScripts(p) == pc[p] \in {"apply", "fire", "hooks"}

\* main: a process starts, perhaps from a script of another process.
Start(p) ==
  /\ pc[p] = "start" /\ Goto(p, "lock")
  /\ InitdbAlone =>
       \A q \in Proc \ {p} : p \in Creator \/ q \in Creator => pc[q] \in {"start", "done"}
  /\ \/ UNCHANGED child
     \/ \E q \in Proc \ {p} :
          p \in Nested /\ RunsScripts(q) /\ child[q] = None /\ child' = [child EXCEPT ![q] = p]
  /\ UNCHANGED <<Storage, lock, mem, err, req, resumed, pre, late, masked, damaged, faults, crashes>>

\* The image of the process goes, and with it its lock, if it has one.
Gone(p) ==
  /\ world' = [world EXCEPT ![p] = {}] /\ broken' = [broken EXCEPT ![p] = {}]
  /\ todo' = [todo EXCEPT ![p] = {}] /\ installed' = [installed EXCEPT ![p] = Absent]
  /\ scripts' = [scripts EXCEPT ![p] = Absent] /\ triggers' = [triggers EXCEPT ![p] = Absent]
  /\ err' = err \ {p}
  /\ lock' = IF lock = p THEN None ELSE lock
  /\ pre' = pre \ {p} /\ late' = late \ {p} /\ masked' = masked \ {p}
  /\ UNCHANGED <<Storage, req, child, damaged>>

Exit(p) == Goto(p, "done") /\ Gone(p) /\ resumed' = resumed \ {p}

(* apk_db_open: the lock. *)

\* Without lib/apk/db the lock file cannot be created: --initdb goes on unlocked.
OpenUnlocked(p) ==
  /\ pc[p] = "lock" /\ ~dbdir /\ p \in Creator
  /\ Goto(p, "world")
  /\ UNCHANGED <<Storage, lock, mem, err, locals, faults, crashes>>

AcquireAnyway(p) ==
  /\ pc[p] \in {"lock", "flock"} /\ dbdir
  /\ lock' = p /\ Goto(p, "world")
  /\ UNCHANGED <<Storage, mem, err, locals, faults, crashes>>

Acquire(p) ==
  /\ pc[p] \in {"lock", "flock"} /\ dbdir /\ lock = None
  /\ lock' = p /\ Goto(p, "world")
  /\ UNCHANGED <<Storage, mem, err, locals, faults, crashes>>

Refused(p) ==
  /\ pc[p] = "lock"
  /\ IF dbdir THEN lock # None /\ p \notin Waiter ELSE p \notin Creator
  /\ Exit(p) /\ UNCHANGED <<faults, crashes>>

SetAlarm(p) ==
  /\ pc[p] = "lock" /\ dbdir /\ lock # None /\ p \in Waiter
  /\ Goto(p, "armed")
  /\ UNCHANGED <<Storage, lock, mem, err, locals, faults, crashes>>

\* The blocking flock, which the alarm interrupts unless it came before it.
Flock(p) ==
  /\ pc[p] = "armed" /\ Goto(p, "flock")
  /\ UNCHANGED <<Storage, lock, mem, err, locals, faults, crashes>>

AlarmEarly(p) ==
  /\ pc[p] = "armed" /\ p \notin late /\ late' = late \cup {p}
  /\ UNCHANGED <<Storage, lock, pc, mem, err, req, resumed, pre, child, masked, damaged,
                 faults, crashes>>

AlarmRestarts(p) == pc[p] = "flock" /\ p \notin late /\ UNCHANGED vars

Alarm(p) ==
  /\ pc[p] = "flock" /\ p \notin late
  /\ Exit(p) /\ UNCHANGED <<faults, crashes>>

(* apk_db_read_layer: world, installed, triggers, scripts. *)

ReadWorld(p) ==
  /\ pc[p] = "world" /\ hasWorld /\ Goto(p, "installed")
  /\ world' = [world EXCEPT ![p] = worldF]
  /\ UNCHANGED <<Storage, lock, err, installed, broken, scripts, triggers, todo, locals, faults, crashes>>

\* A world that cannot be read counts as missing, whatever the reason: --initdb
\* starts from the empty world, others give up.
NoWorld(p) ==
  /\ pc[p] = "world"
  /\ IF hasWorld THEN faults < MaxFaults /\ faults' = faults + 1 ELSE UNCHANGED faults
  /\ IF p \in Creator
     THEN Goto(p, "installed") /\ masked' = masked \cup {p} /\ UNCHANGED err
     ELSE Goto(p, "close") /\ Errs(p, TRUE) /\ UNCHANGED masked
  /\ UNCHANGED <<Storage, lock, mem, req, resumed, pre, child, late, damaged, crashes>>

ReadInstalledClean(p) ==
  /\ pc[p] = "installed" /\ Goto(p, "triggers")
  /\ installed' = [installed EXCEPT ![p] = installedF]
  /\ UNCHANGED <<Storage, lock, err, world, broken, scripts, triggers, todo, locals, faults, crashes>>

ReadInstalled(p) ==
  /\ pc[p] = "installed" /\ Goto(p, "triggers")
  /\ installed' = [installed EXCEPT ![p] = installedF] /\ broken' = [broken EXCEPT ![p] = brokenF]
  /\ UNCHANGED <<Storage, lock, err, world, scripts, triggers, todo, locals, faults, crashes>>

\* An entry of triggers or scripts.tar.gz belongs to the package with its
\* checksum; the entries of packages that are not installed are dropped.
Attached(inst, f) == [n \in Name |-> IF f[n] = inst[n] THEN f[n] ELSE 0]

ReadTriggers(p) ==
  /\ pc[p] = "triggers" /\ Goto(p, "scripts")
  /\ triggers' = [triggers EXCEPT ![p] = Attached(installed[p], triggersF)]
  /\ UNCHANGED <<Storage, lock, err, world, installed, broken, scripts, todo, locals, faults, crashes>>

ReadScripts(p) ==
  /\ pc[p] = "scripts" /\ Goto(p, "solve")
  /\ scripts' = [scripts EXCEPT ![p] = Attached(installed[p], scriptsF)]
  /\ UNCHANGED <<Storage, lock, err, world, installed, broken, triggers, todo, locals, faults, crashes>>

\* Another unreadable file is fatal: the process closes the database unchanged.
ReadError(p) ==
  /\ pc[p] \in Reading \ {"world"} /\ p \notin masked
  /\ faults < MaxFaults /\ faults' = faults + 1
  /\ Goto(p, "close") /\ Errs(p, TRUE)
  /\ UNCHANGED <<Storage, lock, mem, locals, crashes>>

Part(f, S) == [n \in Name |-> IF n \in S THEN f[n] ELSE 0]
AfterRead == [installed |-> "triggers", triggers |-> "scripts", scripts |-> "solve"]

\* The error of the missing world is kept and hides this one: what was read
\* before it, the names in S, passes for the whole file.
ReadMasked(p, S) ==
  /\ pc[p] \in DOMAIN AfterRead /\ p \in masked /\ dbdir
  /\ faults < MaxFaults /\ faults' = faults + 1
  /\ Goto(p, AfterRead[pc[p]]) /\ damaged' = TRUE
  /\ installed' = IF pc[p] = "installed"
                  THEN [installed EXCEPT ![p] = Part(installedF, S)] ELSE installed
  /\ broken' = IF pc[p] = "installed" THEN [broken EXCEPT ![p] = brokenF \cap S] ELSE broken
  /\ triggers' = IF pc[p] = "triggers"
                 THEN [triggers EXCEPT ![p] = Attached(installed[p], Part(triggersF, S))] ELSE triggers
  /\ scripts' = IF pc[p] = "scripts"
                THEN [scripts EXCEPT ![p] = Attached(installed[p], Part(scriptsF, S))] ELSE scripts
  /\ UNCHANGED <<Storage, lock, err, world, todo, req, resumed, pre, child, late, masked, crashes>>

(* add_main, del_main, upgrade_main: the new world and the changeset. *)

NewWorld(w, r) == IF r.op = "add" THEN w \cup {r.name}
                  ELSE IF r.op = "del" THEN w \ {r.name} ELSE w

\* What changes when p commits the world w: packages that leave or enter the
\* solution, and of the names in newest the ones with another version on offer.
Changes(p, w, newest) ==
  {n \in Name : IF n \in newest THEN installed[p][n] # Target(w, n)
                                 ELSE (installed[p][n] = 0) # (Target(w, n) = 0)}

Solve(p) ==
  /\ pc[p] = "solve" /\ Goto(p, "apply")
  /\ LET w == NewWorld(world[p], req[p])
     IN  /\ world' = [world EXCEPT ![p] = w]
         /\ todo' = [todo EXCEPT ![p] = Changes(p, w, IF req[p].op = "upgrade" THEN Name ELSE {})]
  /\ UNCHANGED <<Storage, lock, err, installed, broken, scripts, triggers, locals, faults, crashes>>

\* apk_do_preupgrade: upgrade the package of the apk binary first, with no more
\* changes than the world needs.
Preupgrade(p) ==
  /\ pc[p] = "solve" /\ req[p].op = "upgrade" /\ p \notin resumed
  /\ installed[p][Self] \in 1..(Avail[Self] - 1) /\ Self \in Solution(world[p])
  /\ Goto(p, "apply") /\ pre' = pre \cup {p}
  /\ todo' = [todo EXCEPT ![p] = Changes(p, world[p], {Self})]
  /\ UNCHANGED <<Storage, lock, err, world, installed, broken, scripts, triggers,
                 req, resumed, child, late, masked, damaged, faults, crashes>>

\* No solution, a missing repository tag, a refused prompt, a failed download or
\* a failed pre-commit hook: nothing is committed.
Abort(p) ==
  /\ pc[p] = "solve" /\ Goto(p, "close") /\ Errs(p, TRUE)
  /\ UNCHANGED <<Storage, lock, mem, locals, faults, crashes>>

(* apk_solver_commit_changeset. *)

\* apk_db_install_pkg installs, upgrades or removes one package; bad says whether
\* a script of the package failed.
InstallPkg(p, n, bad) ==
  LET t == Target(world[p], n)
  IN  /\ installed' = [installed EXCEPT ![p][n] = t]
      /\ scripts' = [scripts EXCEPT ![p][n] = t] /\ triggers' = [triggers EXCEPT ![p][n] = t]
      /\ broken' = [broken EXCEPT ![p] = IF bad THEN @ \cup {n} ELSE @ \ {n}]
      /\ fs' = [fs EXCEPT ![n] = t]
      /\ todo' = [todo EXCEPT ![p] = @ \ {n}]
      /\ UNCHANGED <<dbdir, hasWorld, disk, lock, pc, world, locals, crashes>>

Apply(p, n) ==
  /\ pc[p] = "apply" /\ Runs(p) /\ n \in todo[p]
  /\ InstallPkg(p, n, FALSE) /\ UNCHANGED <<err, faults>>

\* The package is there, but one of its scripts failed.
ApplyScriptFails(p, n) ==
  /\ pc[p] = "apply" /\ Runs(p) /\ n \in todo[p] /\ Target(world[p], n) # 0
  /\ faults < MaxFaults /\ faults' = faults + 1
  /\ InstallPkg(p, n, TRUE) /\ Errs(p, TRUE)

ApplyFailsRecorded(p, n) ==
  /\ pc[p] = "apply" /\ Runs(p) /\ n \in todo[p] /\ Target(world[p], n) # 0
  /\ faults < MaxFaults /\ faults' = faults + 1 /\ Errs(p, TRUE)
  /\ installed' = [installed EXCEPT ![p][n] = Target(world[p], n)]
  /\ todo' = [todo EXCEPT ![p] = @ \ {n}]
  /\ UNCHANGED <<Storage, lock, pc, world, broken, scripts, triggers, locals, crashes>>

\* The archive could not be unpacked: the package that was there stays.
ApplyFails(p, n) ==
  /\ pc[p] = "apply" /\ Runs(p) /\ n \in todo[p] /\ Target(world[p], n) # 0
  /\ faults < MaxFaults /\ faults' = faults + 1 /\ Errs(p, TRUE)
  /\ todo' = [todo EXCEPT ![p] = @ \ {n}]
  /\ UNCHANGED <<Storage, lock, pc, world, installed, broken, scripts, triggers, locals, crashes>>

\* Packages that were broken before and were left alone count as errors again.
Applied(p) ==
  /\ pc[p] = "apply" /\ Runs(p) /\ todo[p] = {}
  /\ Goto(p, "fire") /\ Errs(p, broken[p] # {})
  /\ UNCHANGED <<Storage, lock, mem, locals, faults, crashes>>

\* run_triggers: the trigger scripts of packages that have triggers.
FireTriggers(p) ==
  /\ pc[p] = "fire" /\ Runs(p) /\ Goto(p, "config")
  /\ UNCHANGED <<Storage, lock, mem, err, locals, faults, crashes>>

TriggerFails(p, n) ==
  /\ pc[p] = "fire" /\ Runs(p) /\ triggers[p][n] # 0 /\ scripts[p][n] # 0
  /\ faults < MaxFaults /\ faults' = faults + 1
  /\ broken' = [broken EXCEPT ![p] = @ \cup {n}] /\ Errs(p, TRUE)
  /\ UNCHANGED <<Storage, lock, pc, world, installed, scripts, triggers, todo, locals, crashes>>

(* apk_db_write_config and apk_db_write_layers: every file is written to a    *)
(* temporary file and renamed when it is closed.                              *)

WriteConfig(p) ==
  /\ pc[p] = "config"
  /\ dbdir' = (dbdir \/ p \in Creator)
  /\ LET refused == p \notin Creator /\ lock # p
     IN  Goto(p, IF refused THEN "hooks" ELSE "wWorld") /\ Errs(p, refused)
  /\ UNCHANGED <<hasWorld, disk, fs, lock, mem, locals, faults, crashes>>

WriteWorld(p) ==
  /\ pc[p] = "wWorld" /\ Goto(p, "wInstalled")
  /\ hasWorld' = TRUE /\ worldF' = world[p]
  /\ UNCHANGED <<dbdir, installedF, brokenF, scriptsF, triggersF, fs, lock, mem, err, locals, faults, crashes>>

WriteInstalled(p) ==
  /\ pc[p] = "wInstalled" /\ Goto(p, "wScripts")
  /\ installedF' = installed[p] /\ brokenF' = broken[p]
  /\ UNCHANGED <<dbdir, hasWorld, worldF, scriptsF, triggersF, fs, lock, mem, err, locals, faults, crashes>>

WriteScripts(p) ==
  /\ pc[p] = "wScripts" /\ Goto(p, "wTriggers")
  /\ scriptsF' = scripts[p]
  /\ UNCHANGED <<dbdir, hasWorld, worldF, installedF, brokenF, triggersF, fs, lock, mem, err, locals, faults, crashes>>

WriteTriggers(p) ==
  /\ pc[p] = "wTriggers" /\ Goto(p, "hooks")
  /\ triggersF' = triggers[p]
  /\ UNCHANGED <<dbdir, hasWorld, worldF, installedF, brokenF, scriptsF, fs, lock, mem, err, locals, faults, crashes>>

AfterWrite == [config |-> "hooks", wWorld |-> "wInstalled", wInstalled |-> "wScripts",
               wScripts |-> "wTriggers", wTriggers |-> "hooks"]

WriteErrorForgotten(p) ==
  /\ pc[p] \in DOMAIN AfterWrite /\ faults < MaxFaults /\ faults' = faults + 1
  /\ Goto(p, AfterWrite[pc[p]]) /\ damaged' = TRUE
  /\ UNCHANGED <<Storage, lock, mem, err, req, resumed, pre, child, late, masked, crashes>>

\* A file that cannot be written keeps its old contents, and the others follow;
\* none is written when lib/apk/db cannot be opened.
WriteError(p) ==
  /\ pc[p] \in DOMAIN AfterWrite /\ faults < MaxFaults /\ faults' = faults + 1
  /\ Goto(p, AfterWrite[pc[p]]) /\ Errs(p, TRUE) /\ damaged' = TRUE
  /\ UNCHANGED <<Storage, lock, mem, req, resumed, pre, child, late, masked, crashes>>

PostCommitHooks(p) ==
  /\ pc[p] = "hooks" /\ Runs(p) /\ Goto(p, "close")
  /\ UNCHANGED <<Storage, lock, mem, err, locals, faults, crashes>>

\* apk_db_close, and then the end of main or the re-execution of apk.
Close(p) ==
  /\ pc[p] = "close"
  /\ \/ p \notin pre /\ Exit(p)
     \/ p \in pre /\ Goto(p, "lock") /\ Gone(p) /\ resumed' = resumed \cup {p}
  /\ UNCHANGED <<faults, crashes>>

\* SIGINT (on_sigint closes the database and exits) or any other sudden end.
Crash(p) ==
  /\ pc[p] \notin {"start", "done"} /\ crashes < MaxCrashes /\ crashes' = crashes + 1
  /\ Exit(p) /\ UNCHANGED faults

Step(p) ==
  \/ OpenUnlocked(p) \/ Acquire(p) \/ Refused(p) \/ SetAlarm(p) \/ Flock(p) \/ Alarm(p)
  \/ ReadWorld(p) \/ ReadInstalled(p) \/ ReadTriggers(p) \/ ReadScripts(p) \/ ReadError(p)
  \/ NoWorld(p) \/ \E S \in SUBSET Name : ReadMasked(p, S)
  \/ Solve(p) \/ Preupgrade(p) \/ Abort(p)
  \/ \E n \in Name : Apply(p, n) \/ ApplyScriptFails(p, n) \/ ApplyFails(p, n) \/ TriggerFails(p, n)
  \/ Applied(p) \/ FireTriggers(p)
  \/ WriteConfig(p) \/ WriteWorld(p) \/ WriteInstalled(p) \/ WriteScripts(p)
  \/ WriteTriggers(p) \/ WriteError(p) \/ PostCommitHooks(p) \/ Close(p)

Next == \E p \in Proc : Start(p) \/ Step(p) \/ AlarmEarly(p) \/ Crash(p)

\* Every process that runs goes on, and its alarm goes off.
Spec == Init /\ [][Next]_vars /\ \A p \in Proc : WF_vars(Step(p))
--------------------------------------------------------------------------------
StorageType ==
  /\ dbdir \in BOOLEAN /\ hasWorld \in BOOLEAN
  /\ worldF \in SUBSET Name /\ brokenF \in SUBSET Name
  /\ installedF \in [Name -> Ver] /\ scriptsF \in [Name -> Ver] /\ triggersF \in [Name -> Ver]
  /\ fs \in [Name -> Ver]
MemoryType ==
  /\ world \in [Proc -> SUBSET Name] /\ broken \in [Proc -> SUBSET Name]
  /\ todo \in [Proc -> SUBSET Name] /\ installed \in [Proc -> [Name -> Ver]]
  /\ scripts \in [Proc -> [Name -> Ver]] /\ triggers \in [Proc -> [Name -> Ver]]
ControlType ==
  /\ pc \in [Proc -> PC] /\ lock \in Proc \cup {None} /\ err \subseteq Proc
LocalsType ==
  /\ req \in [Proc -> Request] /\ child \in [Proc -> Proc \cup {None}]
  /\ resumed \subseteq Proc /\ pre \subseteq Proc /\ late \subseteq Proc
  /\ masked \subseteq Proc /\ damaged \in BOOLEAN
TypeOK ==
  /\ StorageType /\ MemoryType /\ ControlType /\ LocalsType
  /\ faults \in 0..MaxFaults /\ crashes \in 0..MaxCrashes

\* "A lock file used to allow only one concurrent write transaction on the system"
\* (apk-tools/doc/apk.8.scd): no two processes are between the opening of the
\* database and its closing.
OneWriter ==
  \A p, q \in Proc : pc[p] \in Holding /\ pc[q] \in Holding => p = q

\* What a transaction reports as done is done and on disk, whatever failed,
\* crashed or ran before it: at apk_db_close without an error the four files hold
\* what the process has in memory, the installed packages are the solution of the
\* world, and the world says what was asked for.
CommitDurable ==
  \A p \in Proc : pc[p] = "close" /\ p \notin err =>
    /\ hasWorld /\ worldF = world[p] /\ installedF = installed[p] /\ brokenF = broken[p]
    /\ scriptsF = scripts[p] /\ triggersF = triggers[p]
    /\ {n \in Name : installedF[n] # 0} = Solution(worldF)
    /\ req[p].op = "add" => req[p].name \in worldF
    /\ req[p].op = "del" => req[p].name \notin worldF
    /\ req[p].op = "upgrade" =>
         \A n \in Solution(worldF) : p \notin pre \/ n = Self => installedF[n] = Avail[n]

\* Between transactions the installed database lists the packages whose files are
\* in the root, with their scripts and triggers, unless a process was killed, a
\* file of the database could not be written, or --initdb passed over one it could
\* not read: failed downloads, unpackings, scripts and other reads never make them
\* differ.
DbMatchesRoot ==
  (\A p \in Proc : pc[p] \notin Holding) /\ crashes = 0 /\ ~damaged =>
    fs = installedF /\ scriptsF = installedF /\ triggersF = installedF

\* --initdb is about to write what it made of an installed database it could not
\* read to the end.
PassesOver(p) == pc[p] = "wInstalled" /\ p \in masked /\ damaged

\* A package whose script failed is flagged until its version changes: no
\* transaction forgets the mark of another, so that every commit reports it.  Only
\* --initdb can lose it, together with entries it could not read.
BrokenSticky ==
  [][\/ \E p \in Proc : PassesOver(p)
     \/ \A n \in brokenF : installedF'[n] = installedF[n] => n \in brokenF']_vars

\* A process that calls flock with its alarm already spent, inside a script of the
\* process that holds the lock, which waits for the script.
Entangled(p) == pc[p] = "flock" /\ p \in late /\ lock # None /\ child[lock] = p

\* A process that has started ends, also when a package script runs apk --wait
\* while its parent holds the lock: either the lock is released or the alarm
\* interrupts flock.  The one exception is Entangled.
Termination ==
  \A p \in Proc : pc[p] = "lock" ~> (pc[p] = "done" \/ \E q \in Proc : Entangled(q))
================================================================================
