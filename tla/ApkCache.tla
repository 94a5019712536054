------------------------------- MODULE ApkCache -------------------------------
(***************************************************************************)
(* The repositories and the package cache of apk: what apk_db_open does    *)
(* with the index of a remote repository (is_index_stale, open_repository, *)
(* apk_cache_download, apk_db_index_write_nr_cache, mark_in_cache), and    *)
(* the commands that work on the cache directory (app_update.c,            *)
(* app_cache.c, the download part of commit.c).                            *)
(*                                                                         *)
(* One mirror publishes index versions 1, 2, ...; version v lists release  *)
(* v of the one package of the model, and its files replace those of v-1.  *)
(* Several apk processes share the cache directory.  Only those that may   *)
(* write the database take its lock: "apk cache" does not.  The root may   *)
(* be a tmpfs (a diskless system): a reboot then forgets what is installed *)
(* and apk puts it back from the cache, without a network.                 *)
(***************************************************************************)
EXTENDS Integers, FiniteSets, Sequences

CONSTANTS
  CaProc,       \* the apk processes
  CaInputs,     \* the commands each process may start: <<command, network, --force-refresh>>
  CaMaxAge,     \* ac->cache_max_age of every command but update
  CaMaxTime,    \* bound on the clock
  CaMaxVer,     \* bound on the index versions published
  CaMaxRuns,    \* bound on the commands started
  CaMaxFaults,  \* bound on the network failures, the processes killed and the reboots
  CaTmpfs,      \* whether the root is a tmpfs
  CaTmpfile     \* whether the cache directory supports O_TMPFILE

ASSUME CaBounds == {CaMaxAge, CaMaxTime, CaMaxVer} \subseteq Nat /\ CaMaxVer > 0
ASSUME CaInputsAssumption ==
  \A p \in CaProc : \A i \in CaInputs[p] :
    i[1] \in {"update", "upgrade", "boot", "clean", "purge", "sync", "download"}

VARIABLES
  caNow,        \* the clock, in the unit of a file's mtime
  caMirror,     \* when each index version was published
  caDir,        \* the cache directory
  caInstalled,  \* the installed database: releases of the package (none or one)
  caLock,       \* the holders of the database lock
  caProc,       \* the state of each process
  caBudget,     \* commands, failures and kills so far
  caMissed      \* history: a version was published while an older one was in transfer

caVars == <<caNow, caMirror, caDir, caInstalled, caLock, caProc, caBudget, caMissed>>

CaVersions == 1 .. CaMaxVer

\* The commands: which take the write lock, and which work on the cache only.
CaWriters == {"update", "upgrade", "boot"}
CaCleaners == {"clean", "purge", "sync"}

\* Between two commands a process keeps only how its last one ended.
CaIdle == [pc |-> "idle", cmd |-> "none", network |-> FALSE, refresh |-> FALSE,
           began |-> 0, start |-> 0, ipkg |-> {}, nr |-> {}, mtime |-> 0,
           body |-> 0, stamp |-> 0, what |-> "none", failed |-> FALSE, updated |-> FALSE,
           loaded |-> 0, cached |-> {}, seen |-> {}]

\* A system set up a moment ago: the first index is cached, the release is installed.
CaInit ==
  /\ caNow = 2
  /\ caMirror = <<1>>
  /\ caDir = [index |-> [ver |-> 1, mtime |-> 1], pkgs |-> {}, installed |-> {}, tmp |-> {}]
  /\ caInstalled = {1}
  /\ caLock = {}
  /\ caProc = [p \in CaProc |-> CaIdle]
  /\ caBudget = [runs |-> 0, fail |-> 0, crash |-> 0]
  /\ caMissed = FALSE

-----------------------------------------------------------------------------
\* What a process knows once its database is open.

\* apk_db_pkg_available: db->available_repos holds a remote repository only with the network.
CaAvailable(r) == IF r.network THEN {r.loaded} \ {0} ELSE {}

\* The packages with metadata: the index, the installed database and the cached "installed" index.
CaKnown(r) == ({r.loaded} \ {0}) \cup r.ipkg \cup r.nr

\* apk_db_index_write_nr_cache: installed, in no available repository, with a file in the cache.
CaNonRepository(r) == {v \in r.ipkg : v \notin CaAvailable(r) /\ v \in r.cached}

\* What the solver takes: the newest release it can have.  "apk cache download" runs it without
\* the upgrade flag, which prefers the installed release.
CaReady(r) == {v \in CaKnown(r) : v \in CaAvailable(r) \/ v \in r.cached \/ v \in r.ipkg}
CaTarget(r) ==
  LET from == IF r.ipkg # {} /\ r.cmd # "upgrade" THEN r.ipkg ELSE CaReady(r) \cup {0}
  IN  CHOOSE v \in from : \A w \in from : w <= v

CaSet(p, r) == caProc' = [caProc EXCEPT ![p] = r]
CaStep(p, pc) == CaSet(p, [caProc[p] EXCEPT !.pc = pc])
CaAt(p, pc) == caProc[p].pc = pc

\* The process ends: its lock goes with lock_fd; of a success, what a property asks about is kept.
CaExit(p, code) ==
  LET r == caProc[p]
  IN  /\ caLock' = caLock \ {p}
      /\ CaSet(p, IF code = 0 /\ r.network /\ r.cmd \in CaWriters
                    THEN [CaIdle EXCEPT !.cmd = r.cmd, !.began = r.began, !.start = r.start,
                                        !.loaded = r.loaded]
                    ELSE CaIdle)

CaNetworkFails ==
  /\ caBudget.fail + caBudget.crash < CaMaxFaults
  /\ caBudget' = [caBudget EXCEPT !.fail = @ + 1]

-----------------------------------------------------------------------------
\* apk_db_open.  A command starts; those that write the database wait for its lock.  After a
\* reboot of a diskless system the first command puts the world back from the cache.
CaStart(p, cmd, network, refresh) ==
  /\ CaAt(p, "idle")
  /\ p = CHOOSE q \in CaProc : CaAt(q, "idle")  \* the first free one is next
  /\ caBudget.runs < CaMaxRuns
  /\ cmd = "boot" <=> (CaTmpfs /\ caInstalled = {} /\ caDir.pkgs # {})
  /\ cmd = "boot" => ~network
  /\ caBudget' = [caBudget EXCEPT !.runs = @ + 1]
  /\ CaSet(p, [CaIdle EXCEPT !.cmd = cmd, !.network = network, !.refresh = refresh,
                             !.began = Len(caMirror), !.start = caNow, !.pc = "open"])
  /\ UNCHANGED <<caNow, caMirror, caDir, caInstalled, caLock, caMissed>>

\* db->autoupdate and is_index_stale: the file's age decides, and repo->mtime is set, only when
\* neither a zero cache_max_age (update) nor --force-refresh has decided before.
CaAutoupdate(r) == r.cmd \in CaWriters /\ r.network
CaAged == caDir.index.ver = 0 \/ caNow - caDir.index.mtime > CaMaxAge
CaAlways(r) == r.cmd = "update" \/ r.refresh

\* The mutated form takes any index that is there for fresh.
CaStaleNever(r) == CaAutoupdate(r) /\ (CaAlways(r) \/ caDir.index.ver = 0)

is_index_stale(r) == CaAutoupdate(r) /\ (CaAlways(r) \/ CaAged)

\* add_repository_component, and the start of open_repository.
CaAddRepository(r) ==
  LET stale == is_index_stale(r)
  IN  [r EXCEPT !.pc = IF stale THEN "request" ELSE "load", !.what = "index", !.refresh = FALSE,
                !.mtime = IF stale /\ ~CaAlways(r) THEN caDir.index.mtime ELSE 0]

\* apk_db_read_layer, and the "installed" index of the cache when the root is a tmpfs.
CaReadLayer(p) ==
  CaSet(p, CaAddRepository([caProc[p] EXCEPT !.ipkg = caInstalled,
                                             !.nr = IF CaTmpfs THEN caDir.installed ELSE {}]))

\* Who writes the database waits for its lock; what is read next only a holder of it changes.
CaOpen(p) ==
  /\ CaAt(p, "open")
  /\ caProc[p].cmd \in CaWriters => caLock = {}
  /\ caLock' = caLock \cup ({p} \cap {q \in CaProc : caProc[q].cmd \in CaWriters})
  /\ CaReadLayer(p)
  /\ UNCHANGED <<caNow, caMirror, caDir, caInstalled, caBudget, caMissed>>

-----------------------------------------------------------------------------
\* apk_cache_download, for the index and for a package, and the copy that apk_db_unpack_pkg makes
\* of the package it installs.

\* apk_db_unpack_pkg is over: the package is installed, in memory, and the copy counts as cached.
CaUnpacked(r, ok) ==
  IF ok THEN [r EXCEPT !.pc = "config", !.ipkg = {r.body}, !.cached = @ \cup {r.body}]
        ELSE [r EXCEPT !.pc = "config", !.failed = TRUE]

\* Where the process goes when its transfer is over.
CaAfter(r, ok) ==
  CASE r.what = "index" ->
         [r EXCEPT !.pc = "load", !.failed = ~ok, !.updated = ok, !.mtime = 0, !.body = 0, !.stamp = 0]
    [] r.what = "cache" ->
         [r EXCEPT !.pc = "cached", !.failed = ~ok, !.cached = @ \cup {r.body}, !.stamp = 0]
    [] r.what = "unpack" -> CaUnpacked(r, ok)

\* The reply to the GET: 304 when nothing was published after If-Modified-Since, 404 for a package
\* whose files have been replaced.  Without O_TMPFILE the temporary is in the directory by now.
CaReply(p) ==
  LET r == caProc[p]
      ver == IF r.what = "index" THEN Len(caMirror) ELSE r.body
  IN  /\ CaAt(p, "request")
      /\ CASE r.mtime # 0 /\ caMirror[Len(caMirror)] <= r.mtime ->
                CaStep(p, "touch") /\ UNCHANGED caDir
           [] r.what # "index" /\ ver # Len(caMirror) ->
                CaSet(p, CaAfter(r, FALSE)) /\ UNCHANGED caDir
           [] OTHER ->
                /\ CaSet(p, [r EXCEPT !.pc = "body", !.body = ver])
                /\ caDir' = IF CaTmpfile THEN caDir ELSE [caDir EXCEPT !.tmp = @ \cup {p}]
      /\ UNCHANGED <<caNow, caMirror, caInstalled, caLock, caBudget, caMissed>>

\* The transfer breaks off, before or after the reply: apk_ostream_cancel removes the temporary.
CaBreak(p) ==
  /\ caProc[p].pc \in {"request", "body"}
  /\ CaNetworkFails
  /\ CaSet(p, CaAfter(caProc[p], FALSE))
  /\ caDir' = [caDir EXCEPT !.tmp = @ \ {p}]
  /\ UNCHANGED <<caNow, caMirror, caInstalled, caLock, caMissed>>

\* The last byte is written: this is the time stamp of the file.  tee_close: an index keeps it, a
\* package gets the server's (which nothing reads).
CaBody(p) ==
  /\ CaAt(p, "body")
  /\ CaSet(p, [caProc[p] EXCEPT !.pc = "rename", !.stamp = caNow])
  /\ caDir' = [caDir EXCEPT !.tmp = @ \cup (IF CaTmpfile THEN {p} ELSE {})]
  /\ UNCHANGED <<caNow, caMirror, caInstalled, caLock, caBudget, caMissed>>

\* fdo_close: rename the temporary into place, unless someone has removed it.
CaRename(p) ==
  LET r == caProc[p]
      there == p \in caDir.tmp
  IN  /\ CaAt(p, "rename")
      /\ caDir' = CASE ~there -> caDir
                    [] r.what = "index" ->
                         [caDir EXCEPT !.tmp = @ \ {p}, !.index = [ver |-> r.body, mtime |-> r.stamp]]
                    [] OTHER -> [caDir EXCEPT !.tmp = @ \ {p}, !.pkgs = @ \cup {r.body}]
      /\ CaSet(p, CaAfter(r, there))
      /\ UNCHANGED <<caNow, caMirror, caInstalled, caLock, caBudget, caMissed>>

\* -APKE_FILE_UNCHANGED: the index in the cache is as good as new, utimensat says so.
CaTouch(p) ==
  /\ CaAt(p, "touch")
  /\ caDir' = IF caDir.index.ver = 0 THEN caDir ELSE [caDir EXCEPT !.index.mtime = caNow]
  /\ CaSet(p, [CaAfter(caProc[p], TRUE) EXCEPT !.updated = FALSE])
  /\ UNCHANGED <<caNow, caMirror, caInstalled, caLock, caBudget, caMissed>>

-----------------------------------------------------------------------------
\* The end of open_repository: load_index from the cache.
CaLoad(p) ==
  /\ CaAt(p, "load")
  /\ CaSet(p, [caProc[p] EXCEPT !.pc = "mark", !.loaded = caDir.index.ver,
                             !.updated = FALSE])
  /\ caDir' = IF caProc[p].updated /\ CaTmpfs
                THEN [caDir EXCEPT !.installed =
                        CaNonRepository([caProc[p] EXCEPT !.loaded = caDir.index.ver])]
                ELSE caDir
  /\ UNCHANGED <<caNow, caMirror, caInstalled, caLock, caBudget, caMissed>>

\* mark_in_cache for every file of the cache whose package is known.
CaMark(p) ==
  /\ CaAt(p, "mark")
  /\ CaSet(p, [caProc[p] EXCEPT !.pc = "main", !.cached = caDir.pkgs \cap CaKnown(caProc[p])])
  /\ UNCHANGED <<caNow, caMirror, caDir, caInstalled, caLock, caBudget, caMissed>>

\* db->repositories.unavailable and .stale.
CaBadRepository(r) == r.loaded = 0 \/ r.failed

\* update_main.
CaUpdate(p) ==
  /\ CaAt(p, "main") /\ caProc[p].cmd = "update"
  /\ CaExit(p, IF CaBadRepository(caProc[p]) THEN 1 ELSE 0)
  /\ UNCHANGED <<caNow, caMirror, caDir, caInstalled, caBudget, caMissed>>

\* upgrade_main (and the add of a boot) up to the commit: apk_db_repository_check, the solver, and
\* with --cache-predownload apk_solver_precache_changeset.
CaUpgrade(p, predownload) ==
  LET r == [caProc[p] EXCEPT !.body = CaTarget(caProc[p]), !.mtime = 0]
  IN  /\ CaAt(p, "main") /\ r.cmd \in {"upgrade", "boot"}
      /\ CASE (r.cmd = "upgrade" /\ CaBadRepository(r)) \/ r.body = 0 -> CaExit(p, 1)
           [] r.body \in r.ipkg -> CaStep(p, "config") /\ UNCHANGED caLock
           [] r.body \in r.cached -> CaSet(p, [r EXCEPT !.pc = "unpack"]) /\ UNCHANGED caLock
           [] OTHER -> /\ CaSet(p, [r EXCEPT !.pc = "request",
                                             !.what = IF predownload THEN "cache" ELSE "unpack"])
                       /\ UNCHANGED caLock
      /\ UNCHANGED <<caNow, caMirror, caDir, caInstalled, caBudget, caMissed>>

\* The package is in the cache, or could not be fetched: apk_cache_download sets pkg->cached in
\* either case, and the caller goes by the error.
CaCached(p) ==
  LET r == caProc[p]
  IN  /\ CaAt(p, "cached")
      /\ IF r.failed \/ r.cmd # "upgrade" THEN CaExit(p, IF r.failed THEN 1 ELSE 0)
           ELSE CaStep(p, "unpack") /\ UNCHANGED caLock
      /\ UNCHANGED <<caNow, caMirror, caDir, caInstalled, caBudget, caMissed>>

\* apk_db_unpack_pkg from the cache: the file may be gone by now.
CaUnpack(p) ==
  /\ CaAt(p, "unpack")
  /\ CaSet(p, CaUnpacked(caProc[p], caProc[p].body \in caDir.pkgs))
  /\ UNCHANGED <<caNow, caMirror, caDir, caInstalled, caLock, caBudget, caMissed>>

\* apk_db_write_config: the installed database, and the "installed" index of the cache once more.
CaWriteConfig(p) ==
  /\ CaAt(p, "config")
  /\ caInstalled' = caProc[p].ipkg
  /\ caDir' = IF CaTmpfs THEN [caDir EXCEPT !.installed = CaNonRepository(caProc[p])] ELSE caDir
  /\ CaExit(p, IF caProc[p].failed THEN 1 ELSE 0)
  /\ UNCHANGED <<caNow, caMirror, caBudget, caMissed>>

-----------------------------------------------------------------------------
\* app_cache.c.  cache_main: clean first, then download.
CaCacheMain(p) ==
  LET r == caProc[p]
      v == CaTarget(r)
      wanted == v # 0 /\ v \notin r.cached /\ v \in CaAvailable(r)
  IN  /\ CaAt(p, "main") /\ r.cmd \notin CaWriters
      /\ CASE r.cmd \in CaCleaners /\ r.seen = {} ->
                CaSet(p, [r EXCEPT !.pc = "clean"]) /\ UNCHANGED caLock
           [] r.cmd \in {"download", "sync"} /\ wanted ->
                /\ CaSet(p, [r EXCEPT !.pc = "request", !.what = "cache", !.body = v, !.mtime = 0])
                /\ UNCHANGED caLock
           [] OTHER -> CaExit(p, 0)
      /\ UNCHANGED <<caNow, caMirror, caDir, caInstalled, caBudget, caMissed>>

\* cache_clean_item for a package file: unknown packages have pkg = NULL.
CaObsolete(r, v) ==
  \/ v \notin CaKnown(r)
  \/ r.cmd = "purge" /\ (~CaTmpfs \/ v \notin r.ipkg)
  \/ v \notin r.ipkg /\ v \notin CaAvailable(r)

\* One file of the directory; readdir may or may not show what appears meanwhile.
CaCleanItem(p, f) ==
  LET r == caProc[p]
  IN  /\ CaAt(p, "clean")
      /\ f \in (caDir.pkgs \cup caDir.tmp) \ r.seen
      /\ CaSet(p, [r EXCEPT !.seen = @ \cup {f}])
      /\ caDir' = CASE f \in CaProc -> [caDir EXCEPT !.tmp = @ \ {f}]
                    [] CaObsolete(r, f) -> [caDir EXCEPT !.pkgs = @ \ {f}]
                    [] OTHER -> caDir
      /\ UNCHANGED <<caNow, caMirror, caInstalled, caLock, caBudget, caMissed>>

CaCleanEnd(p) ==
  /\ CaAt(p, "clean")
  /\ caDir.pkgs \cup caDir.tmp \subseteq caProc[p].seen
  /\ CaSet(p, [caProc[p] EXCEPT !.pc = "main", !.seen = @ \cup {0}])
  /\ UNCHANGED <<caNow, caMirror, caDir, caInstalled, caLock, caBudget, caMissed>>

-----------------------------------------------------------------------------
\* The environment: time, the mirror, a kill, a reboot.
CaTick ==
  /\ caNow < CaMaxTime
  /\ caNow' = caNow + 1
  /\ UNCHANGED <<caMirror, caDir, caInstalled, caLock, caProc, caBudget, caMissed>>

\* A publication while an index is in transfer gets a time stamp the transfer's file will exceed.
CaPublish ==
  /\ Len(caMirror) < CaMaxVer
  /\ caMirror' = Append(caMirror, caNow)
  /\ caMissed' = (caMissed \/ caDir.index.mtime = caNow \/
                  \E p \in CaProc : /\ caProc[p].what = "index"
                                    /\ caProc[p].pc \in {"body", "rename", "touch"})
  /\ UNCHANGED <<caNow, caDir, caInstalled, caLock, caProc, caBudget>>

CaKill(p) ==
  /\ ~CaAt(p, "idle")
  /\ caBudget.fail + caBudget.crash < CaMaxFaults
  /\ caBudget' = [caBudget EXCEPT !.crash = @ + 1]
  /\ CaExit(p, 1)
  /\ UNCHANGED <<caNow, caMirror, caDir, caInstalled, caMissed>>

\* A diskless system comes up with an empty installed database.
CaReboot ==
  /\ CaTmpfs /\ caInstalled # {}
  /\ caBudget.fail + caBudget.crash < CaMaxFaults
  /\ caBudget' = [caBudget EXCEPT !.crash = @ + 1]
  /\ caInstalled' = {} /\ caLock' = {}
  /\ caProc' = [p \in CaProc |-> CaIdle]
  /\ UNCHANGED <<caNow, caMirror, caDir, caMissed>>

CaDo(p) ==
  \/ \E i \in CaInputs[p] : CaStart(p, i[1], i[2], i[3])
  \/ CaOpen(p)
  \/ CaReply(p)
  \/ CaBreak(p)
  \/ CaBody(p)
  \/ CaRename(p)
  \/ CaTouch(p)
  \/ CaLoad(p)
  \/ CaMark(p)
  \/ CaUpdate(p)
  \/ \E predownload \in BOOLEAN : CaUpgrade(p, predownload)
  \/ CaCached(p)
  \/ CaUnpack(p)
  \/ CaWriteConfig(p)
  \/ CaCacheMain(p)
  \/ \E f \in CaVersions \cup CaProc : CaCleanItem(p, f)
  \/ CaCleanEnd(p)
  \/ CaKill(p)

CaNext == (\E p \in CaProc : CaDo(p)) \/ CaTick \/ CaPublish \/ CaReboot

CaSpec == CaInit /\ [][CaNext]_caVars

-----------------------------------------------------------------------------
CaTypeOK ==
  /\ caNow \in 2 .. CaMaxTime /\ caMissed \in BOOLEAN
  /\ Len(caMirror) \in CaVersions
  /\ caDir.index.ver \in 0 .. Len(caMirror) /\ caDir.index.mtime \in 0 .. caNow
  /\ caDir.pkgs \cup caDir.installed \cup caInstalled \subseteq 1 .. Len(caMirror)
  /\ caDir.tmp \cup caLock \subseteq CaProc /\ Cardinality(caLock) <= 1
  /\ \A p \in CaProc : caProc[p].cached \cup caProc[p].ipkg \subseteq 1 .. Len(caMirror)

\* Whatever commands run at once, fail half-way or are killed, the index in the cache is never
\* replaced by an older one and never lost: only the holder of the database lock downloads one.
CaIndexMonotone == [][caDir'.index.ver >= caDir.index.ver]_caVars

\* The number of versions published up to time t.
CaPublished(t) == Cardinality({v \in DOMAIN caMirror : caMirror[v] <= t})

\* A successful "apk update" has an index no older than the one published when it began; any other
\* successful writer one no older than cache_max_age then, unless a version was published in the
\* very moment an index was in transfer (see the README: If-Modified-Since then hides it).
CaFresh ==
  \A p \in CaProc :
    LET r == caProc[p]
    IN  CaAt(p, "idle") =>
          /\ r.cmd = "update" => r.loaded >= r.began
          /\ r.cmd = "upgrade" /\ ~caMissed => r.loaded >= CaPublished(r.start - CaMaxAge)

\* Once every command has ended, none of them by a kill, no temporary is left in the cache: each
\* error path of apk_cache_download cancels the stream that owns it.
CaNoLitter == (\A p \in CaProc : CaAt(p, "idle")) /\ caBudget.crash = 0 => caDir.tmp = {}

\* With the root on a tmpfs the "installed" index of the cache lists every installed package that
\* is in the cache and no longer in the repository's index, so that a boot knows it.
CaNonRepositoryListed ==
  (\A p \in CaProc : CaAt(p, "idle")) /\ CaTmpfs /\ caBudget.crash = 0 =>
    \A v \in caInstalled \cap caDir.pkgs : v = caDir.index.ver \/ v \in caDir.installed

\* What the cache of indexes promises to several processes: an index in use is fresh, none
\* is replaced by an older one, and no temporary file is left.
CaCorrect ==
    /\ [](CaTypeOK /\ CaFresh /\ CaNoLitter)
    /\ CaIndexMonotone
=============================================================================
