----------------------------- MODULE ApkIdCache -----------------------------
(***************************************************************************)
(* The cache of user and group ids (io.c) during a commit.  Owners in a    *)
(* package are names; apk resolves them against etc/passwd and etc/group   *)
(* of the root it installs to, from two hash tables that it fills from the *)
(* files once and forgets when a package script or a new copy of one of    *)
(* the files may have changed them.  Files are sequences of <<name, id>>.  *)
(***************************************************************************)
EXTENDS Integers, Sequences, SequencesExt, FiniteSets

CONSTANTS
  IdNames,      \* user and group names, "root" among them
  IdNobody,     \* the id a package gives for a name that is not known
  IdHash,       \* apk_blob_hash of a name
  IdBuckets,    \* buckets of a hash (16 in apk_io.h)
  IdFiles,      \* contents etc/passwd and etc/group may take
  IdMaxChanges  \* scripts and migrated files of a commit

ASSUME IdAssumption ==
  /\ "root" \in IdNames /\ IdBuckets \in Nat \ {0} /\ IdNobody \in Nat
  /\ IdHash \in [IdNames -> Nat] /\ IdMaxChanges \in Nat
  /\ \A f \in IdFiles : \A i \in DOMAIN f : f[i][1] \in IdNames /\ f[i][2] \in Nat

VARIABLE ic

IdTables == {"user", "group"}
IdChains == 0 .. IdBuckets - 1

-----------------------------------------------------------------------------
(* The hash tables                                                         *)

idhash_init == [empty |-> TRUE, by_id   |-> [b \in IdChains |-> << >>],
                                by_name |-> [b \in IdChains |-> << >>]]

\* idcache_add: a new item goes to the head of both of its chains.
idcache_add(h, e) ==
  [h EXCEPT !.by_id[e[2] % IdBuckets] = <<e>> \o @,
            !.by_name[IdHash[e[1]] % IdBuckets] = <<e>> \o @]

\* The items of the chain with the name or the id: the first one is used.
idcache_by_name(h, name) ==
  SelectSeq(h.by_name[IdHash[name] % IdBuckets], LAMBDA e : e[1] = name)

idcache_by_id(h, n) ==
  SelectSeq(h.by_id[n % IdBuckets], LAMBDA e : e[2] = n)

\* idcache_load_users, idcache_load_groups: the file is read once.  A file that
\* cannot be opened is one without entries.
IdLoad(h, file) ==
  IF ~h.empty THEN h
  ELSE FoldLeft(idcache_add, [h EXCEPT !.empty = FALSE], file)

-----------------------------------------------------------------------------
(* What a commit does                                                      *)

IdInit == ic = [file |-> [t \in IdTables |-> << >>], hash |-> [t \in IdTables |-> idhash_init],
                changes |-> 0, unseen |-> FALSE, asked |-> [q |-> "none"]]

\* apk_id_cache_resolve_uid and _gid, for every owner in a package.
IdResolveName(t, name) ==
  LET h   == IdLoad(ic.hash[t], ic.file[t])
      hit == idcache_by_name(h, name)
  IN  ic' = [ic EXCEPT !.hash[t] = h,
                       !.asked = [q |-> "name", t |-> t, name |-> name,
                                  id |-> IF hit # << >> THEN hit[1][2]
                                         ELSE IF name = "root" THEN 0 ELSE IdNobody]]

\* apk_id_cache_resolve_user and _group, for every file mkpkg stores.
IdResolveId(t, n) ==
  LET h   == IdLoad(ic.hash[t], ic.file[t])
      hit == idcache_by_id(h, n)
  IN  ic' = [ic EXCEPT !.hash[t] = h,
                       !.asked = [q |-> "id", t |-> t, id |-> n,
                                  name |-> IF hit # << >> THEN hit[1][1]
                                           ELSE IF n = 0 THEN "root" ELSE "nobody"]]

\* A mistake IdAnswersCurrent must notice: a commit resets one table.
apk_id_cache_reset_users(s) ==
  [s EXCEPT !.hash["user"] = idhash_init, !.unseen = FALSE]

apk_id_cache_reset(s) ==
  [s EXCEPT !.hash = [t \in IdTables |-> idhash_init], !.unseen = FALSE]

\* apk_ipkg_run_script: the cache is reset when the script succeeded, a failing
\* script leaves it as it is.
IdRunScript(t, file, ok) ==
  /\ ic.changes < IdMaxChanges
  /\ LET s == [ic EXCEPT !.file[t] = file, !.changes = @ + 1, !.asked = [q |-> "none"]]
     IN  ic' = IF ok THEN apk_id_cache_reset(s)
               ELSE [s EXCEPT !.unseen = @ \/ file # ic.file[t]]

\* apk_db_migrate_files: passwd or group of etc is replaced, which resets the
\* cache, or left alone.
IdMigrate(t, file, ctrl) ==
  /\ ic.changes < IdMaxChanges
  /\ LET s == [ic EXCEPT !.changes = @ + 1, !.asked = [q |-> "none"]]
     IN  ic' = IF ctrl = "commit" THEN apk_id_cache_reset([s EXCEPT !.file[t] = file]) ELSE s

IdNext ==
  \E t \in IdTables :
    \/ \E name \in IdNames : IdResolveName(t, name)
    \/ \E f \in IdFiles : \E i \in DOMAIN f : IdResolveId(t, f[i][2])
    \/ \E f \in IdFiles, ok \in BOOLEAN : IdRunScript(t, f, ok)
    \/ \E f \in IdFiles, ctrl \in {"commit", "apknew", "cancel"} : IdMigrate(t, f, ctrl)

IdSpec == IdInit /\ [][IdNext]_ic

-----------------------------------------------------------------------------
(* Properties                                                              *)

\* An item is in the two chains its id and its name hash to, and in no other.
IdTypeOK ==
  \A t \in IdTables : LET h == ic.hash[t] IN \A b \in IdChains :
    /\ \A i \in DOMAIN h.by_id[b] : h.by_id[b][i][2] % IdBuckets = b
    /\ \A i \in DOMAIN h.by_name[b] : IdHash[h.by_name[b][i][1]] % IdBuckets = b
    /\ h.empty => h.by_id[b] = << >>

\* The last entry of the file that passes, or what stands for none.
IdLast(file, Test(_), none) ==
  LET hits == {i \in DOMAIN file : Test(file[i])}
  IN  IF hits = {} THEN none ELSE file[CHOOSE i \in hits : \A j \in hits : j <= i]

\* Every owner apk resolves is the one the file on disk gives at that moment,
\* whatever scripts and new copies of the file came before (a script that failed
\* after changing the file excepted: apk_ipkg_run_script keeps the cache then).
\* Of entries with the same name, or the same id, the last one counts.
IdAnswersCurrent ==
  ic.asked.q # "none" /\ ~ic.unseen =>
    LET file == ic.file[ic.asked.t]
    IN  IF ic.asked.q = "name"
        THEN ic.asked.id = IdLast(file, LAMBDA e : e[1] = ic.asked.name,
                                  <<"", IF ic.asked.name = "root" THEN 0 ELSE IdNobody>>)[2]
        ELSE ic.asked.name = IdLast(file, LAMBDA e : e[2] = ic.asked.id,
                                    <<IF ic.asked.id = 0 THEN "root" ELSE "nobody", 0>>)[1]

\* The cache of user and group ids answers as the current passwd and group files would.
IdCorrect ==
  ic.asked.q # "none" =>
    IdTypeOK /\ IdAnswersCurrent
=============================================================================
