------------------------------ MODULE ApkIndex ------------------------------
(***************************************************************************)
(* Repository indexes: apk index (app_index.c), apk mkndx (app_mkndx.c)    *)
(* and the text form of an index entry (package.c), beside a builder that  *)
(* publishes packages while time passes.                                   *)
(*                                                                         *)
(* A package file is the sequence of [key, value] lines of its .PKGINFO or *)
(* the object of a v3 package, an entry a function from the field letters  *)
(* of the text index to values, IxBlank's where the field is absent; the   *)
(* value of a dependency field is the sequence of its dependencies.  Time  *)
(* counts seconds: it is what st_mtime can tell apart.                     *)
(***************************************************************************)
EXTENDS Naturals, Sequences, FiniteSets, SequencesExt, FiniteSetsExt

CONSTANTS
  IxFiles,      \* file names; a package belongs to the file name made from it
  IxRepos,      \* repositories: [builds, options, runs], the builds of each file in turn, the command
                \* lines in use and how many runs there are (a bound); a build is
                \* [v3, meta, id, size], where meta is the lines or the entry of a v3 package, and
                \* a command line [tool, incremental, merge, prune]
  IxBroken,     \* dependencies that do not parse
  IxMaxTime,    \* bound: seconds that pass
  IxMaxRaces    \* bound: packages published while a run is on or in the
                \* second its index is written

ASSUME IxAssumption == \A p \in IxRepos : DOMAIN p.builds = IxFiles

VARIABLE ix

IxText  == {"P", "V", "T", "U", "L", "A", "C", "S", "I", "o", "m", "t", "c", "k"}
IxDeps  == {"D", "p", "i", "r"}
IxField == IxText \cup IxDeps
IxBlank == [f \in IxField |-> IF f \in IxDeps THEN << >> ELSE ""]

----------------------------------------------------------------------------
(* Entries as text *)

\* apk_blob_pull_deps stops at a dependency that does not parse.
IxPullDeps(v) ==
  LET bad == SelectInSeq(v, LAMBDA d : d \in IxBroken)
  IN IF bad = 0 THEN v ELSE SubSeq(v, 1, bad - 1)

\* apk_pkgtmpl_add_info, for the fields its callers here have: a text replaces the one before, while
\* dependencies are added to those before, or all dropped where half an install_if would do harm.
apk_pkgtmpl_add_info(t, f, v) ==
  LET deps == IxPullDeps(v)
  IN CASE f \in IxText -> [t EXCEPT !.pkg[f] = v]
       [] f = "D" -> [t EXCEPT !.pkg["D"] = @ \o deps, !.refused = @ \/ deps # v]
       [] f = "p" -> [t EXCEPT !.pkg["p"] = @ \o deps]
       [] f = "i" -> [t EXCEPT !.pkg["i"] = IF deps # v THEN << >> ELSE @ \o deps]

apk_pkgtmpl_init == [pkg |-> IxBlank, refused |-> FALSE]

\* apk_pkg_write_index_header: C P V S I T U L always, the others when set.
IxAlways == <<"C", "P", "V", "S", "I", "T", "U", "L">>
IxOrder  == <<"C", "P", "V", "A", "S", "I", "T", "U", "L", "o", "m", "t", "c", "k",
              "D", "p", "i">>

apk_pkg_write_index_header(e) ==
  LET shown == SelectSeq(IxOrder, LAMBDA f : Contains(IxAlways, f) \/ e[f] # IxBlank[f])
  IN [i \in 1..Len(shown) |-> [f |-> shown[i], v |-> e[shown[i]]]]

\* apk_db_fdb_read for one entry of an index.
IxReadEntry(lines) ==
  FoldLeft(LAMBDA t, l : apk_pkgtmpl_add_info(t, l.f, l.v), apk_pkgtmpl_init, lines).pkg

\* The entries of an index file; that of apk mkndx holds the objects as they are.
IxEntries(index) == IF index.tool = "index" THEN {IxReadEntry(e) : e \in index.entries} ELSE index.entries

\* The keys of .PKGINFO and the fields they fill.
IxKeys == [k \in {"pkgname", "pkgver", "pkgdesc", "url", "size", "license", "arch",
                  "depend", "install_if", "provides", "origin", "maintainer",
                  "builddate", "commit", "provider_priority"} |->
  CASE k = "pkgname" -> "P" [] k = "pkgver" -> "V"   [] k = "pkgdesc" -> "T"
    [] k = "url" -> "U"     [] k = "size" -> "I"     [] k = "license" -> "L"
    [] k = "arch" -> "A"    [] k = "depend" -> "D"   [] k = "install_if" -> "i"
    [] k = "provides" -> "p" [] k = "origin" -> "o"  [] k = "maintainer" -> "m"
    [] k = "builddate" -> "t" [] k = "commit" -> "c" [] OTHER -> "k"]

\* read_info_line: unknown keys are skipped.
read_info_line(t, l) ==
  IF l.k \in DOMAIN IxKeys THEN apk_pkgtmpl_add_info(t, IxKeys[l.k], l.v) ELSE t

\* mkndx_parse_v2meta: depend, provides and replaces are gathered, and one that does not parse is an
\* error; any other key, install_if included, is refused when it is repeated.
mkndx_parse_v2meta(t, l) ==
  LET f == IF l.k = "replaces" THEN "r" ELSE IxKeys[l.k]
  IN CASE l.k \notin DOMAIN IxKeys \cup {"replaces"} -> t
       [] l.k \in {"depend", "provides", "replaces"} ->
            [t EXCEPT !.pkg[f] = @ \o l.v, !.refused = @ \/ IxPullDeps(l.v) # l.v]
       [] OTHER -> [t EXCEPT !.pkg[f] = l.v, !.refused = @ \/ t.pkg[f] # IxBlank[f]]

\* mkndx_parse_v3meta copies the object, which apk_pkg_v3meta refuses to read.
IxParseV3(tool, b) == [pkg |-> b.meta, refused |-> tool = "index"]

\* What a tool makes of a build: apk_pkg_read, or the extraction of mkndx_main.  The size comes from
\* stat, not from the package.
IxParse(tool, b, size) ==
  LET t == CASE b.v3 -> IxParseV3(tool, b)
             [] ~b.v3 /\ tool = "index" -> FoldLeft(read_info_line, apk_pkgtmpl_init, b.meta)
             [] ~b.v3 /\ tool = "mkndx" -> FoldLeft(mkndx_parse_v2meta, apk_pkgtmpl_init, b.meta)
  IN [ok  |-> ~t.refused /\ (tool = "index" => t.pkg["P"] # ""),
      pkg |-> [t.pkg EXCEPT !["C"] = b.id, !["S"] = size]]

----------------------------------------------------------------------------
(* Looking a file up in the old index *)

\* apk_db_get_pkg_by_name: the first provider whose file name, made from name and version, and size
\* are the file's.  Those of one version are in any order, as apk_name_sorted_providers finds them
\* equal.
apk_db_get_pkg_by_name(entries, file, size) ==
  {e \in entries : e["P"] = file /\ e["S"] = size}

\* The same in an adb index.
find_package(entries, file, size) ==
  {e \in entries : e["P"] = file /\ e["S"] = size}

\* The entries the lookup may give.
IxLookup(s, st) ==
  IF s.opt.tool = "index" THEN apk_db_get_pkg_by_name(s.old, st.file, st.size)
  ELSE find_package(s.old, st.file, st.size)

\* A mistake IxFresh must notice: the time of the file is not looked at.
IxReusableAlways(s, st) ==
  IF s.opt.incremental THEN IxLookup(s, st) ELSE {}

\* An old entry may stand for a file no younger than the old index.
IxReusable(s, st) ==
  IF s.opt.incremental /\ s.oldTime >= st.mtime THEN IxLookup(s, st) ELSE {}

\* An old package of an origin that has a new one.
IxPruned(s, e) ==
  /\ s.opt.prune /\ e["o"] # ""
  /\ \E n \in s.marked : n["o"] = e["o"]

\* index_write
IxWritten(s) ==
  s.marked \cup (IF s.opt.merge THEN {e \in s.old \ s.marked : ~IxPruned(s, e)} ELSE {})

----------------------------------------------------------------------------
(* The indexer and the builder *)

IxInit ==
  ix = [pc |-> "new", repo |-> <<>>, now |-> 0, disk |-> [f \in IxFiles |-> <<>>],
        index |-> <<>>, opt |-> <<>>, args |-> {}, old |-> {}, oldTime |-> 0,
        marked |-> {}, errors |-> 0, st |-> <<>>, runs |-> 0, races |-> 0,
        last |-> "none"]

IxBegin == ix.pc = "new" /\ \E p \in IxRepos : ix' = [ix EXCEPT !.pc = "idle", !.repo = p]

\* A build replaces the package file by renaming a new one over it.
IxPublish(f) ==
  LET race == ix.pc # "idle" \/ (ix.index # <<>> /\ ix.index.mtime >= ix.now)
  IN /\ ix.repo.builds[f] # <<>>
     /\ race => ix.races < IxMaxRaces
     /\ ix' = [ix EXCEPT !.repo.builds[f] = Tail(@),
                         !.disk[f] = [build |-> ix.repo.builds[f][1], mtime |-> ix.now],
                         !.races = IF race THEN @ + 1 ELSE @]

IxTick == ix.now < IxMaxTime /\ ix' = [ix EXCEPT !.now = @ + 1]

\* index_read_file, or the --index of mkndx_main: a missing index is none at
\* all for the one and an error for the other; each reads its own format.
IxStart(opt) ==
  LET read == IF opt.incremental /\ ix.index # <<>>
              THEN IxEntries(ix.index) ELSE {}
  IN /\ ix.runs < ix.repo.runs
     /\ opt.incremental => IF ix.index = <<>> THEN opt.tool = "index"
                            ELSE ix.index.tool = opt.tool
     /\ ix' = [ix EXCEPT !.pc = "stat", !.opt = opt, !.runs = @ + 1,
                         !.args = {f \in IxFiles : ix.disk[f] # <<>>},
                         !.old = read,
                         !.oldTime = IF read = {} THEN 0 ELSE ix.index.mtime,
                         !.marked = {}, !.errors = 0, !.st = <<>>,
                         !.last = "none"]

\* The loop over the arguments up to apk_pkg_read or apk_extract.
IxStat(f) ==
  LET d  == ix.disk[f]
      st == [file |-> f, size |-> d.build.size, mtime |-> d.mtime]
      s  == [ix EXCEPT !.args = @ \ {f}]
  IN \/ \E e \in IxReusable(ix, st) : ix' = [s EXCEPT !.marked = @ \cup {e}]
     \/ IxReusable(ix, st) = {} /\ ix' = [s EXCEPT !.pc = "read", !.st = st]

\* apk_pkg_read looks at the size again; mkndx_main keeps the first.  The
\* package is parsed from whatever file the name stands for by then.
IxRead ==
  LET b == ix.disk[ix.st.file].build
      p == IxParse(ix.opt.tool, b, IF ix.opt.tool = "index" THEN b.size ELSE ix.st.size)
  IN /\ ix.pc = "read"
     /\ ix' = [ix EXCEPT !.pc = "stat", !.st = <<>>,
                         !.marked = IF p.ok THEN @ \cup {p.pkg} ELSE @,
                         !.errors = IF p.ok THEN @ ELSE @ + 1]

\* The index is renamed into place when it is complete.
IxWrite ==
  /\ ix.pc = "stat" /\ ix.args = {}
  /\ ix' = IF ix.errors > 0 THEN [ix EXCEPT !.pc = "idle", !.last = "failed"]
           ELSE [ix EXCEPT !.pc = "idle", !.last = "ok",
                   !.index = [entries |-> IF ix.opt.tool = "index"
                                          THEN {apk_pkg_write_index_header(e) : e \in IxWritten(ix)}
                                          ELSE IxWritten(ix),
                              mtime |-> ix.now, tool |-> ix.opt.tool]]

IxNext ==
  \/ IxBegin
  \/ ix.pc # "new" /\ (IxTick \/ \E f \in IxFiles : IxPublish(f))
  \/ ix.pc = "idle" /\ \E opt \in ix.repo.options : IxStart(opt)
  \/ ix.pc = "stat" /\ \E f \in ix.args : IxStat(f)
  \/ IxRead
  \/ IxWrite

IxSpec == IxInit /\ [][IxNext]_ix

----------------------------------------------------------------------------
(* Properties *)

\* The shape of the state: entries are whole, and a run has no pending read
\* outside the step that makes it (app_index.c:149-258, app_mkndx.c:252-382).
IxTypeOK ==
  /\ ix.pc \in {"new", "idle", "stat", "read"}
  /\ \A e \in ix.marked : DOMAIN e = IxField /\ \A f \in IxText : e[f] \in STRING
  /\ (ix.pc = "read") <=> (ix.st # <<>>)

IxIndexed == IF ix.index = <<>> THEN {} ELSE IxEntries(ix.index)

\* The entry a file has when it is read afresh.
IxTrue(f) ==
  IxParse(ix.opt.tool, ix.disk[f].build, ix.disk[f].build.size).pkg

\* When nothing is published during a run or in the second an index is
\* written, a run that succeeds has indexed every package file as it is:
\* an entry is not carried over from the old index after its file was replaced,
\* even by a build of the same version and size (app_index.c:183-192,
\* app_mkndx.c:311-321).  The exception is an old index that was merged and
\* holds both builds: either may be taken for the file (database.c:2608-2618).
IxFresh ==
  ix.last = "ok" /\ ix.races = 0 =>
    \A f \in IxFiles :
      ix.disk[f] # <<>> /\ ix.disk[f].mtime < ix.index.mtime =>
        LET twins == {e \in ix.old : e["P"] = f /\ e["S"] = ix.disk[f].build.size}
        IN \/ IxTrue(f) \in IxIndexed
           \/ IxTrue(f) \in twins /\ Cardinality(twins) > 1 /\ twins \cap IxIndexed # {}

\* What is written is what is read back, field by field: the next run, and
\* every client, sees the entry the indexer had (package.c:456-538, 830-888).
IxReadsBack ==
  ix.pc = "idle" /\ ix.last = "ok" => ix.marked \subseteq IxIndexed

\* --merge keeps the packages of the old index, and --prune-origin drops from
\* them exactly those whose origin has been rebuilt (app_index.c:84-111).
IxMerged ==
  ix.pc = "idle" /\ ix.last = "ok" /\ ix.opt.merge =>
    \A e \in ix.old :
      e \in IxIndexed <=>
        \/ e \in ix.marked
        \/ ~ix.opt.prune
        \/ e["o"] = ""
        \/ \A n \in ix.marked : n["o"] # e["o"]

\* An index entry is that of the package file, reads back as written, and an index merged
\* from an old one keeps only what is still there.
IxCorrect ==
  ix.pc # "new" =>
    IxTypeOK /\ IxFresh /\ IxReadsBack /\ IxMerged
=============================================================================
