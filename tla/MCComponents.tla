---------------------------- MODULE MCComponents ----------------------------
(***************************************************************************)
(* Small instances of the components of apk, libfetch, abuild, alpine-conf *)
(* and uniso that share no state, one behaviour of one component at a      *)
(* time: the first step of a behaviour decides whose turn it is.  The      *)
(* state spaces add up instead of multiplying.                             *)
(***************************************************************************)
EXTENDS AbuildFetch, ApkSolverErrors, ApkIstream, LibFetch, ApkCache, ApkOstream, ApkExtract,
        Uniso, TarStream, ApkPackage, ApkAdb, ApkVersion, ApkAudit, ApkIndex,
        ApkProcess, ApkIdCache, Lbu, UpdateKernel, ApkYaml, TLC

-----------------------------------------------------------------------------
(* Solver: seven names, ten packages, an installed set, a world.               *)

McAnyOp == {"<", "=", ">"}
McDep(n) == [name |-> n, conflict |-> FALSE, op |-> McAnyOp, ver |-> 0]
McDepV(n, op, v) == [McDep(n) EXCEPT !.op = op, !.ver = v]
McNot(n) == [McDep(n) EXCEPT !.conflict = TRUE]
McPkg(n, v, d, p, i, k, t) ==
  [name |-> n, ver |-> v, depends |-> d, provides |-> p, iif |-> i, prio |-> k,
   tags |-> t, itag |-> "main"]
McSvNames == <<"app", "ext", "lib", "nope", "plug", "srv", "svc">>
McSvc == [name |-> "svc", ver |-> 0]
McPool == <<
  McPkg("app", 1, <<McDep("lib")>>, << >>, << >>, 0, {"main"}),
  McPkg("app", 2, <<McDepV("lib", {"=", ">"}, 2), McDep("svc")>>, << >>, << >>, 0, {"main"}),
  McPkg("lib", 1, << >>, << >>, << >>, 0, {"main"}),
  McPkg("lib", 2, <<McNot("ext")>>, << >>, << >>, 0, {"main"}),
  McPkg("lib", 3, << >>, << >>, << >>, 0, {"edge"}),
  McPkg("ext", 1, <<McDep("lib")>>, <<McSvc>>, << >>, 0, {"main"}),
  McPkg("ext", 2, << >>, <<[name |-> "lib", ver |-> 4], McSvc>>, << >>, 0, {"main"}),
  McPkg("srv", 1, << >>, <<McSvc>>, << >>, 10, {"main"}),
  McPkg("plug", 1, <<McDep("lib")>>, << >>, <<McDep("app"), McDep("svc")>>, 0, {"main"}),
  McPkg("plug", 2, <<McDep("nope")>>, << >>, <<McDep("app"), McDep("srv")>>, 0, {"main"}) >>
McAsk(d, tag) == d @@ ("tag" :> tag)
McWorlds ==
  {a \o e \o l \o s :
     a \in {<< >>, <<McAsk(McDep("app"), "main")>>, <<McAsk(McNot("app"), "main")>>},
     e \in {<< >>, <<McAsk(McDep("ext"), "main")>>},
     l \in {<< >>, <<McAsk(McDep("lib"), "edge")>>, <<McAsk(McDepV("lib", {"<"}, 2), "main")>>},
     s \in {<< >>, <<McAsk(McDep("svc"), "main")>>}}
\* Worlds that have no solution: nothing or only an unnamed virtual provides a name, a dependency is
\* missing two steps away, a version is masked, packages exclude each other.
McUnsolvable ==
  {<<McAsk(McDep("nope"), "main")>>, <<McAsk(McDepV("plug", {">"}, 1), "main")>>,
   <<McAsk(McDep("app"), "main"), McAsk(McDepV("lib", {"="}, 3), "main")>>,
   <<McAsk(McDepV("app", {"="}, 2), "main"), McAsk(McDepV("ext", {"="}, 1), "main")>>,
   <<McAsk(McDepV("ext", {"="}, 2), "main"), McAsk(McDepV("lib", {"<"}, 3), "main")>>,
   <<McAsk(McNot("srv"), "main"), McAsk(McDep("svc"), "main")>>,
   <<McAsk(McDep("app"), "main"), McAsk(McNot("lib"), "main")>>}
McScenario(a, i, w, f, force) ==
  [pkgs |-> a \cup i, gone |-> i \ a, installed |-> i, world |-> w, flags |-> f,
   named |-> << >>, force |-> force]
\* A fresh root; one to upgrade; broken worlds, one of them with packages withdrawn.
McScenarios ==
  LET all == DOMAIN McPool
      some == {1, 3, 6, 9}
  IN  UNION {{McScenario(all, {}, w, {}, FALSE), McScenario(all, some, w, {"UPGRADE"}, FALSE),
              McScenario(all, some, w, {}, TRUE), McScenario(all \ {4, 7, 10}, some, w, {"UPGRADE"}, TRUE)} :
             w \in McWorlds}
      \cup UNION {{McScenario(all, {}, w, {}, FALSE), McScenario(all \ {7}, some, w, {"UPGRADE"}, FALSE)} :
                   w \in McUnsolvable}

-----------------------------------------------------------------------------
(* Archives, images, trees and files.                                          *)

\* An unsigned package without a data hash, a signed one with one, an index.
McArchives ==
  {<< <<"oldinfo", "script">> >>, << <<"sign">>, <<"pkginfo">>, <<"file">> >>,
   << <<"sign">>, <<"desc", "index">> >>}

\* Every action with every key, untrusted packages allowed or not; the file operation in half of them.
McRequests ==
  {<<action, key, allow, allow = (key = "none")>> :
     action \in {"VERIFY", "VERIFY_IDENTITY", "VERIFY_AND_GENERATE"},
     key \in {"none", "SHA1", "SHA256"}, allow \in BOOLEAN}

McNode(d, isdir, e, s) == [dir |-> d, isdir |-> isdir, ext |-> e, size |-> s]
McVd(type, root) == [type |-> type, root |-> root]
\* A hard linked and an empty file; a Joliet tree; extents that are out of order.
McImages ==
  {[vd |-> <<McVd("primary", 1), McVd("end", 0)>>,
    nodes |-> <<McNode(0, TRUE, 3, 1), McNode(1, TRUE, 4, 2), McNode(1, FALSE, 9, 2),
                McNode(2, FALSE, 7, 1), McNode(2, FALSE, 9, 2), McNode(1, FALSE, 12, 0)>>],
   [vd |-> <<McVd("primary", 1), McVd("joliet", 3), McVd("end", 0)>>,
    nodes |-> <<McNode(0, TRUE, 4, 1), McNode(1, FALSE, 8, 1), McNode(0, TRUE, 5, 1),
                McNode(3, TRUE, 6, 1), McNode(3, FALSE, 9, 1), McNode(4, FALSE, 8, 1)>>],
   [vd |-> <<McVd("primary", 1), McVd("end", 0)>>,
    nodes |-> <<McNode(0, TRUE, 4, 1), McNode(1, FALSE, 3, 1), McNode(1, TRUE, 7, 1),
                McNode(3, FALSE, 5, 1), McNode(1, FALSE, 8, 1)>>],
   [vd |-> <<McVd("primary", 1), McVd("end", 0)>>,
    nodes |-> <<McNode(0, TRUE, 3, 1), McNode(1, TRUE, 4, 1), McNode(1, FALSE, 5, 3),
                McNode(2, FALSE, 8, 3)>>]}

McEntry(t, n, s, l) == [type |-> t, name |-> n, size |-> s, long |-> l]
McTars ==
  {<<McEntry("5", "d", 0, 0), McEntry("0", "f", 5, 0), McEntry("2", "l", 0, 0),
     McEntry("1", "h", 0, 0), McEntry("0", "g", 4, 0)>>,
   <<McEntry("0", "a", 1, 0), McEntry("0", "b", 4, 3), McEntry("0", "c", 3, 0),
     McEntry("0", "d", 0, 6)>>,
   <<McEntry("0", "a", 1, 4), McEntry("0", "b", 2, 0)>>,
   <<McEntry("0", "a", 1, 4), McEntry("0", "b", 0, 8), McEntry("0", "c", 0, 0)>>, << >>}

McFile(k, i) == [kind |-> k, ino |-> i]
McDir(p, d, f) == [parent |-> p, default |-> d, files |-> f]
McData(n) == [ver |-> 1, size |-> n]
\* A hard link and an empty file in a subdirectory, a pruned directory.
McTrees ==
  {[tree |-> <<McDir(0, TRUE, << >>), McDir(1, TRUE, << >>),
               McDir(1, TRUE, <<McFile("reg", 1), McFile("reg", 1), McFile("reg", 2)>>)>>,
    data |-> <<McData(2), PkNothing>>]}

\* Databases.  Values in any order, copied into a new buffer and written there again; an object
\* between two values; a raw blob overwritten before or after others of the same bytes; arrays of
\* three objects that differ in their blobs or in their integers, or are equal, sorted and searched,
\* then copied or the raw blob overwritten.
McBlob(b, raw) == [call |-> "blob", data |-> b, raw |-> raw]
McInt(n) == [call |-> "int", data |-> n]
McObject(f) == [call |-> "object", fields |-> f]
McCopy(k) == [call |-> "copy", value |-> k]
McNewDb == [call |-> "new"]
McShort == <<1>>
McLongBlob == <<2, 3, 1>>
McRawBlob == McBlob(McLongBlob, TRUE)
McValues == {McBlob(McShort, FALSE), McBlob(McLongBlob, FALSE), McRawBlob, McInt(2), McInt(5), McInt(17)}
McField(v) == IF v.call = "blob" THEN <<1, 0>> ELSE <<0, 1>>
McArray(values, fields, unique, end) ==
  {values \o <<McObject(f), McObject(g), McObject(h), [call |-> "array", unique |-> unique]>> \o end :
     f \in fields, g \in fields, h \in fields}
McClients ==
  {<<v, w, x, McNewDb, McCopy(2), w, x, McCopy(3)>> : v \in McValues, w \in McValues, x \in McValues}
  \cup {<<v, McObject(McField(v)), w, McNewDb, w, McCopy(2), McCopy(3)>> : v \in McValues, w \in McValues}
  \cup {<<McRawBlob, v, w, [call |-> "patch", value |-> 1]>> : v \in McValues, w \in McValues}
  \cup {<<v, w, McRawBlob, [call |-> "patch", value |-> 3]>> : v \in McValues, w \in McValues}
  \cup McArray(<<McBlob(McLongBlob, FALSE), McInt(17), McBlob(McShort, FALSE)>>, ({0, 1, 3} \X {0, 2}) \ {<<0, 0>>},
                TRUE, <<McNewDb, McCopy(7)>>)
  \cup McArray(<<McRawBlob, McInt(5), McInt(2)>>, ({0, 1} \X {0, 2, 3}) \ {<<0, 0>>},
                FALSE, <<[call |-> "patch", value |-> 1]>>)

-----------------------------------------------------------------------------
(* Versions, dependencies and the world.                                       *)

McTok(k, v) == [k |-> k, v |-> v]
McOne == <<McTok("digits", <<1>>)>>
McTexts ==
  {<< >>, McOne, <<McTok("digits", <<0, 1>>)>>, <<McTok("digits", <<1, 0>>)>>}
  \cup {McOne \o t :
          t \in {<<McTok("dot", <<2>>)>>, <<McTok("dot", <<1, 0>>)>>, <<McTok("dot", <<0, 2>>)>>,
                 <<McTok("letter", <<1>>)>>, <<McTok("suffix", <<1>>)>>, <<McTok("suffix", <<10>>)>>,
                 <<McTok("suffix", <<10>>), McTok("digits", <<0, 2>>)>>, <<McTok("hash", <<10>>)>>,
                 <<McTok("rev", <<1>>)>>, <<McTok("rev", <<1, 0>>)>>, <<McTok("junk", << >>)>>}}
McArg(n, tag, ops, v) ==
  [file |-> FALSE, conf |-> FALSE, name |-> <<n>>, tag |-> tag, ops |-> ops, ver |-> v]
McArgs ==
  {McArg("a", "", << >>, VeNull), McArg("a", "t1", <<">", "=">>, McOne),
   McArg("b", "t2", <<"~">>, McOne), McArg("b", "t3", << >>, VeNull),
   [McArg("c", "", <<"<">>, McOne) EXCEPT !.conf = TRUE],
   McArg("c", "", <<"<", ">", "=">>, McOne), McArg("c", "u", << >>, VeNull),
   [McArg("a", "", << >>, <<McTok("hash", <<1>>)>>) EXCEPT !.file = TRUE],
   McArg("b", "", <<"=">>, McOne \o <<McTok("junk", << >>)>>)}
McVirtuals == {McArg("v", "", << >>, VeNull), McArg("v", "", <<">">>, McOne)}
McWorldNames == {<<"a">>, <<"b">>, <<"c">>}

-----------------------------------------------------------------------------
(* Audits, indexes, child processes, owners and cache commands.                *)

McOn(k) == [kind |-> k, content |-> TRUE, xattr |-> TRUE, perm |-> TRUE, readable |-> TRUE,
            apknew |-> FALSE]
McOwned == (<<"a", "f">> :> "p") @@ (<<"a", "b", "g">> :> "q") @@ (<<"a", "k">> :> "p")
McRoot == (<< >> :> McOn("dir")) @@ (<<"a">> :> McOn("dir"))
\* Modified and new files; a file turned into a directory and one gone with its directory.
McDisks ==
  {[McRoot EXCEPT ![<<"a">>].perm = FALSE]
     @@ (<<"a", "b">> :> McOn("dir")) @@ (<<"a", "f">> :> [McOn("file") EXCEPT !.content = FALSE])
     @@ (<<"a", "b", "g">> :> [McOn("file") EXCEPT !.perm = FALSE])
     @@ (<<"a", "b", "h">> :> [McOn("file") EXCEPT !.apknew = TRUE]) @@ (<<"r">> :> McOn("file")),
   McRoot @@ (<<"a", "c">> :> McOn("dir")) @@ (<<"a", "c", "f">> :> McOn("file"))
     @@ (<<"a", "f">> :> McOn("bblink")) @@ (<<"a", "k">> :> McOn("dir"))
     @@ (<<"a", "l">> :> [McOn("bblink") EXCEPT !.readable = FALSE])}
McProtect(c, pat) == apk_db_add_protected_path([char |-> c, pat |-> pat])
McProtected ==
  {<< >>, <<McProtect("+", <<"a">>), McProtect("-", <<"a", "b">>)>>,
   <<McProtect("-", <<"a">>), McProtect("!", <<"a", "b", "*">>)>>,
   <<McProtect("@", <<"a">>), McProtect("", <<"*", "c", "f">>), McProtect("-", <<"r">>)>>}
McAudits ==
  {[mode |-> m, recursive |-> TRUE, check_permissions |-> cp, packages_only |-> ~cp,
    ignore_busybox |-> ~cp, details |-> TRUE, args |-> <<IF cp THEN << >> ELSE <<"a">> >>, prot |-> prot,
    dirs |-> {<< >>, <<"a">>, <<"a", "b">>}, files |-> McOwned, disk |-> d] :
      m \in {"BACKUP", "SYSTEM", "FULL"}, cp \in BOOLEAN, prot \in McProtected, d \in McDisks}

McLine(k, v) == [k |-> k, v |-> v]
McBuild(f, o, id, extra) ==
  [v3 |-> FALSE, id |-> id, size |-> "s",
   meta |-> <<McLine("pkgname", f), McLine("pkgver", "1"), McLine("origin", o)>> \o extra]
McA1 == McBuild("a", "o", "a1", <<McLine("depend", <<"x">>), McLine("replaces", <<"y">>), McLine("depend", <<"y">>)>>)
McA2(o) == McBuild("a", o, "a2", <<McLine("provider_priority", "10"), McLine("packager", "p")>>)
McTwiceIf == McBuild("b", "o", "b1", <<McLine("install_if", <<"x">>), McLine("install_if", <<"y">>)>>)
McBadDep == McBuild("b", "o", "b2", <<McLine("depend", <<"x", "broken">>)>>)
McV3 == [McBuild("b", "o", "b3", << >>) EXCEPT !.v3 = TRUE,
           !.meta = [IxBlank EXCEPT !["P"] = "b", !["V"] = "1", !["r"] = <<"x">>]]
McOption(t, i, m, p) == [tool |-> t, incremental |-> i, merge |-> m, prune |-> p]
McIndex == {McOption("index", TRUE, TRUE, p) : p \in BOOLEAN} \cup {McOption("index", TRUE, FALSE, FALSE)}
McMkndx == {McOption("mkndx", i, FALSE, FALSE) : i \in BOOLEAN}
McRepo(as, bs, options, runs) == [builds |-> ("a" :> as) @@ ("b" :> bs), options |-> options, runs |-> runs]
\* Two builds of one version and size, of one origin or of two; one that repeats install_if, one with
\* a dependency that does not parse, and a v3 package.
McRepos ==
  {McRepo(<<McA1, McA2("o")>>, << >>, McIndex, 3), McRepo(<<McA1, McA2("p")>>, << >>, McIndex, 2),
   McRepo(<<McA1>>, <<McV3, McTwiceIf>>, McMkndx \cup {McOption("index", TRUE, FALSE, FALSE)}, 2),
   McRepo(<<McA1, McA2("o")>>, <<McV3>>, McMkndx, 2),
   McRepo(<<McA1>>, <<McBadDep>>, McIndex \cup McMkndx, 1)}

McUrls == {<<"a", TRUE, FALSE>>, <<"b", FALSE, TRUE>>}
\* The connection that is asked for behind another one; two that are closed at once.
McCaches == {<< <<"b", FALSE>>, <<"a", TRUE>> >>, << <<"a", FALSE>>, <<"b", FALSE>> >>}

McWrites(fd, bytes) == [i \in DOMAIN bytes |-> [fd |-> fd, byte |-> bytes[i]]]
McReads(n) == [i \in 1..n |-> [fd |-> "in", byte |-> "x"]]
McChild(k, ops, e, f, ff) == [kind |-> k, ops |-> ops, exit |-> e, feed |-> f, feedFails |-> ff]
McTalk == McWrites("err", <<"x", PrLF, "*", " ", "x">>) \o McWrites("out", <<"x", "x", PrLF, "*">>)
\* A line as long as the buffer.
McLong == McWrites("out", <<"x", "x", "x", "x", PrLF>>) \o McWrites("err", <<"x">>)
McEat == McWrites("out", <<"x">>) \o McReads(1) \o McWrites("err", <<"x", PrLF, "x">>) \o McReads(2)
McQuit == McReads(1) \o McWrites("out", <<"x", PrLF, "x", PrLF, "x">>)
McPrograms ==
  {McChild(k, ops, e, 0, FALSE) : k \in {"script", "stream"}, ops \in {McTalk, McLong, McQuit}, e \in {0, 4}}
  \cup {McChild("feed", ops, 0, n, fails) : ops \in {McEat, McQuit, McTalk}, n \in {1, 3, 5}, fails \in BOOLEAN}

McHash == ("root" :> 0) @@ ("a" :> 2) @@ ("b" :> 3)
McIdFiles ==
  {<< >>, << <<"root", 0>>, <<"a", 1>> >>, << <<"root", 0>>, <<"a", 2>>, <<"b", 0>> >>,
   << <<"a", 1>>, <<"b", 1>>, <<"a", 3>> >>}

\* All but sync take the database lock, so it is sync that comes in beside another command.
CONSTANTS p1, p2

McCommands ==
  (p1 :> {<<"update", TRUE, FALSE>>, <<"upgrade", TRUE, FALSE>>, <<"sync", TRUE, FALSE>>,
          <<"boot", FALSE, FALSE>>})
    @@ (p2 :> {<<"sync", TRUE, FALSE>>})

-----------------------------------------------------------------------------
(* lbu commands: commits that keep no backup or one, that delete, that only    *)
(* show, that encrypt; reverts; a path included and excluded.                  *)

McLbUsers ==
  {{LbCommit(FALSE, FALSE, FALSE, 0), LbCommit(FALSE, FALSE, FALSE, 1), LbCommit(TRUE, FALSE, FALSE, 0),
   LbCommit(FALSE, TRUE, FALSE, 0), LbCommit(FALSE, FALSE, TRUE, 1), LbRevert(FALSE, 1)},
   {LbInclude("a", "+"), LbInclude("a", "-")}}

-----------------------------------------------------------------------------
(* Packages whose strings hold every pair of the characters that YAML minds,   *)
(* as a name, a description, an item of an array or a script; parts of one.    *)

McYmChars == {"a", " ", ":", "#", "-", "'", "|", "\n", "\""}
McYmStrings ==
  {<<c>> : c \in McYmChars} \cup {<<c, d>> : c \in McYmChars, d \in {"a", " ", ":", "#", "\n"}} \cup {<<"a", c, " ">> : c \in {":", "-", "\n"}}
  \cup {<<"a", " ", "#">>, <<"a", ":", " ", "a">>, <<" ", " ", "a">>, <<"a", "\n", "-", " ", "a">>,
        <<"a", "\n", "\n", "a">>, <<"a", "\n", " ", " ", "a">>, <<"a", "\n", "a", "\n", "a", "\n", "a">>}
McYmDb(name, description, trigger, script) ==
  [info |-> [name |-> <<"a">>, description |-> description],
   paths |-> << [name |-> name, files |-> << [name |-> <<"a">>, size |-> <<"n">>], [size |-> <<"n">>] >>],
                [name |-> <<"a">>] >>,
   scripts |-> ("trigger" :> script @@ "pre-install" :> <<"a">>),
   triggers |-> << trigger, <<"a">> >>]
McYmDocs ==
  LET a == <<"a">>
      whole == McYmDb(a, a, a, a)
      dbs == UNION {{McYmDb(s, a, a, a), McYmDb(a, s, a, a), McYmDb(a, a, s, a), McYmDb(a, a, a, s)} : s \in McYmStrings}
  IN  {[db |-> d, signed |-> FALSE] : d \in dbs}
      \cup {[db |-> [f \in part |-> whole[f]], signed |-> b] : part \in SUBSET DOMAIN whole, b \in BOOLEAN}

-----------------------------------------------------------------------------
VARIABLE focus  \* the component whose behaviour this is

mcVars == <<focus, afVars, sv, er, isVars, lfVars, caVars, osVars, ex, un, tr, pkVars, ad,
     veVars, au, ix, pr, ic, lb, uk, ym>>

Turn(component) == focus \in {"none", component} /\ focus' = component

Init ==
  /\ focus = "none"
  /\ AfInit /\ SvInit /\ ErInit /\ IsInit /\ LfInit /\ CaInit /\ OsInit /\ ExInit /\ UnInit /\ TrInit
       /\ PkInit /\ AdInit /\ VeInit /\ AuInit /\ IxInit /\ PrInit /\ IdInit /\ LbInit /\ UkInit /\ YmInit

FetchStep(p) ==
  /\ Turn("af") /\ AfStep(p)
  /\ UNCHANGED <<sv, er, isVars, lfVars, caVars, osVars, ex, un, tr, pkVars, ad, veVars, au,
       ix, pr, ic, lb, uk, ym>>

FetchFault ==
  /\ Turn("af") /\ \E p \in AfProc : AfFault(p)
  /\ UNCHANGED <<sv, er, isVars, lfVars, caVars, osVars, ex, un, tr, pkVars, ad, veVars, au,
       ix, pr, ic, lb, uk, ym>>

SolverStep ==
  /\ Turn("sv") /\ SvNext
  /\ UNCHANGED <<afVars, er, isVars, lfVars, caVars, osVars, ex, un, tr, pkVars, ad, veVars,
       au, ix, pr, ic, lb, uk, ym>>

ErrorsStep ==
  /\ Turn("sv") /\ ErNext
  /\ UNCHANGED <<afVars, isVars, lfVars, caVars, osVars, ex, un, tr, pkVars, ad, veVars, au, ix,
       pr, ic, lb, uk, ym>>

IstreamStep ==
  /\ Turn("is") /\ IsNext
  /\ UNCHANGED <<afVars, sv, er, lfVars, caVars, osVars, ex, un, tr, pkVars, ad, veVars, au,
       ix, pr, ic, lb, uk, ym>>

HttpFetchStep ==
  /\ Turn("lf") /\ LfNext
  /\ UNCHANGED <<afVars, sv, er, isVars, caVars, osVars, ex, un, tr, pkVars, ad, veVars, au,
       ix, pr, ic, lb, uk, ym>>

CacheStep ==
  /\ Turn("ca") /\ CaNext
  /\ UNCHANGED <<afVars, sv, er, isVars, lfVars, osVars, ex, un, tr, pkVars, ad, veVars, au,
       ix, pr, ic, lb, uk, ym>>

OstreamStep ==
  /\ Turn("os") /\ OsNext
  /\ UNCHANGED <<afVars, sv, er, isVars, lfVars, caVars, ex, un, tr, pkVars, ad, veVars, au,
       ix, pr, ic, lb, uk, ym>>

ExtractStep ==
  /\ Turn("ex") /\ ExNext
  /\ UNCHANGED <<afVars, sv, er, isVars, lfVars, caVars, osVars, un, tr, pkVars, ad, veVars,
       au, ix, pr, ic, lb, uk, ym>>

IsoStep ==
  /\ Turn("un") /\ UnNext
  /\ UNCHANGED <<afVars, sv, er, isVars, lfVars, caVars, osVars, ex, tr, pkVars, ad, veVars,
       au, ix, pr, ic, lb, uk, ym>>

TarStep ==
  /\ Turn("tr") /\ TrNext
  /\ UNCHANGED <<afVars, sv, er, isVars, lfVars, caVars, osVars, ex, un, pkVars, ad, veVars,
       au, ix, pr, ic, lb, uk, ym>>

PackageStep ==
  /\ Turn("pk") /\ PkNext
  /\ UNCHANGED <<afVars, sv, er, isVars, lfVars, caVars, osVars, ex, un, tr, ad, veVars, au,
       ix, pr, ic, lb, uk, ym>>

AdbStep ==
  /\ Turn("ad") /\ AdNext
  /\ UNCHANGED <<afVars, sv, er, isVars, lfVars, caVars, osVars, ex, un, tr, pkVars, veVars,
       au, ix, pr, ic, lb, uk, ym>>

VersionStep ==
  /\ Turn("ve") /\ VeNextStep
  /\ UNCHANGED <<afVars, sv, er, isVars, lfVars, caVars, osVars, ex, un, tr, pkVars, ad, au,
       ix, pr, ic, lb, uk, ym>>

AuditStep ==
  /\ Turn("au") /\ AuNext
  /\ UNCHANGED <<afVars, sv, er, isVars, lfVars, caVars, osVars, ex, un, tr, pkVars, ad,
       veVars, ix, pr, ic, lb, uk, ym>>

IndexStep ==
  /\ Turn("ix") /\ IxNext
  /\ UNCHANGED <<afVars, sv, er, isVars, lfVars, caVars, osVars, ex, un, tr, pkVars, ad,
       veVars, au, pr, ic, lb, uk, ym>>

ProcessStep ==
  /\ Turn("pr") /\ PrNext
  /\ UNCHANGED <<afVars, sv, er, isVars, lfVars, caVars, osVars, ex, un, tr, pkVars, ad,
       veVars, au, ix, ic, lb, uk, ym>>

IdsStep ==
  /\ Turn("ic") /\ IdNext
  /\ UNCHANGED <<afVars, sv, er, isVars, lfVars, caVars, osVars, ex, un, tr, pkVars, ad,
       veVars, au, ix, pr, lb, uk, ym>>

LbuStep ==
  /\ Turn("lb") /\ LbNext
  /\ UNCHANGED <<afVars, sv, er, isVars, lfVars, caVars, osVars, ex, un, tr, pkVars, ad, veVars, au, ix,
       pr, ic, uk, ym>>

KernelStep ==
  /\ Turn("uk") /\ UkNext
  /\ UNCHANGED <<afVars, sv, er, isVars, lfVars, caVars, osVars, ex, un, tr, pkVars, ad, veVars, au, ix,
       pr, ic, lb, ym>>

TextStep ==
  /\ Turn("ym") /\ YmNext
  /\ UNCHANGED <<afVars, sv, er, isVars, lfVars, caVars, osVars, ex, un, tr, pkVars, ad, veVars, au, ix,
       pr, ic, lb, uk>>

Next ==
  \/ FetchFault \/ \E p \in AfProc : FetchStep(p)
  \/ SolverStep \/ ErrorsStep \/ IstreamStep \/ HttpFetchStep \/ CacheStep \/ OstreamStep \/ ExtractStep
       \/ IsoStep \/ TarStep \/ PackageStep \/ AdbStep \/ VersionStep \/ AuditStep \/
       IndexStep \/ ProcessStep \/ IdsStep \/ LbuStep \/ KernelStep \/ TextStep

(* What runs keeps running: a fetch, an extraction of an image or a child and  *)
(* its parent as long as one of their steps is possible, the solver always.    *)
Running == (\E p \in AfProc : FetchStep(p)) \/ IsoStep \/ ProcessStep

Spec == Init /\ [][Next]_mcVars /\ WF_mcVars(Running) /\ SvFairness

\* What was begun ends: a fetch gets the lock or the file, the solver's loop decides, the
\* image is read to its end, and neither apk nor its child waits for the other for ever.
ComponentsEnd == AfTermination /\ SvTermination /\ UnTermination /\ PrTermination
=============================================================================
