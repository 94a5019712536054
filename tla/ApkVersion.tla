----------------------------- MODULE ApkVersion -----------------------------
(***************************************************************************)
(* Version comparison (apk-tools/src/version.c), the dependency notation   *)
(* built on it (package.c) and the world file it is kept in.               *)
(*                                                                         *)
(* A version text is a sequence of lexemes [k, v]: k is the class of the   *)
(* first character token_next switches on, v the digits, letters or suffix *)
(* rank that follow it.  A dependency text is what lies between two        *)
(* separators: [!]name[@tag][ops version].                                 *)
(***************************************************************************)
EXTENDS Naturals, Sequences, FiniteSets, SequencesExt, FiniteSetsExt

CONSTANTS
  VeTexts,      \* version texts that are compared
  VeWord,       \* numbers wrap at this value (2^64 in the code)
  VwArgs,       \* arguments of apk add
  VwVirtuals,   \* arguments of apk add --virtual
  VwNames,      \* names apk del may be given
  VwRepoTags,   \* tags some repository of the repositories file carries
  VwMaxTags,    \* APK_MAX_TAGS
  VwMaxRuns     \* bound: commands run

ASSUME VeAssumption == VeWord \in Nat \ {0} /\ VwMaxTags \in Nat \ {0}

VARIABLES
  ve,   \* the three versions being compared
  vw    \* the world: db->world, the tag table, the file, and what was asked for

veVars == <<ve, vw>>

----------------------------------------------------------------------------
(* Tokens of a version, in the order of enum PARTS *)

VeInitialDigit == 0
VeDigit        == 1
VeLetter       == 2
VeSuffix       == 3
VeSuffixNo     == 4
VeCommitHash   == 5
VeRevisionNo   == 6
VeEnd          == 7
VeInvalid      == 8

\* Ranks of the suffixes: alpha, beta, pre, rc, (none), cvs, svn, git, hg, p.
VeSuffixInvalid == 0
VeSuffixNone    == 5
VeSuffixRank    == 0..10

VeNull == << [k |-> "null", v |-> <<>>] >>

VeTok(token, v) == [token |-> token, v |-> v]

\* token_parse_digits: a number without digits makes the token invalid.
VeDigits(token, v) == VeTok(IF v = <<>> THEN VeInvalid ELSE token, v)

VeNumber(v) == FoldLeft(LAMBDA n, d : (10 * n + d) % VeWord, 0, v)

VeFirst(s) ==
  IF s # <<>> /\ s[1].k = "digits"
  THEN VeDigits(VeInitialDigit, s[1].v) ELSE VeTok(VeInvalid, <<>>)

\* token_next: the next lexeme x after the token prev.
VeNext(prev, x) ==
  LET no == VeTok(VeInvalid, <<>>)
  IN CASE x.k = "letter" ->
            IF prev > VeDigit THEN no ELSE VeTok(VeLetter, x.v)
       [] x.k \in {"dot", "digits"} ->
            CASE x.k = "dot" /\ prev > VeDigit -> no
              [] prev \in {VeInitialDigit, VeDigit} -> VeDigits(VeDigit, x.v)
              [] prev = VeSuffix -> VeDigits(VeSuffixNo, x.v)
              [] OTHER -> no
       [] x.k = "suffix" ->
            IF prev > VeSuffixNo \/ x.v[1] = VeSuffixInvalid
            THEN no ELSE VeTok(VeSuffix, x.v)
       [] x.k = "hash" ->
            IF prev >= VeCommitHash \/ x.v = <<>>
            THEN no ELSE VeTok(VeCommitHash, x.v)
       [] x.k = "rev" ->
            IF prev >= VeRevisionNo THEN no ELSE VeDigits(VeRevisionNo, x.v)
       [] OTHER -> no

\* The tokens of a text up to and including the END or INVALID that stops them.
VeTokens(s) ==
  LET t[i \in 1..Len(s) + 1] ==
        IF i = 1 THEN VeFirst(s)
        ELSE IF t[i - 1].token = VeInvalid THEN t[i - 1]
        ELSE IF i > Len(s) THEN VeTok(VeEnd, <<>>)
        ELSE VeNext(t[i - 1].token, s[i])
  IN t

apk_version_validate(s) == Last(VeTokens(s)).token = VeEnd

VeOrder(a, b) == IF a < b THEN "LESS" ELSE IF a > b THEN "GREATER" ELSE "EQUAL"

\* apk_blob_sort: byte order, a proper prefix first.
VeSort(u, v) ==
  LET differ == {i \in 1..Len(u) : i <= Len(v) /\ u[i] # v[i]}
  IN IF differ = {} THEN VeOrder(Len(u), Len(v))
     ELSE LET i == CHOOSE i \in differ : \A j \in differ : i <= j
          IN VeOrder(u[i], v[i])

\* Numeric, except that components after the first with a leading zero on
\* either side are compared as text; letters, suffixes and hashes by rank.
VeTokenCmp(ta, tb) ==
  CASE ta.token = VeDigit /\ (ta.v[1] = 0 \/ tb.v[1] = 0) -> VeSort(ta.v, tb.v)
    [] ta.token \in {VeDigit, VeInitialDigit, VeSuffixNo, VeRevisionNo} ->
         VeOrder(VeNumber(ta.v), VeNumber(tb.v))
    [] OTHER -> VeSort(ta.v, tb.v)

VePreRelease(t) == t.token = VeSuffix /\ t.v[1] < VeSuffixNone

\* A mistake VeTotalOrder must notice: only the left side's pre-release
\* suffix is looked at.
VeTailOneSided(ta, tb, fuzzy) ==
  CASE ta.token = tb.token          -> "EQUAL"
    [] tb.token = VeEnd /\ fuzzy    -> "EQUAL"
    [] VePreRelease(ta)             -> "LESS"
    [] OTHER                        -> VeOrder(tb.token, ta.token)

\* The end of apk_version_compare_fuzzy: the first tokens of different kinds,
\* or the two that stop both texts.
VeTail(ta, tb, fuzzy) ==
  CASE ta.token = tb.token          -> "EQUAL"
    [] tb.token = VeEnd /\ fuzzy    -> "EQUAL"
    [] VePreRelease(ta)             -> "LESS"
    [] VePreRelease(tb)             -> "GREATER"
    [] OTHER                        -> VeOrder(tb.token, ta.token)

apk_version_compare_fuzzy(a, b, fuzzy) ==
  IF a = VeNull \/ b = VeNull
  THEN IF a = b THEN {"EQUAL"} ELSE {"EQUAL", "GREATER", "LESS"}
  ELSE LET s  == VeTokens(a)
           t  == VeTokens(b)
           go(i) == s[i].token = t[i].token /\ s[i].token < VeEnd
                      /\ VeTokenCmp(s[i], t[i]) = "EQUAL"
           n  == CHOOSE i \in 1..Len(s) : ~go(i) /\ \A j \in 1..i - 1 : go(j)
       IN IF s[n].token = t[n].token /\ s[n].token < VeEnd
          THEN {VeTokenCmp(s[n], t[n])}
          ELSE {VeTail(s[n], t[n], fuzzy)}

apk_version_compare(a, b) == apk_version_compare_fuzzy(a, b, FALSE)

VeAny      == {"EQUAL", "LESS", "GREATER"}
VeChecksum == {"LESS", "GREATER"}

apk_version_match(a, op, b) ==
  LET ok == VeAny \subseteq op
              \/ apk_version_compare_fuzzy(a, b, "FUZZY" \in op) \cap op # {}
  IN IF "CONFLICT" \in op THEN ~ok ELSE ok

----------------------------------------------------------------------------
(* Operators of a dependency *)

apk_version_result_mask_blob(chars) ==
  LET mask == [c \in {"<", ">", "=", "~"} |->
                 CASE c = "<" -> {"LESS"} [] c = ">" -> {"GREATER"}
                   [] c = "=" -> {"EQUAL"} [] c = "~" -> {"FUZZY", "EQUAL"}]
  IN UNION {mask[chars[i]] : i \in 1..Len(chars)}

\* Masks that no notation stands for print as "?", a version with no
\* constraint at all as "" (both leave the version glued to the name).
apk_version_op_string(op) ==
  LET o == op \ {"CONFLICT"}
  IN CASE o = {"LESS"}                      -> <<"<">>
       [] o = {"LESS", "EQUAL"}             -> <<"<", "=">>
       [] o = {"LESS", "EQUAL", "FUZZY"}    -> <<"<", "~">>
       [] o \in {{"EQUAL", "FUZZY"}, {"FUZZY"}} -> <<"~">>
       [] o = {"EQUAL"}                     -> <<"=">>
       [] o = {"GREATER", "EQUAL"}          -> <<">", "=">>
       [] o = {"GREATER", "EQUAL", "FUZZY"} -> <<">", "~">>
       [] o = {"GREATER"}                   -> <<">">>
       [] o = VeChecksum                    -> <<">", "<">>
       [] OTHER                             -> <<>>

\* apk_dep_parse: the mask and the version of a text.
apk_dep_parse(x) ==
  LET sign == IF x.conf THEN {"CONFLICT"} ELSE {}
  IN IF x.ops = <<>> THEN [op |-> sign \cup VeAny, ver |-> VeNull]
     ELSE [op |-> sign \cup apk_version_result_mask_blob(x.ops), ver |-> x.ver]

----------------------------------------------------------------------------
(* Tags: id 0 is the default tag, id i the i-th name of the table.  A tag    *)
(* that finds the table full gets -1, kept in six bits.                      *)

VwNoTag  == 0
VwLostId == 63

apk_db_get_tag_id(tags, tag) ==
  CASE tag = ""                   -> [id |-> VwNoTag, tags |-> tags]
    [] Contains(tags, tag)        ->
         [id |-> CHOOSE i \in 1..Len(tags) : tags[i] = tag, tags |-> tags]
    [] Len(tags) + 1 >= VwMaxTags -> [id |-> VwLostId, tags |-> tags]
    [] OTHER -> [id |-> Len(tags) + 1, tags |-> Append(tags, tag)]

VwTagText(tags, id) ==
  IF id = VwNoTag THEN "" ELSE IF id <= Len(tags) THEN tags[id] ELSE "wild"

\* apk_blob_pull_dep: ok is FALSE where the code leaves *b null.
apk_blob_pull_dep(x, tags, allow_tag) ==
  LET p == apk_dep_parse(x)
      g == apk_db_get_tag_id(tags, x.tag)
  IN [ok   |-> x.tag = "" \/ allow_tag,
      tags |-> IF allow_tag THEN g.tags ELSE tags,
      dep  |-> [name |-> x.name, op |-> p.op, ver |-> p.ver, tag |-> g.id,
                broken |-> ~(VeChecksum \subseteq p.op)
                             /\ ~apk_version_validate(p.ver)]]

\* apk_dep_from_pkg: a package file is asked for by its identity.
apk_dep_from_pkg(x) ==
  [name |-> x.name, op |-> VeChecksum, ver |-> x.ver, tag |-> VwNoTag,
   broken |-> FALSE]

\* apk_blob_pull_deps: a dependency that does not parse drops the rest of the
\* text, a broken version is kept and reported.
apk_blob_pull_deps(texts, tags, allow_tag) ==
  FoldLeft(LAMBDA r, x :
             IF ~r.go THEN r
             ELSE LET d == apk_blob_pull_dep(x, r.tags, allow_tag)
                  IN IF d.ok
                     THEN [r EXCEPT !.deps = Append(@, d.dep), !.tags = d.tags,
                                    !.rc = IF d.dep.broken THEN 1 ELSE @]
                     ELSE [r EXCEPT !.go = FALSE, !.rc = 1],
           [deps |-> <<>>, tags |-> tags, rc |-> 0, go |-> TRUE], texts)

\* apk_blob_push_dep: what the dependency looks like in the file.  A version
\* behind an operator that prints as nothing becomes part of the name or tag.
apk_blob_push_dep(dep, tags) ==
  LET tag  == VwTagText(tags, dep.tag)
      ops  == IF dep.ver = VeNull THEN <<>> ELSE apk_version_op_string(dep.op)
      glue == dep.ver # VeNull /\ ops = <<>>
  IN [file |-> FALSE, conf |-> "CONFLICT" \in dep.op,
      name |-> IF glue /\ tag = "" THEN Append(dep.name, "glued") ELSE dep.name,
      tag  |-> IF glue /\ tag # "" THEN "glued" ELSE tag,
      ops  |-> ops, ver |-> IF ops = <<>> THEN VeNull ELSE dep.ver]

apk_deps_write_layer(deps, tags) ==
  [i \in 1..Len(deps) |-> apk_blob_push_dep(deps[i], tags)]

apk_deps_add(deps, dep) ==
  LET at == SelectInSeq(deps, LAMBDA d : d.name = dep.name)
  IN IF at = 0 THEN Append(deps, dep) ELSE [deps EXCEPT ![at] = dep]

\* The last dependency moves into the hole.
apk_deps_del(deps, name) ==
  LET at == SelectInSeq(deps, LAMBDA d : d.name = name)
  IN IF at = 0 THEN deps ELSE Front([deps EXCEPT ![at] = Last(deps)])

\* apk_db_check_world: dependencies whose tag no repository carries.  The
\* entry behind the lost id is read from outside the table: either outcome.
apk_db_check_world(deps, tags) ==
  {bad \in SUBSET {i \in 1..Len(deps) : deps[i].tag # VwNoTag} :
     \A i \in 1..Len(deps) : deps[i].tag \notin {VwNoTag, VwLostId} =>
        (i \in bad <=> tags[deps[i].tag] \notin VwRepoTags)}

----------------------------------------------------------------------------
(* The world across apk commands *)

\* What a text asks for, whatever the tables hold.
VwAsked(x) ==
  LET p == apk_dep_parse(x)
  IN IF x.file
     THEN [name |-> x.name, op |-> VeChecksum, ver |-> x.ver, tag |-> ""]
     ELSE [name |-> x.name, op |-> p.op, ver |-> p.ver, tag |-> x.tag]

VwMeaning(dep, tags) ==
  [name |-> dep.name, op |-> dep.op, ver |-> dep.ver,
   tag |-> VwTagText(tags, dep.tag)]

\* One argument of add_main: file or dependency.
VwArg(x, tags, virtual) ==
  IF x.file THEN [ok |-> TRUE, tags |-> tags, dep |-> apk_dep_from_pkg(x)]
  ELSE LET d == apk_blob_pull_dep(x, tags, ~virtual)
       IN [d EXCEPT !.ok = @ /\ ~d.dep.broken]

\* The arguments of add_main in order; one bad argument refuses the command.
VwParseArgs(args, deps, tags, virtual) ==
  FoldLeft(LAMBDA r, x :
             LET d == VwArg(x, r.tags, virtual)
             IN IF r.ok /\ d.ok
                THEN [r EXCEPT !.deps = apk_deps_add(@, d.dep), !.tags = d.tags]
                ELSE [r EXCEPT !.ok = FALSE],
           [deps |-> deps, tags |-> tags, ok |-> TRUE], args)

\* The dependency on a virtual package: refused unless it is a plain name or
\* name=version; a plain name gets a version made from the clock.
VwGenerated == << [k |-> "digits", v |-> <<2>>], [k |-> "dot", v |-> <<1>>] >>

VwVirtualDep(x, tags) ==
  LET d == apk_blob_pull_dep(x, tags, TRUE)
      v == d.dep
  IN IF v.op = VeAny /\ v.ver = VeNull
     THEN [d EXCEPT !.dep = [v EXCEPT !.op = {"EQUAL"}, !.ver = VwGenerated]]
     ELSE [d EXCEPT !.ok = @ /\ v.op = {"EQUAL"} /\ ~v.broken]

VwInit ==
  vw = [open |-> FALSE, world |-> <<>>, tags |-> <<>>, file |-> <<>>,
        want |-> {}, odd |-> FALSE, runs |-> 0]

\* apk_db_read_layer for the world, then the tags of the repositories file.
VwOpen ==
  /\ ~vw.open /\ ~vw.odd
  /\ LET r == apk_blob_pull_deps(vw.file, <<>>, TRUE)
         t == FoldSet(LAMBDA tag, ts : apk_db_get_tag_id(ts, tag).tags,
                      r.tags, VwRepoTags)
     IN vw' = [vw EXCEPT !.open = TRUE, !.world = r.deps, !.tags = t]
  /\ UNCHANGED ve

\* apk_solver_commit: refused for a missing tag or by the solver; otherwise
\* the new world replaces db->world and is written.
VwCommit(deps, tags, want) ==
  \E bad \in apk_db_check_world(deps, tags), solved \in BOOLEAN :
    vw' = IF bad = {} /\ solved
          THEN [vw EXCEPT !.open = FALSE, !.world = deps, !.tags = tags,
                          !.file = apk_deps_write_layer(deps, tags),
                          !.want = want, !.runs = @ + 1,
                          !.odd = \E i \in 1..Len(deps) :
                             \/ deps[i].tag = VwLostId
                             \/ deps[i].ver # VeNull
                                  /\ apk_version_op_string(deps[i].op) = <<>>]
          ELSE [vw EXCEPT !.open = FALSE, !.runs = @ + 1]

VwReplace(want, asked) == {w \in want : w.name # asked.name} \cup {asked}

VwRefuse == vw' = [vw EXCEPT !.open = FALSE, !.runs = @ + 1]

\* add_main without --virtual
VwAdd(args) ==
  /\ LET r == VwParseArgs(args, vw.world, vw.tags, FALSE)
     IN IF r.ok
        THEN VwCommit(r.deps, r.tags,
                      FoldLeft(LAMBDA w, x : VwReplace(w, VwAsked(x)), vw.want, args))
        ELSE VwRefuse
  /\ UNCHANGED ve

\* add_main with --virtual: the arguments become the virtual package's
\* dependencies, the world gets one on the virtual package.
VwAddVirtual(x, args) ==
  /\ LET v == VwVirtualDep(x, vw.tags)
         r == VwParseArgs(args, <<>>, v.tags, TRUE)
     IN IF v.ok /\ r.ok
        THEN VwCommit(apk_deps_add(vw.world, v.dep), r.tags,
                      VwReplace(vw.want, VwMeaning(v.dep, v.tags)))
        ELSE VwRefuse
  /\ UNCHANGED ve

\* del_main: the names given, and those of packages removed with them.
VwDel(names) ==
  /\ VwCommit(FoldSet(LAMBDA n, deps : apk_deps_del(deps, n), vw.world, names),
              vw.tags, {w \in vw.want : w.name \notin names})
  /\ UNCHANGED ve

VeCompare(a, b, c) == ve' = <<a, b, c>> /\ UNCHANGED vw

VeInit == ve = <<>> /\ VwInit

VeNextStep ==
  \/ ve = <<>> /\ vw.runs = 0 /\ ~vw.open
       /\ \E a, b, c \in VeTexts : VeCompare(a, b, c)
  \/ ve = <<>> /\ vw.runs < VwMaxRuns /\ VwOpen
  \/ vw.open /\ \E x \in VwArgs, y \in VwArgs : VwAdd(<<x, y>>)
  \/ vw.open /\ \E x \in VwVirtuals, y \in VwArgs : VwAddVirtual(x, <<y>>)
  \/ vw.open /\ \E names \in SUBSET VwNames : names # {} /\ VwDel(names)

VeSpec == VeInit /\ [][VeNextStep]_veVars

----------------------------------------------------------------------------
(* Properties *)

\* The shape of the state: three texts or none, and a world whose tag ids are
\* in the table or the one id that marks a full table (package.c:193-227).
VeTypeOK ==
  /\ ve = <<>> \/ ve \in VeTexts \X VeTexts \X VeTexts
  /\ Len(vw.tags) < VwMaxTags
  /\ \A i \in 1..Len(vw.world) :
       vw.world[i].tag \in {VwLostId} \cup 0..Len(vw.tags)

\* apk_version_compare orders all texts, malformed ones included, totally: it
\* answers one of less, equal and greater, the opposite when asked the other
\* way round, and it is transitive, equality included (version.c:281-316).
\* Sorting providers and picking the newest package rely on it.
VeTotalOrder ==
  ve # <<>> =>
    \A cmp \in {[i, j \in 1..3 |-> apk_version_compare(ve[i], ve[j])]} :
      LET le(i, j) == cmp[i, j] # {"GREATER"}
      IN /\ cmp[1, 1] = {"EQUAL"}
         /\ le(1, 2) \/ le(2, 1)
         /\ cmp[1, 2] = {"GREATER"} <=> cmp[2, 1] = {"LESS"}
         /\ le(1, 2) /\ le(2, 3) => le(1, 3)

\* "~" means what apk-world(5) calls a prefix match: a matches ~b exactly when
\* the components of b, compared one by one, begin a (version.c:301-302), or
\* both become malformed at the same place.
VeFuzzyIsPrefix ==
  ve # <<>> =>
    LET s == VeTokens(ve[1])
        t == VeTokens(ve[2])
        same(n) == \A i \in 1..n : s[i].token = t[i].token /\ s[i].token < VeEnd
                     /\ VeTokenCmp(s[i], t[i]) = "EQUAL"
    IN apk_version_match(ve[1], {"EQUAL", "FUZZY"}, ve[2])
         <=> \E n \in 0..Len(s) - 1 :
               /\ n < Len(t) /\ same(n)
               /\ \/ t[n + 1].token = VeEnd
                  \/ s[n + 1].token = VeInvalid /\ t[n + 1].token = VeInvalid

\* The world an apk command starts from is exactly what the commands before it
\* asked for: one constraint per name, with its operator, version and tag, none
\* lost when another is removed (package.c:170-191), changed by being written
\* and parsed again (package.c:193-245, 303-349) or attached to another tag
\* when the table is rebuilt in a different order (database.c:2369-2403).
\* odd marks the two texts that have no faithful notation: a tag that found the
\* table full, and an operator that accepts every version.
VwWorldKept ==
  vw.open =>
    /\ {VwMeaning(vw.world[i], vw.tags) : i \in 1..Len(vw.world)} = vw.want
    /\ Len(vw.world) = Cardinality({w.name : w \in vw.want})

\* Versions are totally ordered, a fuzzy match is a prefix that ends between tokens, and a
\* dependency of world that no command named survives.
VeCorrect ==
  ve # <<>> \/ vw.open \/ vw.runs > 0 =>
    VeTypeOK /\ VeTotalOrder /\ VeFuzzyIsPrefix /\ VwWorldKept
=============================================================================
