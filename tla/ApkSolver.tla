------------------------------ MODULE ApkSolver ------------------------------
(* The dependency solver of apk (apk-tools/src/solver.c).  A run of            *)
(* apk_solver_solve is a sequence of steps on one record, sv: discover, apply  *)
(* a world dependency, reconsider a dirty name, select a package for a name,   *)
(* generate the changeset, and with --force-broken-world restart.  sv.nm[n] is *)
(* struct apk_solver_name_state and sv.pk[p] struct apk_solver_package_state.  *)
(* Packages are positions in SvPool, in the order the database loaded them;    *)
(* 0 is no package.  Versions are numbers; 0 is apk_atom_null.                 *)
EXTENDS Integers, FiniteSets, SequencesExt

CONSTANTS SvNames,     \* the names, in the order of the hash table
          SvPool,      \* the packages: name, ver, depends, provides, iif, prio, tags, itag
          SvMaxCount,  \* bound on the counters of a changeset, which restarts do not reset
          SvScenarios  \* what apk was asked: pkgs, gone, installed, world, flags, named, force

VARIABLE sv

SvName == Range(SvNames)
SvPkg == DOMAIN SvPool
SvMain == "main"

(* The loops over an array thread the solver's state: FoldLeft as a recursive  *)
(* function; the singleton makes TLC compute each state before the next.       *)
Thread(op(_, _), s, q) ==
    LET f[i \in 0..Len(q)] == IF i = 0 THEN s ELSE CHOOSE t \in {op(p, q[i]) : p \in {f[i - 1]}} : TRUE IN f[Len(q)]

Bit(b) == IF b THEN 1 ELSE 0
Sign(i) == IF i > 0 THEN 1 ELSE IF i < 0 THEN -1 ELSE 0
FirstNonZero(s) == LET nz == {i \in DOMAIN s : s[i] # 0} IN IF nz = {} THEN 0 ELSE s[Min(nz)]

------------------------------------------------------------------------------
(* The database as the solver sees it.                                         *)
Provider(p, v) == [pkg |-> p, ver |-> v]
provider_none == Provider(0, 0)

(* The names a package provides, its own first.                                *)
ProvidesOf(p) == <<[name |-> SvPool[p].name, ver |-> SvPool[p].ver]>> \o SvPool[p].provides
ProvidedNames(p) == [i \in DOMAIN ProvidesOf(p) |-> ProvidesOf(p)[i].name]

InOrder(S) == SelectSeq([p \in SvPkg |-> p], LAMBDA p : p \in S)
ProvidersOf(sc, n) ==
    LET of(p) == SelectSeq(ProvidesOf(p), LAMBDA d : d.name = n) IN
    FlattenSeq([i \in 1..Cardinality(sc.pkgs) |->
        LET p == InOrder(sc.pkgs)[i] IN [j \in DOMAIN of(p) |-> Provider(p, of(p)[j].ver)]])

DependsOn(deps, n) == \E i \in DOMAIN deps : deps[i].name = n
rdepends(s, n) ==
    SelectSeq(SvNames, LAMBDA m : \E i \in DOMAIN s.prov[m] : DependsOn(SvPool[s.prov[m][i].pkg].depends, n))
rinstall_if(s, n) ==
    SelectSeq(SvNames, LAMBDA m : \E i \in DOMAIN s.prov[m] : DependsOn(SvPool[s.prov[m][i].pkg].iif, n))

SvAvailable(sc, p) == p \notin sc.gone
get_pkg_repos(sc, p) ==
    (IF SvAvailable(sc, p) THEN SvPool[p].tags ELSE {}) \cup (IF p \in sc.installed THEN {SvPool[p].itag} ELSE {})

(* The first tag that p may follow and that one of its repositories carries;   *)
(* the default tag is the first of all.                                        *)
get_tag(s, p) ==
    LET tags == s.pk[p].pinning_allowed \cap get_pkg_repos(s.sc, p) IN
    IF tags = {} \/ SvMain \in tags THEN SvMain ELSE CHOOSE t \in tags : TRUE

(* apk_version_compare on numbers, and on a version against none.              *)
VersionMatch(v, dep) ==
    LET r == IF v = 0 \/ dep.ver = 0 THEN dep.op
             ELSE {IF v < dep.ver THEN "<" ELSE IF v = dep.ver THEN "=" ELSE ">"}
        ok == dep.op = {"<", "=", ">"} \/ r \cap dep.op # {}
    IN ok # dep.conflict

apk_dep_is_provided(deppkg, dep, p) ==
    IF p.pkg = 0 THEN dep.conflict
    ELSE (dep.conflict /\ deppkg = p.pkg) \/ VersionMatch(p.ver, dep)

(* Whether p satisfies dep, a dependency of deppkg, in the sense of             *)
(* APK_DEP_SATISFIES.                                                          *)
apk_dep_analyze(deppkg, dep, p) ==
    LET here == SelectSeq(ProvidesOf(p), LAMBDA d : d.name = dep.name) IN
    /\ here # <<>>
    /\ IF dep.name = SvPool[p].name THEN VersionMatch(SvPool[p].ver, dep)
       ELSE apk_dep_is_provided(deppkg, dep, Provider(p, here[1].ver))

------------------------------------------------------------------------------
(* The work lists.                                                             *)
InQueue(s, n) == n \in Range(s.resolvenow) \cup Range(s.selectable) \cup Range(s.unresolved)
Without(s, n) ==
    LET del(q) == SelectSeq(q, LAMBDA m : m # n) IN
    [s EXCEPT !.resolvenow = del(@), !.selectable = del(@), !.unresolved = del(@)]

queue_dirty(s, n) ==
    IF n \in Range(s.dirty) \/ s.nm[n].locked \/ (s.nm[n].requirers = 0 /\ ~s.nm[n].reevaluate_iif)
    THEN s ELSE [s EXCEPT !.dirty = Append(@, n)]

queue_resolvenow(s, n) ==
    s.nm[n].reverse_deps_done /\ s.nm[n].requirers > 0 /\ s.nm[n].has_auto_selectable /\ ~s.nm[n].has_options

(* Largest order_id first; a name goes in front of its equals.                 *)
queue_insert(s, q, n) ==
    LET before == {i \in DOMAIN q : s.nm[n].order_id >= s.nm[q[i]].order_id}
        at == IF before = {} THEN Len(q) + 1 ELSE Min(before)
    IN InsertAt(q, at, n)

Enqueue(s, n) ==
    IF s.nm[n].resolvenow THEN [s EXCEPT !.resolvenow = Append(@, n)]
    ELSE IF s.nm[n].has_auto_selectable THEN [s EXCEPT !.selectable = queue_insert(s, @, n)]
    ELSE [s EXCEPT !.unresolved = queue_insert(s, @, n)]

queue_unresolved(s, n, reevaluate) ==
    LET now == queue_resolvenow(s, n)
        marked == [s EXCEPT !.nm[n].resolvenow = now]
    IN IF s.nm[n].locked THEN s
       ELSE IF InQueue(s, n)
            THEN IF s.nm[n].resolvenow \/ (~now /\ ~reevaluate) THEN s ELSE Enqueue(Without(marked, n), n)
       ELSE IF s.nm[n].requirers = 0 /\ ~s.nm[n].has_iif /\ ~s.nm[n].iif_needed THEN s
       ELSE Enqueue(marked, n)

reevaluate_reverse_deps(s, n) ==
    Thread(LAMBDA t, m : IF t.nm[m].seen THEN queue_dirty([t EXCEPT !.nm[m].reevaluate_deps = TRUE], m) ELSE t,
             s, rdepends(s, n))

reevaluate_reverse_installif(s, n) ==
    Thread(LAMBDA t, m : IF t.nm[m].seen /\ ~t.nm[m].no_iif
                           THEN queue_dirty([t EXCEPT !.nm[m].reevaluate_iif = TRUE], m) ELSE t,
             s, rinstall_if(s, n))

reevaluate_reverse_installif_pkg(s, p) == Thread(reevaluate_reverse_installif, s, ProvidedNames(p))

disqualify_package_kept(s, p) ==
    reevaluate_reverse_installif_pkg(Thread(reevaluate_reverse_deps, s, ProvidedNames(p)), p)
disqualify_package(s, p) ==
    reevaluate_reverse_installif_pkg(
        Thread(reevaluate_reverse_deps, [s EXCEPT !.pk[p].pkg_selectable = FALSE], ProvidedNames(p)), p)

dependency_satisfiable(s, p, dep) ==
    \/ dep.conflict /\ s.ignore_conflict
    \/ IF s.nm[dep.name].locked THEN apk_dep_is_provided(p, dep, s.nm[dep.name].chosen)
       ELSE \/ s.nm[dep.name].requirers = 0 /\ dep.conflict
            \/ \E i \in DOMAIN s.prov[dep.name] :
                  LET q == s.prov[dep.name][i] IN
                  s.pk[q.pkg].pkg_selectable /\ apk_dep_is_provided(p, dep, q)

------------------------------------------------------------------------------
(* discover_name and discover_package, depth first over dependencies, provides *)
(* and install_if; todo holds the calls that are still to be made.  A name is  *)
(* numbered after its providers and before the names of their install_if; the  *)
(* flag of a name without solver flags is the sign bit of the int order_id.    *)
Names(seq) == [i \in DOMAIN seq |-> <<"name", seq[i]>>]
DepNames(deps) == [i \in DOMAIN deps |-> <<"name", deps[i].name>>]

Visit(s, what, x) ==
    LET prov == s.prov[x]
        pref == SvMain \in get_pkg_repos(s.sc, x)
        own == \E i \in DOMAIN prov : SvPool[prov[i].pkg].name = x
    IN CASE what = "name" -> [s EXCEPT !.nm[x].seen = TRUE, !.nm[x].no_iif = TRUE]
         [] what = "pkg" ->
              [s EXCEPT !.pk[x].seen = TRUE,
                        !.pk[x].pkg_available = SvAvailable(s.sc, x),
                        !.pk[x].pkg_selectable = SvAvailable(s.sc, x) \/ x \in s.sc.installed,
                        !.pk[x].iif_failed = SvPool[x].iif = <<>> \/
                            ("AVAILABLE" \in s.flags_inherit /\ ~SvAvailable(s.sc, x)),
                        !.pk[x].tag_preferred = pref,
                        !.pk[x].tag_ok = pref \/ x \in s.sc.installed]
         [] what = "order" ->
              [s EXCEPT !.order_id = @ + 1,
                        !.nm[x].no_iif = \A i \in DOMAIN prov : s.pk[prov[i].pkg].iif_failed,
                        !.nm[x].order_id = s.order_id + 1 + 1000 * Bit(own) + 10000 * Bit(x \in DOMAIN s.sc.named)]

Calls(s, what, x) ==
    LET prov == s.prov[x]
        all(f(_)) == FlattenSeq([i \in DOMAIN prov |-> f(prov[i].pkg)])
    IN CASE what = "name" ->
              [i \in DOMAIN prov |-> <<"pkg", prov[i].pkg>>] \o Names(rinstall_if(s, x))
              \o all(LAMBDA p : Names(rinstall_if(s, SvPool[p].name)) \o Names(Tail(ProvidedNames(p))))
              \o << <<"order", x>> >> \o all(LAMBDA p : DepNames(SvPool[p].iif))
         [] what = "pkg" -> DepNames(SvPool[x].depends)
         [] OTHER -> <<>>

Unseen(s, todo) ==
    SelectSeq(todo, LAMBDA c : ~(c[1] = "name" /\ s.nm[c[2]].seen) /\ ~(c[1] = "pkg" /\ s.pk[c[2]].seen))

RECURSIVE discover(_, _)
discover(s, todo) ==
    IF todo = <<>> THEN s
    ELSE LET what == Head(todo)[1]
             x == Head(todo)[2]
             t == Visit(s, what, x)
         IN discover(t, Unseen(t, Calls(s, what, x) \o Tail(todo)))

------------------------------------------------------------------------------
name_requirers_changed(s, n) == queue_dirty(reevaluate_reverse_installif(queue_unresolved(s, n, FALSE), n), n)

(* parent 0 is the world; its flags and pinning are those of s.                *)
inherit_pinning_and_flags(s, p, parent) ==
    LET repos == get_pkg_repos(s.sc, p)
        flags == IF parent = 0 THEN s.flags_inherit ELSE s.pk[parent].inheritable
        allowed == s.pk[p].pinning_allowed \cup
                   (IF parent = 0 THEN s.pinning_inherit ELSE s.pk[parent].pinning_allowed)
    IN [s EXCEPT !.pk[p].solver_flags = @ \cup flags,
                 !.pk[p].inheritable = @ \cup flags,
                 !.pk[p].pinning_allowed = allowed,
                 !.pk[p].tag_preferred = IF parent = 0 THEN repos \cap s.pinning_inherit # {} ELSE @,
                 !.pk[p].tag_ok = @ \/ repos \cap allowed # {}]

apply_constraint(s, parent, dep) ==
    LET n == dep.name
        s1 == IF dep.conflict THEN s ELSE [s EXCEPT !.nm[n].requirers = @ + 1]
        s2 == IF ~dep.conflict /\ s1.nm[n].requirers = 1 THEN name_requirers_changed(s1, n) ELSE s1
        one(t, q) ==
            LET ok == apk_dep_is_provided(parent, dep, q)
                t1 == [t EXCEPT !.pk[q.pkg].conflicts = @ + Bit(~ok)]
                t2 == IF t1.pk[q.pkg].pkg_selectable /\ t1.pk[q.pkg].conflicts > 0
                      THEN disqualify_package(t1, q.pkg) ELSE t1
            IN IF ok THEN inherit_pinning_and_flags(t2, q.pkg, parent) ELSE t2
    IN IF dep.conflict /\ s.ignore_conflict THEN s ELSE Thread(one, s2, s.prov[n])

exclude_non_providers(s, n, must_provide, skip_virtuals) ==
    LET keeps(t, q) ==
            \/ SvPool[q.pkg].name = must_provide \/ ~t.pk[q.pkg].pkg_selectable
            \/ skip_virtuals /\ q.ver = 0
            \/ \E i \in DOMAIN SvPool[q.pkg].provides :
                  LET d == SvPool[q.pkg].provides[i] IN d.name = must_provide \/ (skip_virtuals /\ d.ver = 0)
    IN IF n = must_provide \/ s.ignore_conflict THEN s
       ELSE Thread(LAMBDA t, q : IF keeps(t, q) THEN t ELSE disqualify_package(t, q.pkg), s, s.prov[n])

is_provider_auto_selectable(s, q) ==
    q.ver # 0 \/ SvPool[q.pkg].prio > 0 \/ s.nm[SvPool[q.pkg].name].requirers > 0

------------------------------------------------------------------------------
(* reconsider_name.  l is the loop's state: the solver record, the first       *)
(* candidate, the options counted, those with a bad tag, and three flags.      *)
reevaluate_package_deps(s, p) ==
    IF s.pk[p].pkg_selectable /\ \E i \in DOMAIN SvPool[p].depends : ~dependency_satisfiable(s, p, SvPool[p].depends[i])
    THEN disqualify_package(s, p) ELSE s

(* The first unlocked or unfulfilled dependency of install_if decides.         *)
reevaluate_package_iif(s, p) ==
    LET iif == SvPool[p].iif
        stops == {i \in DOMAIN iif : LET m == s.nm[iif[i].name] IN
                                     ~m.locked \/ ~apk_dep_is_provided(p, iif[i], m.chosen)}
        d == iif[Min(stops)]
        pending == [s EXCEPT !.pk[p].iif_triggered = FALSE, !.pk[p].iif_failed = FALSE]
    IN IF s.pk[p].iif_triggered \/ s.pk[p].iif_failed THEN s
       ELSE IF stops = {} THEN [s EXCEPT !.pk[p].iif_triggered = TRUE]
       ELSE IF s.nm[d.name].locked THEN [s EXCEPT !.pk[p].iif_failed = TRUE]
       ELSE IF d.conflict THEN queue_unresolved([pending EXCEPT !.nm[d.name].iif_needed = TRUE], d.name, FALSE)
       ELSE pending

merge_index(s, field, n, k) ==
    IF s.nm[n][field] = k THEN [s EXCEPT !.nm[n][field] = k + 1] ELSE s

merge_provides(s, d, k) ==
    LET t == merge_index(s, "merge_provides", d.name, k) IN
    IF t = s THEN s ELSE [t EXCEPT !.nm[d.name].has_virtual_provides = @ \/ d.ver = 0]

(* p's own name is merged with the version under which it was looked up.       *)
merge_package(s, q, k) ==
    LET s1 == Thread(LAMBDA t, d : IF d.conflict THEN t ELSE merge_index(t, "merge_depends", d.name, k),
                       [s EXCEPT !.pk[q.pkg].dependencies_merged = TRUE], SvPool[q.pkg].depends)
        s2 == merge_provides(s1, [name |-> SvPool[q.pkg].name, ver |-> q.ver], k)
    IN Thread(LAMBDA t, d : merge_provides(t, d, k), s2, SvPool[q.pkg].provides)

reconsider_options(l, s, q, n) ==
    LET p == q.pkg
        seen == [l EXCEPT !.s = s,
                          !.has_iif = @ \/ s.pk[p].iif_triggered,
                          !.no_iif = @ /\ s.pk[p].iif_failed,
                          !.auto = @ \/ s.pk[p].iif_triggered]
    IN IF ~s.pk[p].pkg_selectable THEN [l EXCEPT !.s = s]
       ELSE IF s.nm[n].requirers = 0 THEN seen
       ELSE [seen EXCEPT !.s = merge_package(s, q, l.options),
                         !.first = IF @ = 0 THEN p ELSE @,
                         !.bad = @ + Bit(~s.pk[p].tag_ok),
                         !.options = @ + 1,
                         !.auto = @ \/ is_provider_auto_selectable(s, q)]

inherit_from_iif(s, p) ==
    IF ~(s.pk[p].pkg_selectable /\ s.pk[p].iif_triggered) THEN s
    ELSE Thread(LAMBDA t, d : inherit_pinning_and_flags(t, p, t.nm[d.name].chosen.pkg), s, SvPool[p].iif)

reconsider_iif(s, p) ==
    IF ~s.pk[p].pkg_selectable THEN s ELSE inherit_from_iif(reevaluate_package_iif(s, p), p)

reconsider_provider(l, q, n, deps, iif) ==
    LET p == q.pkg
        s0 == [l.s EXCEPT !.pk[p].dependencies_merged = FALSE]
        s1 == IF deps THEN reevaluate_package_deps(s0, p) ELSE s0
    IN reconsider_options(l, IF iif THEN reconsider_iif(s1, p) ELSE s1, q, n)

(* merge_index_complete resets the counter whatever it was.                    *)
propagate_dependency(s, dep, p, options) ==
    LET n == dep.name
        complete == s.nm[n].merge_depends = options
        t == [s EXCEPT !.nm[n].merge_depends = 0]
        req == name_requirers_changed([t EXCEPT !.nm[n].requirers = @ + 1], n)
    IN IF ~complete THEN t
       ELSE IF options = 1 THEN apply_constraint(t, p, dep)
       ELSE IF t.nm[n].requirers > 0 THEN t
       ELSE Thread(LAMBDA u, q : inherit_pinning_and_flags(u, q.pkg, p), req, s.prov[n])

propagate_provides(s, m, n, options) ==
    LET t == [s EXCEPT !.nm[m].merge_provides = 0] IN
    IF s.nm[m].merge_provides = options
    THEN exclude_non_providers(t, m, n, s.nm[m].has_virtual_provides) ELSE t

propagate(s, n, p, options) ==
    LET s1 == Thread(LAMBDA t, q : [t EXCEPT !.pk[q.pkg].dependencies_used = t.pk[q.pkg].dependencies_merged], s, s.prov[n])
        s2 == Thread(LAMBDA t, d : propagate_dependency(t, d, p, options), s1, SvPool[p].depends)
        s3 == Thread(LAMBDA t, m : propagate_provides(t, m, n, options), s2, ProvidedNames(p))
    IN Thread(LAMBDA t, m : [t EXCEPT !.nm[m].has_virtual_provides = FALSE], s3, ProvidedNames(p))

reconsider_propagate(s, n, l) ==
    LET t == [s EXCEPT !.nm[n].has_options = l.options > 1 \/ l.bad > 0,
                       !.nm[n].has_iif = l.has_iif,
                       !.nm[n].no_iif = l.no_iif,
                       !.nm[n].has_auto_selectable = l.auto]
    IN IF l.first = 0 THEN t ELSE propagate(t, n, l.first, l.options)

reconsider_reverse_deps(s, n) ==
    [s EXCEPT !.nm[n].reverse_deps_done =
        \A m \in Range(rdepends(s, n)) : s.nm[m].seen => s.nm[m].locked]

reconsider_end(l, n, was) ==
    queue_unresolved(reconsider_reverse_deps(reconsider_propagate(l.s, n, l), n), n, l.auto # was)

reconsider_name(s, n) ==
    LET s0 == [s EXCEPT !.nm[n].reevaluate_deps = FALSE, !.nm[n].reevaluate_iif = FALSE]
    IN reconsider_end(
         Thread(LAMBDA k, q : reconsider_provider(k, q, n, s.nm[n].reevaluate_deps, s.nm[n].reevaluate_iif),
                [s |-> s0, first |-> 0, options |-> 0, bad |-> 0, has_iif |-> FALSE, no_iif |-> TRUE, auto |-> FALSE],
                s.prov[n]),
         n, s.nm[n].has_auto_selectable)

------------------------------------------------------------------------------
(* compare_providers: positive when a is preferred to b.                       *)
compare_providers(s, a, b) ==
    LET A == s.pk[a.pkg]
        B == s.pk[b.pkg]
        flags == A.solver_flags \cup B.solver_flags
        by(f) == Bit(A[f]) - Bit(B[f])
        when(c, i) == IF c THEN i ELSE 0
        installed == Bit(a.pkg \in s.sc.installed) - Bit(b.pkg \in s.sc.installed)
        versions(v, w) == IF v = 0 \/ w = 0 THEN 0 ELSE Sign(v - w)
        same == SvPool[a.pkg].name = SvPool[b.pkg].name
        latest == /\ "LATEST" \in flags
                  /\ A.pinning_allowed = {SvMain} /\ B.pinning_allowed = {SvMain}
        repo(p) == IF SvPool[p].tags = {} \/ p \in s.sc.gone THEN 0 ELSE IF SvMain \in SvPool[p].tags THEN 1 ELSE 2
        group == IF latest
                 THEN <<by("tag_ok"),
                        IF "AVAILABLE" \in flags THEN by("pkg_available")
                        ELSE when("REINSTALL" \in flags, by("pkg_selectable"))>>
                 ELSE <<by("pkg_selectable"), by("dependencies_used"), B.conflicts - A.conflicts,
                        when((s.preupgrade /\ "UPGRADE" \notin flags) \/ "INSTALLED" \in flags, installed),
                        by("tag_ok"),
                        when("AVAILABLE" \in flags, by("pkg_available")),
                        by("tag_preferred"),
                        when(flags \cap {"REMOVE", "UPGRADE"} = {} /\ (same \/ a.ver # 0 \/ b.ver # 0), installed)>>
    IN IF b.pkg = 0 THEN 1
       ELSE FirstNonZero(group \o
                <<versions(a.ver, b.ver),
                  when(same, versions(SvPool[a.pkg].ver, SvPool[b.pkg].ver)),
                  SvPool[a.pkg].prio - SvPool[b.pkg].prio,
                  when("REMOVE" \notin flags, installed),
                  by("pkg_selectable"),
                  repo(b.pkg) - repo(a.pkg)>>)

mark_error(s, p) ==
    IF p = 0 \/ s.pk[p].error THEN s ELSE [s EXCEPT !.pk[p].error = TRUE, !.errors = @ + 1]

assign_locked(s, n, q) ==
    IF (q.ver = 0 /\ s.nm[n].chosen.ver = 0) \/ s.ignore_conflict THEN s
    ELSE mark_error(mark_error(s, q.pkg), s.nm[n].chosen.pkg)

assign_triggered(s, n, q) ==
    IF q.pkg # 0 /\ s.nm[n].requirers = 0 /\ s.pk[q.pkg].iif_triggered
    THEN Thread(LAMBDA t, d : IF t.nm[d.name].locked THEN t ELSE apply_constraint(t, q.pkg, d), s, SvPool[q.pkg].iif)
    ELSE s

assign_disqualify(s, n, q) ==
    IF s.ignore_conflict THEN s
    ELSE Thread(LAMBDA t, o : IF o.pkg = q.pkg \/ (q.ver = 0 /\ o.ver = 0) THEN t
                                ELSE disqualify_package(t, o.pkg), s, s.prov[n])

assign_reevaluate(s, n, q) ==
    IF q.pkg # 0 THEN reevaluate_reverse_installif_pkg(s, q.pkg) ELSE reevaluate_reverse_installif(s, n)

assign_name(s, n, q) ==
    LET s1 == Without([s EXCEPT !.nm[n].locked = TRUE, !.nm[n].chosen = q,
                                !.dirty = SelectSeq(@, LAMBDA m : m # n)], n)
    IN IF s.nm[n].locked THEN assign_locked(s, n, q)
       ELSE assign_reevaluate(
              reevaluate_reverse_deps(assign_disqualify(assign_triggered(s1, n, q), n, q), n), n, q)

Eligible(s, n, q) ==
    /\ s.nm[n].requirers = 0 => s.pk[q.pkg].iif_triggered /\ s.pk[q.pkg].tag_ok /\ s.pk[q.pkg].pkg_selectable
    /\ is_provider_auto_selectable(s, q)

select_chosen(s, p) ==
    LET s1 == IF s.pk[p].pkg_selectable /\ s.pk[p].tag_ok THEN s ELSE mark_error(s, p)
    IN Thread(LAMBDA t, d : apply_constraint(t, p, d),
              Thread(LAMBDA t, d : assign_name(t, d.name, Provider(p, d.ver)), s1, ProvidesOf(p)),
              SvPool[p].depends)

select_none(s, n) ==
    [assign_name(s, n, provider_none) EXCEPT !.errors = @ + Bit(s.nm[n].requirers > 0)]

select_package(s, n) ==
    LET chosen == IF s.nm[n].requirers = 0 /\ ~s.nm[n].has_iif THEN provider_none
                  ELSE Thread(LAMBDA c, q : IF Eligible(s, n, q) /\ compare_providers(s, q, c) > 0 THEN q ELSE c,
                                provider_none, s.prov[n])
    IN IF chosen.pkg = 0 THEN select_none(s, n) ELSE select_chosen(s, chosen.pkg)

------------------------------------------------------------------------------
(* generate_changeset.  From here on requirers counts the installed packages   *)
(* that need a name, and installed_name, installed_pkg are valid.              *)
(* retag: the package stays but follows another repository tag than before.    *)
record_change(s, old, new) ==
    LET kind == IF new = 0 THEN "remove" ELSE IF old = 0 THEN "install" ELSE "adjust"
        change == [old |-> old, new |-> new,
                   reinstall |-> new # 0 /\ "REINSTALL" \in s.pk[new].solver_flags,
                   retag |-> kind = "adjust" /\ get_tag(s, new) # SvPool[old].itag]
        counted == kind # "adjust" \/ old # new \/ change.reinstall \/ change.retag
    IN [s EXCEPT !.changes = Append(@, change),
                 !.count[kind] = IF counted /\ @ < SvMaxCount THEN @ + 1 ELSE @]

InstalledName(s, n) == s.nm[n].installed_name

cset_track_deps_added(s, p) ==
    Thread(LAMBDA t, d : IF d.conflict \/ InstalledName(t, d.name) = "" THEN t
                           ELSE [t EXCEPT !.nm[InstalledName(t, d.name)].requirers = @ + 1],
             s, SvPool[p].depends)

(* The functions that follow call each other: s.calls is the call stack, and   *)
(* Then(s, calls) what a function still has to do once its own code has run.   *)
Call(f, x) == [f |-> f, x |-> x]
Each(f, q) == [i \in DOMAIN q |-> Call(f, q[i])]
Then(s, calls) == [s EXCEPT !.calls = calls \o @]

(* One round of the loop of cset_track_deps_removed.                           *)
cset_track_dep_removed(s, d) ==
    LET name == InstalledName(s, d.name)
        t == [s EXCEPT !.nm[name].requirers = @ - 1]
    IN IF d.conflict \/ name = "" THEN s
       ELSE IF s.nm[name].requirers > 1 \/ s.nm[d.name].installed_pkg = 0 THEN t
       ELSE Then(t, <<Call("remove", s.nm[d.name].installed_pkg)>>)

cset_check_removal_by_deps(s, p) ==
    LET n == SvPool[p].name IN
    IF s.nm[n].requirers = 0 /\ s.nm[n].chosen.pkg = 0 THEN Then(s, <<Call("remove", p)>>) ELSE s

cset_check_install_by_iif(s, n) ==
    LET p == s.nm[n].chosen.pkg
        ready == \A i \in DOMAIN SvPool[p].iif :
                    LET d == SvPool[p].iif[i] IN
                    /\ d.conflict \/ s.nm[d.name].changeset_processed
                    /\ apk_dep_is_provided(p, d, s.nm[d.name].chosen)
    IN IF p = 0 \/ ~s.nm[n].seen \/ s.nm[n].changeset_processed THEN s
       ELSE IF ready THEN Then(s, <<Call("change", n)>>) ELSE s

cset_check_removal_by_iif(s, n) ==
    LET p == s.nm[n].installed_pkg IN
    IF p = 0 \/ s.nm[n].chosen.pkg # 0 \/ s.nm[n].changeset_processed \/ s.nm[n].changeset_removed THEN s
    ELSE IF \E i \in DOMAIN SvPool[p].iif :
              LET m == s.nm[SvPool[p].iif[i].name] IN m.changeset_removed /\ m.chosen.pkg = 0
         THEN cset_check_removal_by_deps(s, p) ELSE s

(* rinstall_if of the names p provides; p = 0 has none.                        *)
reverse_iif(s, p) ==
    IF p = 0 THEN <<>> ELSE FlattenSeq([i \in DOMAIN ProvidesOf(p) |-> rinstall_if(s, ProvidedNames(p)[i])])

(* apk_pkg_foreach_reverse_dependency with INSTALLED and SATISFIES.            *)
ReverseDependencies(s, p) ==
    LET of(n) == FlattenSeq([i \in DOMAIN rdepends(s, n) |->
                    SelectSeq(s.prov[rdepends(s, n)[i]], LAMBDA q :
                        /\ q.pkg \in s.sc.installed
                        /\ \E j \in DOMAIN SvPool[q.pkg].depends : apk_dep_analyze(q.pkg, SvPool[q.pkg].depends[j], p))])
        all == FlattenSeq([i \in DOMAIN ProvidesOf(p) |-> of(ProvidedNames(p)[i])])
    IN [i \in DOMAIN all |-> all[i].pkg]

cset_gen_name_preprocess(s, n) ==
    LET old == s.nm[n].installed_pkg
        new == s.nm[n].chosen.pkg
        replaced == IF old # 0 /\ (new = 0 \/ SvPool[new].name # n) THEN <<old>> ELSE <<>>
        orphan(q) == LET m == s.nm[SvPool[q.pkg].name] IN m.installed_pkg = q.pkg /\ m.chosen.pkg = 0
        orphans == SelectSeq(s.prov[n], orphan)
    IN IF s.nm[n].changeset_processed THEN s
       ELSE Then([s EXCEPT !.nm[n].changeset_processed = TRUE],
                 Each("remove", replaced \o [i \in DOMAIN orphans |-> orphans[i].pkg]))

cset_gen_dep(s, parent, dep) ==
    IF dep.conflict /\ s.ignore_conflict THEN s
    ELSE Then(IF apk_dep_is_provided(parent, dep, s.nm[dep.name].chosen) THEN s ELSE mark_error(s, parent),
              <<Call("change", dep.name), Call("propagate", [parent |-> parent, dep |-> dep])>>)

cset_propagate_error(s, parent, dep) ==
    LET p == s.nm[dep.name].chosen.pkg IN
    IF p # 0 /\ s.pk[p].error THEN mark_error(s, parent) ELSE s

cset_gen_name_change(s, n) ==
    IF s.nm[n].changeset_processed THEN s ELSE Then(s, <<Call("preprocess", n), Call("select", n)>>)

(* cset_gen_name_change, after its first preprocessing.                        *)
cset_gen_name_select(s, n) ==
    LET p == s.nm[n].chosen.pkg
        old == s.nm[SvPool[p].name].installed_pkg
        deps == SvPool[p].depends
    IN IF p = 0 \/ s.pk[p].in_changeset THEN s
       ELSE Then([s EXCEPT !.pk[p].in_changeset = TRUE],
                 Each("preprocess", ProvidedNames(p))
                 \o Each("removal_by_iif", reverse_iif(s, old))
                 \o Each("dep", [i \in DOMAIN deps |-> [parent |-> p, dep |-> deps[i]]])
                 \o <<Call("record", [old |-> old, new |-> p])>>
                 \o Each("install_by_iif", reverse_iif(s, p))
                 \o <<Call("track", p)>>
                 \o Each("untrack", IF old = 0 THEN <<>> ELSE SvPool[old].depends))

cset_gen_name_remove(s, p) ==
    LET n == SvPool[p].name
        kept == s.nm[n].chosen.pkg # 0 /\ SvPool[s.nm[n].chosen.pkg].name = n
    IN IF s.pk[p].in_changeset \/ kept THEN s
       ELSE Then([s EXCEPT !.nm[n].changeset_removed = TRUE, !.pk[p].in_changeset = TRUE],
                 Each("remove", ReverseDependencies(s, p))
                 \o Each("removal_by_iif", reverse_iif(s, p))
                 \o <<Call("record", [old |-> p, new |-> 0])>>
                 \o Each("untrack", SvPool[p].depends))

cset_call(s, c) ==
    CASE c.f = "change" -> cset_gen_name_change(s, c.x)
      [] c.f = "preprocess" -> cset_gen_name_preprocess(s, c.x)
      [] c.f = "select" -> cset_gen_name_select(s, c.x)
      [] c.f = "remove" -> cset_gen_name_remove(s, c.x)
      [] c.f = "removal_by_deps" -> cset_check_removal_by_deps(s, c.x)
      [] c.f = "removal_by_iif" -> cset_check_removal_by_iif(s, c.x)
      [] c.f = "install_by_iif" -> cset_check_install_by_iif(s, c.x)
      [] c.f = "dep" -> cset_gen_dep(s, c.x.parent, c.x.dep)
      [] c.f = "propagate" -> cset_propagate_error(s, c.x.parent, c.x.dep)
      [] c.f = "record" -> record_change(s, c.x.old, c.x.new)
      [] c.f = "track" -> cset_track_deps_added(s, c.x)
      [] c.f = "untrack" -> cset_track_dep_removed(s, c.x)

InstalledProvider(sc, n) ==
    LET named == {p \in sc.installed : SvPool[p].name = n}
        providing == {p \in sc.installed : \E i \in DOMAIN SvPool[p].provides :
                         SvPool[p].provides[i].name = n /\ SvPool[p].provides[i].ver # 0}
    IN [pkg |-> IF named = {} THEN 0 ELSE Max(named),
        name |-> IF named \cup providing = {} THEN "" ELSE SvPool[Max(named \cup providing)].name]

SvTracked(s, installed) == Thread(cset_track_deps_added, s, installed)

generate_changeset(s) ==
    LET installed == InOrder(s.sc.installed)
        reset == [s EXCEPT !.changes = <<>>,
                           !.nm = [n \in SvName |-> [s.nm[n] EXCEPT
                               !.requirers = 0,
                               !.installed_pkg = InstalledProvider(s.sc, n).pkg,
                               !.installed_name = InstalledProvider(s.sc, n).name]]]
    IN Then(SvTracked(reset, installed),
            Each("removal_by_deps", installed)
            \o Each("dep", [i \in DOMAIN s.sc.world |-> [parent |-> 0, dep |-> s.sc.world[i]]])
            \o Each("change", [i \in DOMAIN installed |-> SvPool[installed[i]].name]))

------------------------------------------------------------------------------
(* apk_solver_solve.                                                           *)
SvNoName == [seen |-> FALSE, locked |-> FALSE, chosen |-> provider_none, order_id |-> 0, requirers |-> 0,
             merge_depends |-> 0, merge_provides |-> 0, has_virtual_provides |-> FALSE,
             reevaluate_deps |-> FALSE, reevaluate_iif |-> FALSE, has_iif |-> FALSE, no_iif |-> FALSE,
             has_options |-> FALSE, reverse_deps_done |-> FALSE, has_auto_selectable |-> FALSE,
             iif_needed |-> FALSE, resolvenow |-> FALSE, changeset_processed |-> FALSE,
             changeset_removed |-> FALSE, installed_pkg |-> 0, installed_name |-> ""]

SvNoPackage == [seen |-> FALSE, conflicts |-> 0, pinning_allowed |-> {SvMain}, solver_flags |-> {},
                inheritable |-> {}, pkg_available |-> FALSE, pkg_selectable |-> FALSE, tag_ok |-> FALSE,
                tag_preferred |-> FALSE, dependencies_used |-> FALSE, dependencies_merged |-> FALSE,
                in_changeset |-> FALSE, iif_triggered |-> FALSE, iif_failed |-> FALSE, error |-> FALSE]

SvClear(s, pc) ==
    [s EXCEPT !.pc = pc, !.nm = [n \in SvName |-> SvNoName], !.pk = [p \in SvPkg |-> SvNoPackage],
              !.dirty = <<>>, !.resolvenow = <<>>, !.selectable = <<>>, !.unresolved = <<>>,
              !.order_id = 0, !.errors = 0, !.next = 1]

SvInit == sv = [pc |-> "idle"]

(* struct apk_solver_state and the changeset, zeroed.                          *)
SvFresh(sc) ==
    [pc |-> "idle", sc |-> sc, prov |-> <<>>, nm |-> [n \in SvName |-> SvNoName],
     pk |-> [p \in SvPkg |-> SvNoPackage], dirty |-> <<>>, resolvenow |-> <<>>, selectable |-> <<>>,
     unresolved |-> <<>>, order_id |-> 0, errors |-> 0, next |-> 1, broken |-> {}, changes |-> <<>>, calls |-> <<>>,
     count |-> [install |-> 0, remove |-> 0, adjust |-> 0], flags_inherit |-> {},
     pinning_inherit |-> {}, ignore_conflict |-> FALSE, preupgrade |-> FALSE, tries |-> 1]

(* The applet: apk_solver_set_name_flags for the names it was given.           *)
SvStart(sc) ==
       LET s == [SvClear(SvFresh(sc), "discover") EXCEPT
                   !.prov = [n \in SvName |-> ProvidersOf(sc, n)],
                   !.ignore_conflict = "IGNORE_CONFLICT" \in sc.flags,
                   !.preupgrade = "PREUPGRADE" \in sc.flags]
           flagged(t, n) == Thread(LAMBDA u, q : [u EXCEPT !.pk[q.pkg].solver_flags = @ \cup sc.named[n],
                                                             !.pk[q.pkg].inheritable = @ \cup sc.named[n]], t, t.prov[n])
       IN sv' = Thread(flagged, s, SelectSeq(SvNames, LAMBDA n : n \in DOMAIN sc.named))

WorldDeps == SelectSeq([i \in DOMAIN sv.sc.world |-> i], LAMBDA i : i \notin sv.broken)

SvDiscover ==
    /\ sv.pc = "discover"
    /\ LET s == [sv EXCEPT !.pc = "apply", !.flags_inherit = sv.sc.flags]
       IN sv' = discover(s, [i \in DOMAIN WorldDeps |-> <<"name", sv.sc.world[WorldDeps[i]].name>>])

SvApplyWorld ==
    /\ sv.pc = "apply"
    /\ LET one(t, i) == apply_constraint([t EXCEPT !.pinning_inherit = {sv.sc.world[i].tag}], 0, sv.sc.world[i])
       IN sv' = [Thread(one, sv, WorldDeps) EXCEPT !.pc = "solve", !.flags_inherit = {}, !.pinning_inherit = {}]

SvReconsider ==
    /\ sv.pc = "solve"
    /\ sv.dirty # <<>>
    /\ sv' = reconsider_name([sv EXCEPT !.dirty = Tail(@)], Head(sv.dirty))

(* dequeue_next_name: the three lists in their order.                          *)
SvQueue == sv.resolvenow \o sv.selectable \o sv.unresolved

SvSelect ==
    /\ sv.pc = "solve"
    /\ sv.dirty = <<>>
    /\ SvQueue # <<>>
    /\ sv' = select_package(Without(sv, Head(SvQueue)), Head(SvQueue))

SvGenerate ==
    /\ sv.pc = "solve"
    /\ sv.dirty = <<>>
    /\ SvQueue = <<>>
    /\ sv' = [generate_changeset(sv) EXCEPT !.pc = "generate"]

SvCall ==
    /\ sv.pc = "generate"
    /\ sv.calls # <<>>
    /\ sv' = cset_call([sv EXCEPT !.calls = Tail(@)], Head(sv.calls))

SvGenerated == sv.pc = "generate" /\ sv.calls = <<>>

BrokenWorld ==
    {i \in DOMAIN sv.sc.world :
        LET p == sv.nm[sv.sc.world[i].name].chosen.pkg IN p = 0 \/ sv.pk[p].error}

(* free_package also forgets the flags apk_solver_set_name_flags has set.      *)
SvNowBroken == sv.broken \cup BrokenWorld

SvRestart ==
    /\ SvGenerated
    /\ sv.errors > 0
    /\ sv.sc.force
    /\ sv' = SvClear([sv EXCEPT !.broken = SvNowBroken, !.tries = 2], "discover")

SvFinish ==
    /\ SvGenerated
    /\ sv.errors = 0 \/ ~sv.sc.force
    /\ sv' = [sv EXCEPT !.pc = "done"]

SvStep == SvDiscover \/ SvApplyWorld \/ SvReconsider \/ SvSelect \/ SvGenerate
          \/ SvCall \/ SvRestart \/ SvFinish

SvNext == (sv.pc = "idle" /\ \E sc \in SvScenarios : SvStart(sc)) \/ SvStep

(* The solver keeps running: weak fairness of SvStep, which is enabled as long *)
(* as a scenario is started and not done, written out.                         *)
SvRunning == sv.pc \notin {"idle", "done"}
SvFairness == []<>~SvRunning \/ []<><<SvRunning>>_sv

SvSpec == SvInit /\ [][SvNext]_sv /\ SvFairness

------------------------------------------------------------------------------
(* The reference the result is held against: a set of packages, and when it is *)
(* a solution.                                                                 *)
SvChosen == {sv.nm[n].chosen.pkg : n \in SvName} \ {0}
Provides(p, n) == {ProvidesOf(p)[i].ver : i \in {j \in DOMAIN ProvidesOf(p) : ProvidesOf(p)[j].name = n}}
Holds(S, parent, dep) ==
    IF dep.conflict
    THEN \A p \in S \ {parent} : \A v \in Provides(p, dep.name) : VersionMatch(v, dep)
    ELSE \E p \in S : \E v \in Provides(p, dep.name) : VersionMatch(v, dep)

(* Queues, choices and changes are of names and packages of the scenario.      *)
SvTypeOK ==
  sv.pc # "idle" =>
    /\ sv.pc \in {"discover", "apply", "solve", "generate", "done"}
    /\ Range(sv.dirty) \cup Range(SvQueue) \subseteq SvName
    /\ \A n \in SvName : sv.nm[n].requirers \in Nat /\ sv.nm[n].chosen.pkg \in SvPkg \cup {0}
    /\ \A p \in SvPkg : sv.pk[p].conflicts \in Nat
    /\ \A i \in DOMAIN sv.changes : {sv.changes[i].old, sv.changes[i].new} \subseteq SvPkg \cup {0}

(* What apk_solver_solve returns without errors is a solution: the world holds *)
(* (but for what --force-broken-world disabled), every selected package has    *)
(* its dependencies and none of its conflicts, no two packages provide the     *)
(* same versioned name, and nothing unavailable is newly selected.             *)
SvSound ==
    sv.pc = "done" /\ sv.errors = 0 =>
        LET S == SvChosen IN
        /\ \A i \in DOMAIN sv.sc.world \ sv.broken : Holds(S, 0, sv.sc.world[i])
        /\ \A p \in S : \A i \in DOMAIN SvPool[p].depends : Holds(S, p, SvPool[p].depends[i])
        /\ \A p, q \in S : \A n \in SvName :
              p # q => \A v \in Provides(p, n) : \A w \in Provides(q, n) : v = 0 /\ w = 0
        /\ S \subseteq sv.sc.installed \cup (sv.sc.pkgs \ sv.sc.gone)

(* The changeset is the difference between what is installed and what was      *)
(* selected: every package is in it once, an installed package that was not    *)
(* selected is removed or replaced, and nothing else is touched.               *)
SvChangesetExact ==
    sv.pc = "done" /\ sv.errors = 0 =>
        LET olds == [i \in DOMAIN sv.changes |-> sv.changes[i].old]
            news == [i \in DOMAIN sv.changes |-> sv.changes[i].new]
            once(s) == \A i, j \in DOMAIN s : s[i] = s[j] /\ s[i] # 0 => i = j
        IN /\ once(olds) /\ once(news)
           /\ (sv.sc.installed \ Range(olds)) \cup (Range(news) \ {0}) = SvChosen
           /\ Range(olds) \subseteq sv.sc.installed \cup {0}

(* num_install, num_remove and num_adjust of a first attempt describe the      *)
(* changeset: apk upgrade decides by their sum whether there is anything to do *)
(* (app_upgrade.c).                                                            *)
SvCountsExact ==
    sv.pc = "done" /\ sv.tries = 1 =>
        LET kind(c) == IF c.new = 0 THEN "remove" ELSE IF c.old = 0 THEN "install" ELSE "adjust"
            of(k) == SelectSeq(sv.changes, LAMBDA c : kind(c) = k /\ (c.old # c.new \/ c.reinstall \/ c.retag))
        IN \A k \in {"install", "remove", "adjust"} : sv.count[k] = Len(of(k))

(* A package is installed after a package that satisfies each of its           *)
(* dependencies, or beside it if they need each other: cset_gen_dep descends   *)
(* before record_change.                                                       *)
SvDependencyOrder ==
    sv.pc = "done" /\ sv.errors = 0 =>
        LET S == SvChosen
            at(p) == {i \in DOMAIN sv.changes : sv.changes[i].new = p}
            satisfies(q, d) == ~d.conflict /\ \E v \in Provides(q, d.name) : VersionMatch(v, d)
            needs == {e \in S \X S : \E i \in DOMAIN SvPool[e[1]].depends : satisfies(e[2], SvPool[e[1]].depends[i])}
            through(R, z) == R \cup {e \in S \X S : <<e[1], z>> \in R /\ <<z, e[2]>> \in R}
            closure == Thread(through, needs, SetToSeq(S))
        IN \A p \in S : \A i \in at(p) : \A k \in DOMAIN SvPool[p].depends :
              SvPool[p].depends[k].conflict \/
              \E q \in S : /\ satisfies(q, SvPool[p].depends[k])
                           /\ p = q \/ <<q, p>> \in closure \/ \A j \in at(q) : j < i

(* The counters that merge the dependencies and provides of all candidates of  *)
(* a name are zero again when reconsider_name returns; a stale one would make  *)
(* the next name inherit a dependency that is not common to its candidates.    *)
SvMergeClean ==
  sv.pc # "idle" =>
    \A n \in SvName : sv.nm[n].merge_depends = 0 /\ sv.nm[n].merge_provides = 0 /\ ~sv.nm[n].has_virtual_provides

(* A name that needs attention is on a list: while the solver works, a         *)
(* required name without a decision is queued, and a decided one is not.       *)
SvNothingForgotten ==
    sv.pc = "solve" =>
        \A n \in SvName : /\ sv.nm[n].requirers > 0 /\ ~sv.nm[n].locked => n \in Range(SvQueue)
                          /\ sv.nm[n].locked => n \notin Range(SvQueue) \cup Range(sv.dirty)

(* assign_name decides once: neither a later assignment nor a constraint       *)
(* changes the package chosen for a name, before a restart.                    *)
SvDecidedOnce ==
    [][sv.pc # "idle" /\ sv'.pc # "discover" =>
         \A n \in SvName : sv.nm[n].locked => sv'.nm[n].chosen = sv.nm[n].chosen]_sv

(* The solver ends: reconsidering a name again takes an option or a candidate  *)
(* away, and a restart disables a dependency of world.                         *)
SvTermination == []<>(sv.pc \in {"idle", "done"})

\* What the solver promises: a solution satisfies the world and every selected package,
\* nothing that had to be looked at is forgotten, merged dependencies are clean, a name is
\* decided once, and the changeset turns the installed set into the solution, dependencies
\* first, each change once and counted.
SvCorrect ==
    /\ [](SvTypeOK /\ SvSound /\ SvNothingForgotten /\ SvMergeClean /\ SvChangesetExact /\
          SvCountsExact /\ SvDependencyOrder)
    /\ SvDecidedOnce
================================================================================
