--------------------------- MODULE ApkSolverErrors ---------------------------
(* The error reporter of apk (apk-tools/src/commit.c): what apk says when the  *)
(* solver found no solution.  It starts from the changeset the solver left,    *)
(* whose packages are marked, finds out which names the marked packages can    *)
(* account for (discover_deps), and reports the names that are missing and the *)
(* packages that are masked, in conflict with another or break a dependency.   *)
EXTENDS ApkSolver

\* er.calls: the calls still to be made.  er.nm, er.pk: the STATE flags of a name and of a package.
VARIABLE er

ErInit == er = [pc |-> "idle"]

Marked == {sv.changes[i].new : i \in DOMAIN sv.changes} \ {0}
ErIn(q) == {q[i] : i \in DOMAIN q}
ErMarkedProviders(n) == SelectSeq(sv.prov[n], LAMBDA q : q.pkg \in Marked)
NonConflicts(deps) == SelectSeq(deps, LAMBDA d : ~d.conflict)

------------------------------------------------------------------------------
(* discover_deps, discover_name and discover_reverse_iif call each other.      *)
discover_deps(deps) ==
  [i \in DOMAIN NonConflicts(deps) |-> Call("name", [name |-> NonConflicts(deps)[i].name, state |-> "present"])]

discover_name(x) ==
  LET q == ErMarkedProviders(x.name)
  IN [i \in DOMAIN q |-> Call("provider", [pkg |-> q[i].pkg, name |-> x.name, state |-> x.state])]

is_name_concrete(p, n) ==
  SvPool[p].name = n \/ \E d \in ErIn(SvPool[p].provides) : d.name = n /\ d.ver # 0

discover_reverse_iif(n) ==
  LET q == FlattenSeq([i \in DOMAIN rinstall_if(sv, n) |-> ErMarkedProviders(rinstall_if(sv, n)[i])])
  IN [i \in DOMAIN q |-> Call("iif", q[i].pkg)]

\* One round of the loop of discover_name.
ErProvider(s, x) ==
  LET p == x.pkg
      state == IF SvPool[p].prio = 0 /\ ~is_name_concrete(p, x.name) THEN "virtual" ELSE x.state
      of(d) == IF state = "installif" /\ d.ver = 0 THEN "virtual" ELSE state
      names == ProvidedNames(p)
  IN IF state \in s.pk[p] THEN s
     ELSE Then([s EXCEPT !.pk[p] = @ \cup {state},
                         !.nm = [n \in SvName |-> @[n] \cup (IF n = SvPool[p].name THEN {state} ELSE {})
                                                       \cup {of(d) : d \in {e \in ErIn(SvPool[p].provides) : e.name = n}}]],
               discover_deps(SvPool[p].depends)
               \o (IF state = "virtual" THEN << >>
                   ELSE FlattenSeq([i \in DOMAIN names |-> <<Call("riif", names[i])>>])))

\* One round of the loops of discover_reverse_iif.
ErInstallIf(s, p) ==
  LET there(d) == s.nm[d.name] \cap {"present", "installif"} # {}
      names == ProvidedNames(p)
  IN IF SvPool[p].iif # << >> /\ \A d \in ErIn(SvPool[p].iif) : there(d) # d.conflict
     THEN Then(s, [i \in DOMAIN names |-> Call("name", [name |-> names[i], state |-> "installif"])])
     ELSE s

ErCall(s, c) ==
  CASE c.f = "name" -> Then(s, discover_name(c.x))
    [] c.f = "provider" -> ErProvider(s, c.x)
    [] c.f = "riif" -> Then(s, discover_reverse_iif(c.x))
    [] c.f = "iif" -> ErInstallIf(s, c.x)

------------------------------------------------------------------------------
(* What is said of a name: who requires it.  Of the packages of one name only  *)
(* the first is said.                                                          *)
ErRequires(p, n) == DependsOn(NonConflicts(SvPool[p].depends), n)
ErRequiredByNext(acc, providers, n) ==
  LET new == SelectSeq(providers, LAMBDA q : q.pkg \notin acc.seen)
      hits == {i \in DOMAIN new : ErRequires(new[i].pkg, n)}
      upto == IF hits = {} THEN Len(new) ELSE Min(hits)
  IN [seen |-> acc.seen \cup {new[i].pkg : i \in 1..upto},
      by |-> acc.by \cup (IF hits = {} THEN {} ELSE {new[upto].pkg})]

analyze_missing_name(n) ==
  [name |-> n, virtual |-> sv.prov[n] # << >>,
   world |-> DependsOn(NonConflicts(sv.sc.world), n),
   by |-> Thread(LAMBDA acc, m : ErRequiredByNext(acc, ErMarkedProviders(m), n),
                 [seen |-> {}, by |-> {}], rdepends(sv, n)).by]

ErMissing(s) ==
  LET names == {d.name : d \in UNION {ErIn(NonConflicts(SvPool[p].depends)) : p \in Marked}
                               \cup ErIn(NonConflicts(sv.sc.world))}
  IN {n \in names : s.nm[n] \cap {"present", "installif"} = {}}

(* What is said of a package: that no allowed repository has it, what it       *)
(* conflicts with, which dependencies of others (0: the world's) it breaks.    *)
print_pinning_errors(p) ==
  p \notin sv.sc.installed /\ SvPool[p].tags \cap {SvMain, get_tag(sv, p)} = {}

print_conflicts(p) ==
  LET own(d) == {i \in DOMAIN sv.prov[d.name] : sv.prov[d.name][i] = Provider(p, d.ver)}
      others(d) == {i \in DOMAIN sv.prov[d.name] :
                      /\ sv.prov[d.name][i].pkg \in Marked
                      /\ d.ver # 0 \/ sv.prov[d.name][i].ver # 0
                      /\ own(d) # {} => i # Min(own(d))}
  IN ({q.pkg : q \in ErIn(ErMarkedProviders(SvPool[p].name))} \ {p})
     \cup UNION {{sv.prov[d.name][i].pkg : i \in others(d)} : d \in ErIn(SvPool[p].provides)}

ErConflictsDep(parent, dep, p) ==
  DependsOn(ProvidesOf(p), dep.name) /\ ~apk_dep_analyze(parent, dep, p)
print_deps_world(p) == {<<0, d>> : d \in {e \in ErIn(sv.sc.world) : ErConflictsDep(0, e, p)}}
print_deps(p) ==
  {<<0, d>> : d \in {e \in ErIn(sv.sc.world) : ErConflictsDep(0, e, p)}}
  \cup UNION {{<<q, d>> : d \in {e \in ErIn(SvPool[q].depends) : ErConflictsDep(q, e, p)}} : q \in Marked}

analyze_package(p) ==
  [pkg |-> p, masked |-> print_pinning_errors(p), conflicts |-> print_conflicts(p), breaks |-> print_deps(p)]

------------------------------------------------------------------------------
ErStart ==
  /\ er.pc = "idle"
  /\ sv.pc = "done" /\ sv.errors > 0
  /\ er' = [pc |-> "discover", calls |-> discover_deps(sv.sc.world),
            nm |-> [n \in SvName |-> {}], pk |-> [p \in SvPkg |-> {}]]

ErDiscover ==
  /\ er.pc = "discover" /\ er.calls # << >>
  /\ er' = ErCall([er EXCEPT !.calls = Tail(@)], Head(er.calls))

(* apk_solver_print_errors: a package of which there is nothing to say is not  *)
(* mentioned.                                                                  *)
ErReport ==
  /\ er.pc = "discover" /\ er.calls = << >>
  /\ er' = [pc |-> "done", missing |-> {analyze_missing_name(n) : n \in ErMissing(er)},
            blamed |-> {b \in {analyze_package(p) : p \in Marked} :
                          b.masked \/ b.conflicts # {} \/ b.breaks # {}}]

------------------------------------------------------------------------------
(* The reporter finds what is wrong: it never has to say "Huh? Error reporter  *)
(* did not find the broken constraints." (commit.c:956).                       *)
ErNeverHuh ==
  er.pc = "done" => er.missing \cup er.blamed # {}

(* Every broken constraint of the packages the solver ended with is reported:  *)
(* a dependency nobody provides as a missing name, one that is provided in the *)
(* wrong version, or a conflict, as broken by the package that does.           *)
ErComplete ==
  er.pc = "done" =>
    \A q \in Marked \cup {0} : \A d \in ErIn(IF q = 0 THEN sv.sc.world ELSE SvPool[q].depends) :
      ~Holds(Marked, q, d) =>
        \/ \E m \in er.missing : m.name = d.name
        \/ \E b \in er.blamed : <<q, d>> \in b.breaks

(* Whoever is told of a missing name is told who needs it.                     *)
ErRequirerNamed ==
  er.pc = "done" => \A m \in er.missing : m.world \/ m.by # {}

ErNext == (ErStart \/ ErDiscover \/ ErReport) /\ UNCHANGED sv

\* What the error reporter promises of an unsolvable world: it finds a broken constraint,
\* every name that made the solver fail, and who asks for it.
ErCorrect == ErNeverHuh /\ ErComplete /\ ErRequirerNamed
================================================================================
