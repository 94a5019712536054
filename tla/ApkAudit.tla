------------------------------ MODULE ApkAudit ------------------------------
(***************************************************************************)
(* apk audit (apk-tools/src/app_audit.c): the walk over the file system    *)
(* that compares it with the installed database, with the protected path   *)
(* masks of database.c deciding what is looked at.                         *)
(*                                                                         *)
(* A path is the sequence of its components, <<>> the root directory.  A   *)
(* node of the disk says how it compares with the database: content, xattr *)
(* and perm are TRUE where equal (xattr also for a package whose           *)
(* attributes are known to be broken).  readdir returns the names of a     *)
(* directory in any order, and a file may vanish while the walk is on.     *)
(***************************************************************************)
EXTENDS Naturals, Sequences, FiniteSets, SequencesExt, FiniteSetsExt

CONSTANTS
  AuScenarios,   \* audits: options, masks, database and disk
  AuMaxVanish    \* bound: files that vanish during the walk

VARIABLE au

AuParent(p) == Front(p)

AuMatch(pat, name) == pat = "*" \/ pat = name      \* fnmatch of one component

AuModeNone(m) == m \in {"NONE", "IGNORE"}           \* apk_protect_mode_none

----------------------------------------------------------------------------
(* Protected paths *)

\* A line of protected_paths.d: no mode character means +.  The pattern is
\* what is left once slashes are trimmed.
apk_db_add_protected_path(line) ==
  [pat  |-> line.pat,
   mode |-> CASE line.char = "-" -> "IGNORE"
              [] line.char = "@" -> "SYMLINKS_ONLY"
              [] line.char = "!" -> "ALL"
              [] OTHER           -> "CHANGED"]

\* What apk_db_dir_get computes for a new directory: its mode, whether to look
\* below it, and the patterns left for its children.  The root keeps no
\* patterns of its own, so a file directly in it is never protected.
AuEnter(parent, ppaths, name, top) ==
  LET deep == SelectSeq(ppaths, LAMBDA q : Len(q.pat) > 1 /\ AuMatch(q.pat[1], name))
      here == SelectSeq(ppaths, LAMBDA q : Len(q.pat) = 1 /\ AuMatch(q.pat[1], name))
      from == IF top THEN "NONE" ELSE parent.mode
  IN [mode     |-> IF here = <<>> THEN from ELSE Last(here).mode,
      children |-> ~AuModeNone(from)
                     \/ \E q \in ToSet(deep \o here) : ~AuModeNone(q.mode),
      ppaths   |-> [i \in 1..Len(deep) |-> [deep[i] EXCEPT !.pat = Tail(@)]]]

AuDirOf(prot, path) ==
  LET d[n \in 0..Len(path)] ==
        IF n = 0 THEN [mode |-> "NONE", children |-> TRUE, ppaths |-> <<>>]
        ELSE AuEnter(d[n - 1], IF n = 1 THEN prot ELSE d[n - 1].ppaths, path[n], n = 1)
  IN d[Len(path)]

determine_file_protect_mode(dir, name) ==
  LET here == SelectSeq(dir.ppaths, LAMBDA q : Len(q.pat) = 1 /\ AuMatch(q.pat[1], name))
  IN IF here = <<>> THEN dir.mode ELSE Last(here).mode

----------------------------------------------------------------------------
(* What is found of one entry *)

AuOwnedDir(sc, p)  == p \in sc.dirs
AuOwnedFile(sc, p) == p \in DOMAIN sc.files

\* audit_file: "" is no difference.
audit_file(sc, p, node) ==
  CASE ~AuOwnedFile(sc, p) /\ ~sc.details          -> "A"
    [] ~node.readable                              -> "e"
    [] ~AuOwnedFile(sc, p)                         -> "A"
    [] ~node.content                               -> "U"
    [] node.kind = "file" /\ ~node.xattr           -> "x"
    [] sc.check_permissions /\ ~node.perm          -> "M"
    [] OTHER                                       -> ""

\* audit_directory; dbd->refs is 1 for a directory no package owns.
audit_directory(sc, p, node) ==
  CASE ~AuOwnedDir(sc, p)                          -> IF sc.recursive THEN "d" ELSE "D"
    [] sc.check_permissions /\ ~node.perm          -> "m"
    [] OTHER                                       -> ""

AuOfDir == {"d", "D", "m"}     \* what may be said of a directory

\* report_audit: with --packages every package once, and only for files.
report_audit(s, reason, p) ==
  LET pkg == IF AuOwnedFile(s.sc, p) /\ reason \notin AuOfDir THEN s.sc.files[p] ELSE ""
  IN CASE reason = "" -> s
       [] s.sc.packages_only ->
            IF pkg = "" \/ pkg \in s.printed THEN s
            ELSE [s EXCEPT !.printed = @ \cup {pkg}]
       [] OTHER -> [s EXCEPT !.out = Append(@, [path |-> p, reason |-> reason])]

\* A mistake AuOnce must notice: an entry that cannot be read is not marked.
AuErrorUnmarked(s, p) == report_audit(s, "e", p)

\* An entry that is gone, or cannot be looked at.
AuError(s, p) ==
  report_audit(IF AuOwnedFile(s.sc, p) THEN [s EXCEPT !.audited = @ \cup {p}] ELSE s,
               "e", p)

AuNames(disk, p) ==
  {q[Len(q)] : q \in {q \in DOMAIN disk : q # <<>> /\ AuParent(q) = p}}

AuPush(s, p) == [s EXCEPT !.stack = Append(@, [dir |-> p, left |-> AuNames(s.disk, p)])]

\* The directory branch of audit_directory_tree_item.
AuDirItem(s, p, node) ==
  LET sc     == s.sc
      child  == AuDirOf(sc.prot, p)
      skip   == \/ sc.mode = "BACKUP" /\ AuModeNone(child.mode)
                \/ sc.mode = "FULL" /\ child.mode # "NONE"
      reason == IF skip THEN "" ELSE audit_directory(sc, p, node)
      seen   == IF skip THEN s ELSE [s EXCEPT !.modified = @ \cup {p}]
      told   == report_audit(seen, reason, p)
  IN IF sc.mode = "SYSTEM" /\ ~AuOwnedDir(sc, p) THEN s
     ELSE IF reason # "D" /\ (sc.mode = "BACKUP" => child.children)
     THEN AuPush(told, p) ELSE told

\* Whether a file of this protection is left alone in this mode.
AuIgnored(sc, p, node, protect) ==
  CASE sc.mode = "FULL" ->
         \/ protect \in {"IGNORE", "ALL", "CHANGED"}
         \/ protect = "SYMLINKS_ONLY" /\ node.kind # "file"
    [] sc.mode = "BACKUP" ->
         \/ AuModeNone(protect)
         \/ protect = "SYMLINKS_ONLY" /\ node.kind = "file"
         \/ node.apknew /\ (~AuOwnedFile(sc, p) \/ protect = "ALL")
    [] OTHER -> ~AuOwnedFile(sc, p) \/ ~AuModeNone(protect)

\* The file branch.
AuFileItem(s, p, node) ==
  LET sc      == s.sc
      protect == determine_file_protect_mode(AuDirOf(sc.prot, AuParent(p)), Last(p))
      seen    == IF AuOwnedFile(sc, p) THEN [s EXCEPT !.audited = @ \cup {p}] ELSE s
      reason  == IF sc.mode = "BACKUP" /\ protect = "ALL" THEN "A"
                 ELSE audit_file(sc, p, node)
  IN IF \/ AuIgnored(sc, p, node, protect)
        \/ ~AuOwnedFile(sc, p) /\ sc.ignore_busybox /\ node.kind = "bblink"
     THEN seen ELSE report_audit(seen, reason, p)

audit_directory_tree_item(s, p) ==
  IF p \notin DOMAIN s.disk THEN AuError(s, p)
  ELSE IF s.disk[p].kind = "dir" THEN AuDirItem(s, p, s.disk[p])
  ELSE AuFileItem(s, p, s.disk[p])

\* audit_missing_files, for one file of the database.
AuMissing(s, p) ==
  /\ p \notin s.audited
  /\ AuParent(p) \in s.modified
  /\ determine_file_protect_mode(AuDirOf(s.sc.prot, AuParent(p)), Last(p)) # "IGNORE"

audit_missing_files(s) ==
  FoldSet(LAMBDA p, t : IF AuMissing(s, p) THEN report_audit(t, "X", p) ELSE t,
          s, DOMAIN s.sc.files)

----------------------------------------------------------------------------
(* The audit *)

AuInit ==
  au = [pc |-> "idle", sc |-> <<>>, disk |-> <<>>, stack |-> <<>>, args |-> <<>>,
        out |-> <<>>, printed |-> {}, audited |-> {}, modified |-> {},
        failed |-> FALSE, vanished |-> 0]

AuStart(sc) ==
  au' = [au EXCEPT !.pc = "walk", !.sc = sc, !.disk = sc.disk, !.args = sc.args]

\* audit_directory_tree for the next argument; no argument is the root.
AuTree ==
  /\ au.pc = "walk" /\ au.stack = <<>> /\ au.args # <<>>
  /\ LET p == Head(au.args)
         s == [au EXCEPT !.args = Tail(@), !.modified = @ \cup {p}]
     IN au' = IF p \in DOMAIN au.disk /\ au.disk[p].kind = "dir"
              THEN AuPush(s, p) ELSE [s EXCEPT !.failed = TRUE]

\* The next name readdir returns in the directory on top of the stack.
AuItem ==
  /\ au.pc = "walk" /\ au.stack # <<>>
  /\ LET top == Last(au.stack)
     IN IF top.left = {} THEN au' = [au EXCEPT !.stack = Front(@)]
        ELSE \E name \in top.left :
               au' = audit_directory_tree_item(
                       [au EXCEPT !.stack[Len(au.stack)].left = @ \ {name}],
                       Append(top.dir, name))

\* The rest of audit_main.
AuFinish ==
  /\ au.pc = "walk" /\ au.stack = <<>> /\ au.args = <<>>
  /\ LET s == IF au.sc.mode = "BACKUP" THEN au ELSE audit_missing_files(au)
     IN au' = [s EXCEPT !.pc = "done"]

\* Someone removes a file behind the back of the walk.
AuVanish ==
  /\ au.pc = "walk" /\ au.vanished < AuMaxVanish
  /\ \E p \in {p \in DOMAIN au.disk : au.disk[p].kind # "dir"} :
       au' = [au EXCEPT !.disk = [q \in DOMAIN @ \ {p} |-> @[q]],
                        !.vanished = @ + 1]

AuNext ==
  \/ au.pc = "idle" /\ \E sc \in AuScenarios : AuStart(sc)
  \/ AuTree
  \/ AuItem
  \/ AuFinish
  \/ AuVanish

AuSpec == AuInit /\ [][AuNext]_au

----------------------------------------------------------------------------
(* What an audit should say, from the masks and the two trees alone *)

\* The mask that counts for a path: the longest that matches it or a directory
\* above it, the last line of equals.
AuProtection(sc, p) ==
  LET covers(q) == Len(q.pat) <= Len(p) /\ \A i \in 1..Len(q.pat) : AuMatch(q.pat[i], p[i])
      all  == {i \in 1..Len(sc.prot) : covers(sc.prot[i])}
      best == {i \in all : \A j \in all : Len(sc.prot[j].pat) <= Len(sc.prot[i].pat)}
  IN IF all = {} THEN "NONE" ELSE sc.prot[Max(best)].mode

AuAbove(sc, p) ==
  {SubSeq(p, 1, n) : n \in {n \in 0..Len(p) - 1 :
     \E i \in 1..Len(sc.args) : IsPrefix(sc.args[i], SubSeq(p, 1, n))
                                  /\ sc.args[i] # SubSeq(p, 1, n)}}

AuBelowArg(sc, p) == \E i \in 1..Len(sc.args) : IsStrictPrefix(sc.args[i], p)

AuSaysOfDir(sc, p) ==
  LET m == AuProtection(sc, p)
      judged == CASE sc.mode = "BACKUP" -> ~AuModeNone(m)
                  [] sc.mode = "FULL"   -> m = "NONE"
                  [] OTHER              -> AuOwnedDir(sc, p)
  IN IF judged THEN audit_directory(sc, p, sc.disk[p]) ELSE ""

\* Directories not looked into: reported whole, or nobody's in --system mode.
AuClosed(sc, d) ==
  \/ AuSaysOfDir(sc, d) = "D"
  \/ sc.mode = "SYSTEM" /\ ~AuOwnedDir(sc, d)

AuSaysOfFile(sc, p) ==
  LET node == sc.disk[p]
      m    == IF Len(p) = 1 THEN "NONE" ELSE AuProtection(sc, p)
  IN IF \/ AuIgnored(sc, p, node, m)
        \/ ~AuOwnedFile(sc, p) /\ sc.ignore_busybox /\ node.kind = "bblink"
     THEN "" ELSE IF sc.mode = "BACKUP" /\ m = "ALL" THEN "A"
     ELSE audit_file(sc, p, node)

AuExpected(sc) ==
  LET seen == {p \in DOMAIN sc.disk :
                 AuBelowArg(sc, p) /\ \A d \in AuAbove(sc, p) : ~AuClosed(sc, d)}
      dirs == {p \in seen : sc.disk[p].kind = "dir"}
      gone == {p \in DOMAIN sc.files \ {q \in seen : sc.disk[q].kind # "dir"} :
                 /\ (Len(p) = 1 \/ AuProtection(sc, p) # "IGNORE")
                 /\ \/ Contains(sc.args, AuParent(p))
                    \/ /\ AuParent(p) \in dirs
                       /\ sc.mode = "FULL" => AuProtection(sc, AuParent(p)) = "NONE"}
  IN {[path |-> p, reason |-> AuSaysOfDir(sc, p)] : p \in dirs}
       \cup {[path |-> p, reason |-> AuSaysOfFile(sc, p)] : p \in seen \ dirs}
       \cup (IF sc.mode = "BACKUP" THEN {} ELSE {[path |-> p, reason |-> "X"] : p \in gone})

----------------------------------------------------------------------------
(* Properties *)

\* The stack is a path of directories, each inside the one below it, and only
\* files of the database are marked as audited (app_audit.c:258-397).
AuTypeOK ==
  /\ au.pc \in {"idle", "walk", "done"}
  /\ \A i \in 2..Len(au.stack) : AuParent(au.stack[i].dir) = au.stack[i - 1].dir
  /\ au.pc # "idle" => au.audited \subseteq DOMAIN au.sc.files

\* A path is reported at most once, whatever vanishes during the walk: a file
\* found unreadable or gone is not reported again as deleted, and one that is
\* seen is not reported missing.  Only a directory where the database has a file
\* is reported as the one and missed as the other (app_audit.c:278-283, 324-325, 399-416).
AuOnce ==
  \A i, j \in 1..Len(au.out) :
    au.out[i].path = au.out[j].path =>
      i = j \/ Cardinality({k \in {i, j} : au.out[k].reason \in AuOfDir}) = 1

\* On a still file system the audit says exactly what the masks and the two
\* trees imply: no directory it prunes holds a protected file, the mask nearest
\* to a file decides, and --packages prints the packages of the files it would
\* have reported (app_audit.c:131-193, 258-381; database.c:305-376).
AuExact ==
  au.pc = "done" /\ au.vanished = 0 /\ ~au.failed =>
    LET want == {e \in AuExpected(au.sc) : e.reason # ""}
    IN IF au.sc.packages_only
       THEN au.printed = {au.sc.files[e.path] : e \in
                            {e \in want : AuOwnedFile(au.sc, e.path)
                                            /\ e.reason \notin AuOfDir}}
       ELSE ToSet(au.out) = want

\* The audit reports each path at most once, and as what it is.
AuCorrect ==
  au.pc # "idle" =>
    AuTypeOK /\ AuOnce /\ AuExact
=============================================================================
