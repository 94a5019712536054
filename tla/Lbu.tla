--------------------------------- MODULE Lbu ---------------------------------
(* lbu (alpine-conf/lbu.in) keeps the configuration of a diskless system as an *)
(* overlay, hostname.apkovl.tar.gz, on a medium that is mounted only while it  *)
(* is written.  lb.media maps the names of files on the medium to contents:    *)
(* kind "ovl" is the overlay, "new" the one being written (outfile.new), both  *)
(* match *.apkovl.tar.gz* as does the overlay of another host, "other"; "bak"  *)
(* is a backup and carries the time of the overlay it was.  enc is the suffix  *)
(* of an encrypted file.  lb.owed is the version the last commit saved, 0 when *)
(* nobody can expect to find it: after commit -d, after an archive that is     *)
(* short because apk audit failed, or when a dry run met a medium without      *)
(* overlay.                                                                    *)
EXTENDS Integers, FiniteSets, Sequences, Functions

CONSTANTS LbMaxRuns,    \* bound on the commands that are run
          LbMaxTime,    \* bound on the clock
          LbMaxFaults,  \* bound on failing steps, signals and power cuts
          LbUsers       \* what a user does: sets of commands LbCommit, LbRevert, LbInclude

VARIABLE lb

LbName(kind, enc, date) == [kind |-> kind, enc |-> enc, date |-> date]
LbOutfile(enc) == LbName("ovl", enc, 0)
LbNewfile(enc) == LbName("new", enc, 0)
LbBackupName(enc, date) == LbName("bak", enc, date)
LbContent(ver, whole, time) == [ver |-> ver, whole |-> whole, time |-> time]

\* ls "$mnt"/*.apkovl.tar.gz*
LbOverlays(media) == {n \in DOMAIN media : n.kind \in {"ovl", "new", "other"}}
LbBackups(media) == {n \in DOMAIN media : n.kind = "bak"}

LbWithout(media, names) == Restrict(media, DOMAIN media \ names)
LbPut(media, n, c) == [m \in DOMAIN media \cup {n} |-> IF m = n THEN c ELSE media[m]]
\* mv; a name that does not exist makes it fail without effect.
LbMv(media, from, to) ==
  IF from \notin DOMAIN media THEN media ELSE LbPut(LbWithout(media, {from}), to, media[from])

LbNone == LbName("none", FALSE, 0)
LbIdle == [pc |-> "idle", cmd |-> "none", del |-> FALSE, dry |-> FALSE, enc |-> FALSE, limit |-> 0,
           rev |-> LbNone, path |-> "", sign |-> "", backup |-> LbNone, ver |-> 0, whole |-> TRUE,
           remount |-> FALSE, umount |-> FALSE]

LbInit ==
  lb = [p |-> LbIdle, user |-> {}, media |-> << >>, mount |-> "none", list |-> << >>, sys |-> 1, now |-> 1, runs |-> 0,
        faults |-> 0, owed |-> 0, before |-> [media |-> << >>, mount |-> "none"], result |-> "none"]

LbAt(pc) == lb.p.pc = pc
LbFault == lb.faults < LbMaxFaults
LbFaulted(s) == [s EXCEPT !.faults = @ + 1]
LbGo(s, pc) == [s EXCEPT !.p.pc = pc]

(* cleanup: read-only again what was remounted, unmount what was mounted.      *)
cleanup(s) ==
  [s EXCEPT !.mount = IF s.p.umount THEN "none" ELSE IF s.p.remount THEN "ro" ELSE @]
LbEnd(s, result) == [s EXCEPT !.p = LbIdle, !.result = result]

------------------------------------------------------------------------------
(* A command starts.  mount_once_rw: mount the medium unless it is, and make   *)
(* it writable; where that fails lbu dies and leaves the medium as it is then. *)
LbCommit(del, dry, enc, limit) ==
  [LbIdle EXCEPT !.pc = "mount", !.cmd = "commit", !.del = del, !.dry = dry, !.enc = enc, !.limit = limit]
LbRevert(enc, date) ==
  [LbIdle EXCEPT !.pc = "mount", !.cmd = "revert", !.enc = enc, !.rev = LbBackupName(enc, date)]
LbInclude(path, sign) == [LbIdle EXCEPT !.pc = "list", !.cmd = "list", !.path = path, !.sign = sign]

LbStart ==
  /\ LbAt("idle") /\ lb.runs < LbMaxRuns
  /\ \E user \in (IF lb.runs = 0 THEN LbUsers ELSE {lb.user}) : \E cmd \in user :
       lb' = [lb EXCEPT !.p = cmd, !.user = user, !.runs = @ + 1, !.result = "none",
                        !.before = [media |-> lb.media, mount |-> lb.mount]]

mount_once_rw ==
  /\ LbAt("mount")
  /\ LET next == IF lb.p.cmd = "commit" THEN "old" ELSE "revert"
     IN \/ \E m \in IF lb.mount = "none" THEN {"ro", "rw"} ELSE {lb.mount} :
             lb' = [LbGo(lb, next) EXCEPT !.mount = "rw", !.p.umount = lb.mount = "none", !.p.remount = m = "ro"]
        \/ /\ LbFault /\ lb.mount # "rw"
           /\ \E m \in {lb.mount, "ro"} : lb' = LbFaulted(LbEnd([lb EXCEPT !.mount = m], "unmounted"))


backup_apkovl(s) ==
  LET out == LbOutfile(s.p.enc)
      to == LbBackupName(s.p.enc, IF out \in DOMAIN s.media THEN s.media[out].time ELSE 0)
  IN IF s.p.dry THEN s
     ELSE [s EXCEPT !.media = LbMv(@, out, to), !.p.backup = to]

restore_apkovl(s) ==
  IF s.p.dry \/ s.p.backup = LbNone THEN s
  ELSE [s EXCEPT !.media = LbMv(@, s.p.backup, LbOutfile(s.p.enc))]

(* commit -d removes every overlay; otherwise the medium may hold none but     *)
(* ours, which is kept as a backup.                                            *)
LbRemoveOld ==
  /\ LbAt("old") /\ lb.p.del
  /\ lb' = LbGo(IF lb.p.dry THEN lb ELSE [lb EXCEPT !.media = LbWithout(@, LbOverlays(lb.media)), !.owed = 0], "package")

LbBackup ==
  /\ LbAt("old") /\ ~lb.p.del
  /\ LET lines == LbOverlays(lb.media) IN
     lb' = IF lines = {} THEN LbGo(lb, "package")
           ELSE IF lines = {LbOutfile(lb.p.enc)} THEN LbGo(backup_apkovl(lb), "package")
           ELSE LbEnd(cleanup(lb), "refused")

(* cmd_package: hooks that fail, or tar, stop it.  The status of a pipeline is *)
(* that of its last command: when apk audit fails the archive is short and     *)
(* nobody notices.                                                             *)
LbArchive ==
  /\ LbAt("package")
  /\ \/ lb' = [LbGo(lb, IF lb.p.dry THEN "prune" ELSE "copy") EXCEPT !.p.ver = lb.sys]
     \/ /\ LbFault
        /\ \/ lb' = LbFaulted(LbGo(lb, "failed"))
           \/ lb' = LbFaulted([LbGo(lb, IF lb.p.dry THEN "prune" ELSE "copy") EXCEPT !.p.ver = lb.sys, !.p.whole = FALSE])

\* cp "$tmppkg" "$pkg.new", which is torn until it is done.
LbCopyBegins ==
  /\ LbAt("copy")
  /\ lb' = [LbGo(lb, "copying") EXCEPT !.media = LbPut(@, LbNewfile(lb.p.enc), LbContent(lb.p.ver, FALSE, lb.now))]

LbCopyEnds ==
  /\ LbAt("copying")
  /\ LET new == LbNewfile(lb.p.enc) IN
     \/ lb' = [LbGo(lb, "rename") EXCEPT !.media[new] = LbContent(lb.p.ver, lb.p.whole, lb.now)]
     \/ LbFault /\ lb' = LbFaulted([LbGo(lb, "failed") EXCEPT !.media = LbWithout(@, {new})])

LbRename ==
  /\ LbAt("rename")
  /\ \/ lb' = [LbGo(lb, "prune") EXCEPT !.media = LbMv(@, LbNewfile(lb.p.enc), LbOutfile(lb.p.enc)),
                                        !.owed = IF lb.p.whole THEN lb.p.ver ELSE 0]
     \/ LbFault /\ lb' = LbFaulted(LbGo(lb, "failed"))

LbFailed ==
  /\ LbAt("failed")
  /\ lb' = LbEnd(cleanup(restore_apkovl(lb)), IF lb.p.del THEN "failed -d" ELSE "failed")

(* The oldest backups beyond BACKUP_LIMIT are removed, those of a dry run too. *)
LbBefore(a, b) == a.date < b.date \/ (a.date = b.date /\ ~a.enc /\ b.enc)
LbOldest(baks, limit) ==
  {n \in baks : Cardinality({m \in baks : LbBefore(n, m)}) >= limit}

LbPrune ==
  /\ LbAt("prune")
  /\ lb' = [LbGo(lb, "sync") EXCEPT !.media = LbWithout(@, LbOldest(LbBackups(lb.media), lb.p.limit)),
                                    !.owed = IF lb.p.dry /\ LbOutfile(lb.p.enc) \notin DOMAIN lb.media THEN 0 ELSE @]

LbSync ==
  /\ LbAt("sync")
  /\ lb' = LbEnd(cleanup(lb), IF lb.p.dry THEN "dry" ELSE "committed")

(* cmd_revert: the overlay becomes a backup, the revision the overlay.         *)
LbRevertBackup ==
  /\ LbAt("revert")
  /\ lb' = IF lb.p.rev \notin DOMAIN lb.media THEN LbEnd(lb, "not found")
           ELSE LbGo(backup_apkovl(lb), "reverting")

LbRevertMove ==
  /\ LbAt("reverting")
  /\ \/ lb' = LbEnd(cleanup([lb EXCEPT !.media = LbMv(@, lb.p.rev, LbOutfile(lb.p.enc))]), "reverted")
     \/ LbFault /\ lb' = LbFaulted(LbEnd(cleanup(lb), "failed revert"))

------------------------------------------------------------------------------
(* lbu include and exclude: add the path with one sign, delete it with the     *)
(* other.  exclude deletes first.                                              *)
list_has(list, line) == \E i \in DOMAIN list : list[i] = line
list_add(list, line) == IF list_has(list, line) THEN list ELSE Append(list, line)
list_delete(list, line) == SelectSeq(list, LAMBDA l : l # line)

LbListFirst ==
  /\ LbAt("list")
  /\ lb' = LbGo([lb EXCEPT !.list = IF lb.p.sign = "+" THEN list_add(@, <<"+", lb.p.path>>)
                                    ELSE list_delete(@, <<"+", lb.p.path>>)], "list2")

LbListSecond ==
  /\ LbAt("list2")
  /\ lb' = LbEnd([lb EXCEPT !.list = IF lb.p.sign = "+" THEN list_delete(@, <<"-", lb.p.path>>)
                                     ELSE list_add(@, <<"-", lb.p.path>>)], "listed")

------------------------------------------------------------------------------
(* exit_clean, the trap for INT and TERM; and the end of power.                *)
exit_clean ==
  /\ ~LbAt("idle") /\ LbFault
  /\ lb' = LbFaulted(LbEnd(cleanup(lb), "signal"))

LbPowerCut ==
  /\ ~LbAt("idle") /\ LbFault
  /\ lb' = LbFaulted(LbEnd([lb EXCEPT !.mount = "none"], "cut"))

(* The user changes the configuration; a second passes.                        *)
LbEdit ==
  /\ LbAt("idle") /\ lb.now < LbMaxTime
  /\ lb' = [lb EXCEPT !.sys = @ + 1, !.now = @ + 1, !.result = "none"]

(* The user inserts a medium before the first command, mounted or not, perhaps *)
(* with the overlay of another host.                                           *)
LbInsert ==
  /\ LbAt("idle") /\ lb.runs = 0
  /\ \E other \in BOOLEAN, mount \in {"none", "ro", "rw"} :
       lb' = [lb EXCEPT !.mount = mount,
                        !.media = IF other THEN [n \in {LbName("other", FALSE, 0)} |-> LbContent(0, TRUE, 0)] ELSE << >>]

LbNext ==
  \/ LbInsert \/ LbStart \/ mount_once_rw \/ LbRemoveOld \/ LbBackup \/ LbArchive \/ LbCopyBegins \/ LbCopyEnds \/ LbRename
  \/ LbFailed \/ LbPrune \/ LbSync \/ LbRevertBackup \/ LbRevertMove
  \/ LbListFirst \/ LbListSecond \/ exit_clean \/ LbPowerCut \/ LbEdit

LbSpec == LbInit /\ [][LbNext]_lb

------------------------------------------------------------------------------
(* Files on the medium have the times of the past, and a backup carries the    *)
(* time of its overlay in its name: date -u -r and mv keep them in step.       *)
LbTypeOK ==
  /\ lb.mount \in {"none", "ro", "rw"}
  /\ lb.p.pc = "idle" \/ lb.p.cmd = "list" \/ lb.p.pc = "mount" \/ lb.mount = "rw"
  /\ \A n \in DOMAIN lb.media : lb.media[n].time <= lb.now /\ (n.kind = "bak" => n.date = lb.media[n].time)

(* What was committed is never lost: whatever fails, is interrupted or loses   *)
(* power in a later commit without -d, or in a revert, the medium holds a      *)
(* whole copy of it, as the overlay or as a backup.                            *)
LbNeverLost ==
  lb.owed # 0 => \E n \in DOMAIN lb.media : lb.media[n].ver = lb.owed /\ lb.media[n].whole

(* A commit that fails puts the overlay back under its name                    *)
(* (restore_apkovl), so that the next boot finds it.                           *)
LbFailureUndone ==
  lb.p.pc = "idle" /\ lb.result \in {"failed", "refused"} =>
    \A enc \in BOOLEAN :
      LET out == LbOutfile(enc) IN
      out \in DOMAIN lb.before.media =>
        out \in DOMAIN lb.media /\ lb.media[out] = lb.before.media[out]

(* After a successful commit the medium holds one overlay ("More then one      *)
(* apkovl, this is a security concern", line 460) and no more than             *)
(* BACKUP_LIMIT backups, none of them older than one that was removed.         *)
LbCommitted ==
  lb.p.pc = "sync" /\ ~lb.p.dry =>
    /\ \E out \in DOMAIN lb.media : LbOverlays(lb.media) = {out} /\ out.kind = "ovl" /\ lb.media[out].ver = lb.p.ver
    /\ Cardinality(LbBackups(lb.media)) <= lb.p.limit
    /\ \A gone \in (LbBackups(lb.before.media) \cup ({lb.p.backup} \ {LbNone})) \ DOMAIN lb.media :
          Cardinality({n \in LbBackups(lb.media) : LbBefore(gone, n)}) = lb.p.limit

(* The medium is unmounted or read-only again after a commit if it was before, *)
(* also after one that failed or was interrupted.                              *)
LbMountRestored ==
  lb.p.pc = "idle" /\ lb.result \in {"committed", "dry", "failed", "failed -d", "refused", "reverted", "signal"} =>
    lb.mount = lb.before.mount

(* No path is both included and excluded, or listed twice, except while        *)
(* include or exclude is at work or after one that was interrupted.            *)
LbListClear ==
  /\ \A i, j \in DOMAIN lb.list : lb.list[i] = lb.list[j] => i = j
  /\ lb.p.pc = "idle" /\ lb.result = "listed" /\ lb.faults = 0 =>
       \A i, j \in DOMAIN lb.list : lb.list[i][2] = lb.list[j][2] => i = j

================================================================================
