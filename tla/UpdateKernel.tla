----------------------------- MODULE UpdateKernel -----------------------------
(* update-kernel (alpine-conf/update-kernel.in): builds a kernel, its          *)
(* initramfs and its modloop in a temporary directory and moves them to the    *)
(* boot medium.  Without a destination directory it updates the running        *)
(* system, whose modules come from the modloop on that medium.  The script     *)
(* runs under set -e until clean_up, which is the trap of the signals as well  *)
(* as of the exit, and does not end the script.                                *)
EXTENDS Integers, Sequences

CONSTANTS UkMaxRuns,   \* bound on the runs of the script
          UkMaxFaults  \* bound on failing commands, signals and power cuts

VARIABLE uk

\* The files of $STAGING in the order of the shell's *.
UkFiles == <<"System.map", "config", "initramfs", "modloop", "vmlinuz">>
UkFile == {UkFiles[i] : i \in DOMAIN UkFiles}
UkSet(v) == [f \in UkFile |-> v]
UkTorn == 0       \* a file that was only copied in part

\* running: update the running system.  build: the kernel comes from a build directory (-b).  e: set -e.
\* trap: signals are caught.  root: $ROOTFS holds a kernel.  staged: the files of $STAGING that are
\* still to be moved.  bad: mv failed for one of them.
UkIdle == [pc |-> "idle", running |-> FALSE, build |-> FALSE, e |-> TRUE, trap |-> TRUE, root |-> FALSE,
           staged |-> << >>, bad |-> FALSE]

\* uk.hit: something harmful has happened since the set of files on the medium was last whole.  uk.excuse: the
\* medium could not be unmounted, mounted or written.  uk.signalled: this run was sent a signal.
UkInit ==
  uk = [p |-> UkIdle, boot |-> UkSet(1), ver |-> 1, tmp |-> FALSE, modloop |-> TRUE, mount |-> "ro", runs |-> 0,
        faults |-> 0, status |-> -1, hit |-> FALSE, excuse |-> FALSE, signalled |-> FALSE, had |-> TRUE]

UkAt(pc) == uk.p.pc = pc
UkFault == uk.faults < UkMaxFaults
UkGo(s, pc) == [s EXCEPT !.p.pc = pc]
UkFails(s) == [s EXCEPT !.faults = @ + 1]
UkWhole(s) == \A f \in UkFile : s.boot[f] = s.boot["vmlinuz"]

(* clean_up: no more signals or set -e, and what is temporary goes, the tools  *)
(* that were installed as a virtual package included.                          *)
clean_up(s) == [s EXCEPT !.p.e = FALSE, !.p.trap = FALSE, !.p.root = FALSE, !.p.staged = << >>, !.tmp = FALSE]
UkExit(s, status) == [clean_up(s) EXCEPT !.p = UkIdle, !.status = status]
\* A command fails: under set -e that is the end.
UkFailed(s, pc) == IF s.p.e THEN UkExit(UkFails(s), 1) ELSE UkGo(UkFails(s), pc)

UkStart(running, build) ==
  /\ UkAt("idle") /\ uk.runs < UkMaxRuns
  /\ running => uk.modloop
  /\ uk' = [uk EXCEPT !.p = [UkIdle EXCEPT !.pc = "virtual", !.running = running, !.build = build],
                      !.runs = @ + 1, !.ver = @ + 1, !.status = -1, !.signalled = FALSE, !.excuse = FALSE,
                      !.had = uk.modloop /\ uk.mount = "ro"]

\* apk add -t $VIRTUAL, then mktemp, which is taken to work when set -e is off.
UkVirtual ==
  /\ UkAt("virtual")
  /\ \/ uk' = UkGo(uk, "mktemp")
     \/ UkFault /\ uk' = UkFailed(uk, "mktemp")

UkMktemp ==
  /\ UkAt("mktemp")
  /\ \/ uk' = [UkGo(uk, "root") EXCEPT !.tmp = TRUE]
     \/ uk.p.e /\ UkFault /\ uk' = UkFailed(uk, "root")

(* The packages, or with -b what make installs, go to $ROOTFS.  When $tmpdir   *)
(* has been removed apk fails, as it makes no more than the last directory of  *)
(* the path, but -b begins with mkdir -p.                                      *)
UkRoot ==
  LET installs(s, kernel) == [UkGo(s, "stage") EXCEPT !.tmp = @ \/ s.p.build, !.p.root = kernel]
  IN /\ UkAt("root")
     /\ \/ uk' = installs(uk, uk.tmp \/ uk.p.build)
        \/ UkFault /\ uk.p.e /\ uk' = UkFailed(uk, "stage")
        \/ UkFault /\ ~uk.p.e /\ \E kernel \in {FALSE, uk.p.build} : uk' = installs(UkFails(uk), kernel)

(* Modules, firmware, modloop, initramfs and the kernel go to $STAGING.        *)
(* Without set -e the modloop and the initramfs may be missing, whose tools    *)
(* clean_up has removed; without a kernel the script exits whatever set -e     *)
(* says.                                                                       *)
UkStage ==
  LET without(missing) == SelectSeq(UkFiles, LAMBDA f : f \notin missing)
  IN /\ UkAt("stage")
     /\ \/ ~uk.p.root /\ uk' = UkExit(uk, 1)
        \/ /\ uk.p.root
           /\ \E missing \in IF uk.p.e THEN {{}} ELSE SUBSET {"modloop", "initramfs"} :
                uk' = [UkGo(uk, "built") EXCEPT !.p.staged = without(missing)]
        \/ uk.p.root /\ UkFault /\ uk' = UkExit(UkFails(uk), 1)

(* For the running system no signal is wanted from here on.  The modloop is    *)
(* unmounted and the medium made writable.                                     *)
ignore_sigs_not(s) == s
ignore_sigs(s) == [s EXCEPT !.p.trap = FALSE]

UkUnlock ==
  /\ UkAt("built")
  /\ IF uk.p.running
     THEN LET s == ignore_sigs(uk) IN
          \/ uk' = [UkGo(s, "move") EXCEPT !.modloop = FALSE, !.mount = "rw"]
          \/ UkFault /\ uk' = [UkFailed(s, "move") EXCEPT !.excuse = TRUE]
          \/ UkFault /\ uk' = [UkFailed(s, "move") EXCEPT !.modloop = FALSE, !.excuse = TRUE]
     ELSE uk' = UkGo(uk, "move")

(* mv $STAGING/*: to another file system, so each file is copied.  A file that *)
(* fails does not stop mv, but its exit status is not 0.                       *)
UkMove ==
  /\ UkAt("move")
  /\ uk' = IF uk.p.staged # << >> /\ (uk.p.running => uk.mount = "rw")
           THEN [UkGo(uk, "moving") EXCEPT !.boot[Head(uk.p.staged)] = UkTorn]
           ELSE IF uk.p.e THEN UkExit(uk, 1) ELSE UkGo(uk, "dtb")

UkMoved ==
  /\ UkAt("moving")
  /\ LET rest == [uk EXCEPT !.p.staged = Tail(@)]
         next(s) == IF s.p.staged # << >> THEN UkGo(s, "move")
                    ELSE IF s.p.bad /\ s.p.e THEN UkExit(s, 1)
                    ELSE [UkGo(s, "dtb") EXCEPT !.hit = @ /\ ~UkWhole(s)]
     IN \/ uk' = next([rest EXCEPT !.boot[Head(uk.p.staged)] = uk.ver])
        \/ UkFault /\ uk' = next([UkFails(rest) EXCEPT !.p.bad = TRUE, !.hit = TRUE, !.excuse = TRUE])

(* The device trees are copied as well, if $tmpdir is still there; the files   *)
(* of the set are not touched.  This is still under set -e.                    *)
UkDtb ==
  /\ UkAt("dtb")
  /\ \/ uk' = UkGo(uk, "end")
     \/ uk.tmp /\ UkFault /\ uk' = [UkFailed(uk, "end") EXCEPT !.excuse = TRUE]

(* For the running system: sync, the medium read-only again and the new        *)
(* modloop mounted, each whether or not the others succeed.                    *)
UkEnd ==
  /\ UkAt("end")
  /\ \/ ~uk.p.running /\ uk' = UkExit(uk, 0)
     \/ /\ uk.p.running
        /\ \E ro, loop \in BOOLEAN :
             /\ ~(ro /\ loop) => UkFault
             /\ uk' = [UkExit(IF ro /\ loop THEN uk ELSE UkFails(uk), 0) EXCEPT
                         !.mount = IF ro THEN "ro" ELSE @,
                         !.modloop = @ \/ (loop /\ uk.boot["modloop"] # UkTorn),
                         !.excuse = ~(ro /\ loop)]

UkMoving == UkAt("moving") \/ (UkAt("move") /\ uk.p.staged # << >>)

(* HUP, INT or TERM while it is caught: clean_up runs, before the next command *)
(* or after the one that the signal may have ended, and the script goes on.    *)
UkHarmful == uk.p.build \/ uk.p.pc \in {"virtual", "mktemp"} \/ (~uk.p.running /\ UkMoving)
UkAfter == [virtual |-> "mktemp", mktemp |-> "root", root |-> "stage", stage |-> "built", built |-> "move",
            move |-> "dtb", moving |-> "dtb", dtb |-> "end", end |-> "end"]
UkSignal ==
  /\ ~UkAt("idle") /\ uk.p.trap /\ UkFault
  /\ \E pc \in {uk.p.pc, UkAfter[uk.p.pc]} :
       /\ UkAt("moving") => pc = "dtb"
       /\ uk' = [UkGo(UkFails(clean_up(uk)), pc) EXCEPT
                   !.signalled = TRUE, !.hit = @ \/ UkHarmful]

UkPowerCut ==
  /\ ~UkAt("idle") /\ UkFault
  /\ uk' = [UkFails(uk) EXCEPT !.p = UkIdle, !.tmp = FALSE, !.mount = "ro",
                               !.modloop = uk.boot["modloop"] # UkTorn, !.status = 2, !.excuse = FALSE,
                               !.hit = @ \/ UkMoving]

UkNext ==
  \/ \E running, build \in BOOLEAN : UkStart(running, build)
  \/ UkVirtual \/ UkMktemp \/ UkRoot \/ UkStage \/ UkUnlock \/ UkMove \/ UkMoved \/ UkDtb \/ UkEnd
  \/ UkSignal \/ UkPowerCut

UkSpec == UkInit /\ [][UkNext]_uk

------------------------------------------------------------------------------
(* Kernel, initramfs and modloop on the medium belong together, unless since   *)
(* they last did the power went or mv failed while they were moved, or a       *)
(* signal came at one of the times that clean_up does not provide for: while   *)
(* files are moved to a destination directory, before $tmpdir was made, or     *)
(* anywhere in a run with -b.  So a failing command before the move is         *)
(* harmless, and with packages so is a signal between mktemp and the move, and *)
(* for the running system during the move (update-kernel.in:187-199, 384-391). *)
UkNeverMixed ==
  uk.p.pc \notin {"move", "moving"} => UkWhole(uk) \/ uk.hit

(* Exit status 0 of a run that got no signal means that the whole new set is   *)
(* on the medium, whatever an earlier run had left there after a power cut.    *)
UkDone ==
  uk.status = 0 /\ ~uk.signalled => \A f \in UkFile : uk.boot[f] = uk.ver

(* When the script ends, and the medium did what was asked of it, the modloop  *)
(* of the running system is mounted again and the medium read-only.  A command *)
(* that fails between umount and set +e (update-kernel.in:386-408) leaves both *)
(* undone, and a modloop that a power cut left torn cannot be mounted.         *)
UkModloopBack ==
  uk.p.pc = "idle" /\ uk.status \in {0, 1} /\ ~uk.excuse /\ uk.boot["modloop"] # UkTorn /\ uk.had =>
    uk.modloop /\ uk.mount = "ro"

\* What update-kernel promises: the medium holds a set of one version but for the cases above, status 0
\* means the new one, and the modloop is mounted again.
UkCorrect ==
  uk.runs > 0 =>
    UkNeverMixed /\ UkDone /\ UkModloopBack
================================================================================
