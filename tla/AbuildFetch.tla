----------------------------- MODULE AbuildFetch -----------------------------
(* abuild-fetch (abuild/abuild-fetch.c): several builds fetch the same         *)
(* distfile.  They agree through a lock file that is unlinked afterwards, and  *)
(* share a .part file that a later run may resume.                             *)
(*                                                                             *)
(* The lock file is a name for an inode: afLink is the inode the name refers   *)
(* to (0: no such file) and afLock the holder of the lock of each inode.  The  *)
(* .part file and the finished file are names too, and afData is the content   *)
(* of a file: the chunks of the distfile in the order they lie in it.  0 is a  *)
(* hole.                                                                       *)
EXTENDS Naturals, Sequences, FiniteSets

CONSTANTS AfProc,      \* invocations of abuild-fetch for the same file
          AfChunks,    \* length of the distfile
          AfMaxFaults  \* bound on failed downloads, signals, and ESTALE answers of lockf
                       \* (after ten of which the code gives up)


VARIABLES afProc, afLink, afLock, afPart, afOut, afData, afFaults,
          afSplit   \* history: two processes have held the lock at once

afVars == <<afProc, afLink, afLock, afPart, afOut, afData, afFaults, afSplit>>

AfNobody == "nobody"

ASSUME AfAssumption ==
    /\ IsFiniteSet(AfProc) /\ AfNobody \notin AfProc
    /\ AfChunks \in Nat \ {0} /\ AfMaxFaults \in Nat

AfInode == 1..Cardinality(AfProc) + AfMaxFaults
AfFile == 1..2 * Cardinality(AfProc)
AfComplete == [i \in 1..AfChunks |-> i]

AfPcs == {"open", "lock", "check", "probe", "curl", "wget", "xfer", "rename",
          "release", "trylock", "unlink", "close", "done", "killed"}

AfRecord == [pc : AfPcs, fd : AfInode \cup {0}, resume : BOOLEAN, append : BOOLEAN,
             tool : {"curl", "wget"}, file : AfFile \cup {0}, pos : 0..AfChunks,
             status : {0, 1, 33, 201}]

AfTypeOK ==
    /\ afProc \in [AfProc -> AfRecord]
    /\ afLink \in AfInode \cup {0}
    /\ afLock \in [AfInode -> AfProc \cup {AfNobody}]
    /\ {afPart, afOut} \subseteq AfFile \cup {0}
    /\ DOMAIN afData = AfFile
    /\ afFaults \in 0..AfMaxFaults
    /\ afSplit \in BOOLEAN

AfInit ==
    /\ afProc = [p \in AfProc |-> [pc |-> "open", fd |-> 0, resume |-> FALSE, append |-> FALSE,
                                   tool |-> "curl", file |-> 0, pos |-> 0, status |-> 0]]
    /\ afLink = 0
    /\ afLock = [i \in AfInode |-> AfNobody]
    /\ afPart = 0
    /\ afOut = 0
    /\ afData = [f \in AfFile |-> <<>>]
    /\ afFaults = 0
    /\ afSplit = FALSE

AfGoto(p, pc) == afProc' = [afProc EXCEPT ![p].pc = pc]
AfFreed(i) == IF i = 0 THEN afLock ELSE [afLock EXCEPT ![i] = AfNobody]

AfFaultHappens == afFaults < AfMaxFaults /\ afFaults' = afFaults + 1

(* Between acquire_lock and release_lock.                                      *)
AfInside == {"check", "probe", "curl", "wget", "xfer", "rename"}

(* Names of files nobody refers to any more: unlinked and closed by all.       *)
AfUnusedInode == CHOOSE i \in AfInode : i # afLink /\ \A p \in AfProc : afProc[p].fd # i
AfUnusedFile == CHOOSE f \in AfFile : f \notin {afPart, afOut} /\ \A p \in AfProc : afProc[p].file # f

------------------------------------------------------------------------------
(* acquire_lock: open with O_CREAT, then lockf(F_LOCK).  The lock taken is the *)
(* lock of the inode that was opened, whatever became of its name since.       *)
AfOpen(p) ==
    /\ afProc[p].pc = "open"
    /\ LET i == IF afLink = 0 THEN AfUnusedInode ELSE afLink IN
       /\ afLink' = i
       /\ afProc' = [afProc EXCEPT ![p].pc = "lock", ![p].fd = i]
    /\ UNCHANGED <<afLock, afPart, afOut, afData, afFaults, afSplit>>

AfAcquireAlways(p) ==
    /\ afProc[p].pc = "lock"
    /\ afLock' = [afLock EXCEPT ![afProc[p].fd] = p]
    /\ AfGoto(p, "check")
    /\ afSplit' = (afSplit \/ \E q \in AfProc \ {p} : afProc[q].pc \in AfInside)
    /\ UNCHANGED <<afLink, afPart, afOut, afData, afFaults>>

AfAcquire(p) ==
    /\ afProc[p].pc = "lock"
    /\ afLock[afProc[p].fd] = AfNobody
    /\ afLock' = [afLock EXCEPT ![afProc[p].fd] = p]
    /\ AfGoto(p, "check")
    /\ afSplit' = (afSplit \/ \E q \in AfProc \ {p} : afProc[q].pc \in AfInside)
    /\ UNCHANGED <<afLink, afPart, afOut, afData, afFaults>>

AfEstale(p) ==
    /\ afProc[p].pc = "lock"
    /\ AfFaultHappens
    /\ afProc' = [afProc EXCEPT ![p].pc = "open", ![p].fd = 0]
    /\ UNCHANGED <<afLink, afLock, afPart, afOut, afData, afSplit>>

(* fetch: nothing to do when the file is there; else resume a partial one.     *)
AfCheck(p) ==
    /\ afProc[p].pc = "check"
    /\ AfGoto(p, IF afOut # 0 THEN "release" ELSE "probe")
    /\ UNCHANGED <<afLink, afLock, afPart, afOut, afData, afFaults, afSplit>>

AfProbe(p) ==
    /\ afProc[p].pc = "probe"
    /\ afProc' = [afProc EXCEPT ![p].pc = "curl", ![p].resume = afPart # 0]
    /\ UNCHANGED <<afLink, afLock, afPart, afOut, afData, afFaults, afSplit>>

(* fork_exec: curl or wget opens the .part file, at its end to resume and      *)
(* truncating it otherwise.  The options are those chosen when the .part file  *)
(* was looked for.                                                             *)
AfExec(p) ==
    /\ afProc[p].pc \in {"curl", "wget"}
    /\ LET f == IF afPart = 0 THEN AfUnusedFile ELSE afPart
           start == IF afProc[p].resume /\ afPart # 0 THEN Len(afData[f]) ELSE 0 IN
       /\ start <= AfChunks
       /\ afPart' = f
       /\ afData' = [afData EXCEPT ![f] = IF start = 0 THEN <<>> ELSE @]
       /\ afProc' = [afProc EXCEPT ![p].pc = "xfer", ![p].tool = afProc[p].pc, ![p].file = f,
                                   ![p].append = afProc[p].resume, ![p].pos = start]
    /\ UNCHANGED <<afLink, afLock, afOut, afFaults, afSplit>>

(* 201: the program could not be started; curl falls back to wget.             *)
AfExecFails(p) ==
    /\ afProc[p].pc \in {"curl", "wget"}
    /\ AfFaultHappens
    /\ afProc' = [afProc EXCEPT ![p].pc = IF @ = "curl" THEN "wget" ELSE "release",
                                ![p].status = IF afProc[p].pc = "wget" THEN 201 ELSE @]
    /\ UNCHANGED <<afLink, afLock, afPart, afOut, afData, afSplit>>

(* The child writes its next chunk: at the end of the file when it resumes, at *)
(* its own position otherwise.                                                 *)
AfPut(data, pos, append) ==
    IF append THEN Append(data, pos)
    ELSE [i \in 1..(IF pos > Len(data) THEN pos ELSE Len(data)) |->
             IF i = pos THEN pos ELSE IF i <= Len(data) THEN data[i] ELSE 0]

AfWrite(p) ==
    /\ afProc[p].pc = "xfer"
    /\ afProc[p].pos < AfChunks
    /\ Len(afData[afProc[p].file]) < 2 * AfChunks
    /\ LET n == afProc[p].pos + 1 IN
       /\ afData' = [afData EXCEPT ![afProc[p].file] = AfPut(@, n, afProc[p].append)]
       /\ afProc' = [afProc EXCEPT ![p].pos = n]
    /\ UNCHANGED <<afLink, afLock, afPart, afOut, afFaults, afSplit>>

AfSucceed(p) ==
    /\ afProc[p].pc = "xfer"
    /\ afProc[p].pos = AfChunks
    /\ afProc' = [afProc EXCEPT ![p].pc = "rename", ![p].file = 0, ![p].status = 0]
    /\ UNCHANGED <<afLink, afLock, afPart, afOut, afData, afFaults, afSplit>>

AfFail(p) ==
    /\ afProc[p].pc = "xfer"
    /\ AfFaultHappens
    /\ afProc' = [afProc EXCEPT ![p].pc = "release", ![p].file = 0, ![p].status = 1]
    /\ UNCHANGED <<afLink, afLock, afPart, afOut, afData, afSplit>>

(* CURLE_RANGE_ERROR: the .part file is unlinked and curl starts afresh.       *)
AfRangeError(p) ==
    /\ afProc[p].pc = "xfer"
    /\ afProc[p].tool = "curl"
    /\ afProc[p].resume
    /\ afProc[p].pos = Len(afData[afProc[p].file])
    /\ afPart' = 0
    /\ afProc' = [afProc EXCEPT ![p].pc = "curl", ![p].file = 0, ![p].resume = FALSE]
    /\ UNCHANGED <<afLink, afLock, afOut, afData, afFaults, afSplit>>

(* The rename happens to whatever .part names; its result is not looked at.    *)
AfRename(p) ==
    /\ afProc[p].pc = "rename"
    /\ afOut' = IF afPart = 0 THEN afOut ELSE afPart
    /\ afPart' = 0
    /\ AfGoto(p, "release")
    /\ UNCHANGED <<afLink, afLock, afData, afFaults, afSplit>>

(* fetch_done: release, sleep a millisecond, take the lock again unless the    *)
(* file was fetched, and unlink the name of the lock file.                     *)
AfRelease(p) ==
    /\ afProc[p].pc = "release"
    /\ afLock' = AfFreed(afProc[p].fd)
    /\ AfGoto(p, IF afProc[p].status = 0 THEN "unlink" ELSE "trylock")
    /\ UNCHANGED <<afLink, afPart, afOut, afData, afFaults, afSplit>>

AfTryLock(p) ==
    /\ afProc[p].pc = "trylock"
    /\ IF afLock[afProc[p].fd] = AfNobody
       THEN /\ afLock' = [afLock EXCEPT ![afProc[p].fd] = p]
            /\ AfGoto(p, "unlink")
       ELSE /\ AfGoto(p, "close")
            /\ UNCHANGED afLock
    /\ UNCHANGED <<afLink, afPart, afOut, afData, afFaults, afSplit>>

AfUnlink(p) ==
    /\ afProc[p].pc = "unlink"
    /\ afLink' = 0
    /\ AfGoto(p, "close")
    /\ UNCHANGED <<afLock, afPart, afOut, afData, afFaults, afSplit>>

AfClose(p) ==
    /\ afProc[p].pc = "close"
    /\ afLock' = IF afLock[afProc[p].fd] = p THEN AfFreed(afProc[p].fd) ELSE afLock
    /\ afProc' = [afProc EXCEPT ![p].pc = "done", ![p].fd = 0]
    /\ UNCHANGED <<afLink, afPart, afOut, afData, afFaults, afSplit>>

(* sighandler: unlink the lock file, whoever holds it, and exit; the kernel    *)
(* closes the descriptor.  The signal comes from the terminal and ends the     *)
(* child too, which is in the same process group.                              *)
AfSignal(p) ==
    /\ afProc[p].pc \notin {"open", "done", "killed"}
    /\ AfFaultHappens
    /\ afLink' = 0
    /\ afLock' = IF afLock[afProc[p].fd] = p THEN AfFreed(afProc[p].fd) ELSE afLock
    /\ afProc' = [afProc EXCEPT ![p].pc = "killed", ![p].fd = 0, ![p].file = 0]
    /\ UNCHANGED <<afPart, afOut, afData, afSplit>>

------------------------------------------------------------------------------
AfStep(p) ==
    \/ AfOpen(p) \/ AfAcquire(p) \/ AfCheck(p) \/ AfProbe(p) \/ AfExec(p)
    \/ AfWrite(p) \/ AfSucceed(p) \/ AfRename(p) \/ AfRelease(p)
    \/ AfTryLock(p) \/ AfUnlink(p) \/ AfClose(p)

AfFault(p) == AfEstale(p) \/ AfExecFails(p) \/ AfFail(p) \/ AfRangeError(p) \/ AfSignal(p)

AfNext == \E p \in AfProc : AfStep(p) \/ AfFault(p)

(* The scheduler runs every process, and downloads end.                        *)
AfFairness == \A p \in AfProc : WF_afVars(AfStep(p))

AfSpec == AfInit /\ [][AfNext]_afVars /\ AfFairness

------------------------------------------------------------------------------
(* The lock of abuild-fetch keeps writers apart ("create or wait for an        *)
(* NFS-safe lockfile", line 117): at most one download writes the .part file.  *)
(* Not so once a fetch has failed or was interrupted: then the name is         *)
(* unlinked under a process that waits or holds (lines 201 and 213), the next  *)
(* one locks a new file, and two hold locks of different inodes.               *)
AfOneWriter ==
    \A p, q \in AfProc :
        afProc[p].file # 0 /\ afProc[q].file # 0 /\ p # q
            => afFaults > 0 /\ afProc[p].fd # afProc[q].fd

(* The lock did its work so far: no fault, or none that let two processes in.  *)
AfExclusive == afFaults = 0 \/ ~afSplit

(* "only rename completed downloads" (line 188): the distfile, once it has its *)
(* name, is the whole file and each chunk once and in its place; a failed      *)
(* download that left a part does not spoil it.  It takes three processes and  *)
(* a fault that splits the lock to give a torn file its name.                  *)
AfOutComplete == AfExclusive /\ afOut # 0 => afData[afOut] = AfComplete

(* Exit status 0 of a fetch that ended by itself means that the file is there, *)
(* also for the one that found it fetched by another.                          *)
AfZeroMeansFetched ==
    AfExclusive => \A p \in AfProc : afProc[p].pc = "done" /\ afProc[p].status = 0 => afOut # 0

(* Once one has begun every fetch ends: the lock is given on by release, exit  *)
(* or signal, and an unlinked lock file keeps nobody waiting.                  *)
AfTermination ==
    []<>\/ \A p \in AfProc : afProc[p].pc = "open"
        \/ \A p \in AfProc : afProc[p].pc \in {"done", "killed"}

\* What abuild-fetch promises of the files of DISTFILES, whatever fails: the lock keeps two
\* writers of one file apart, a file with its final name is whole, and exit status 0 means
\* it is there.
AfCorrect == AfTypeOK /\ AfOneWriter /\ AfOutComplete /\ AfZeroMeansFetched
================================================================================
