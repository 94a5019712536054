----------------------------- MODULE ApkDbProofs -----------------------------
(* Proofs about ApkDb for any number of processes, packages and versions,     *)
(* failures and kills: type correctness, mutual exclusion of transactions,    *)
(* the agreement of the database with the root, and what a commit promises.   *)
EXTENDS ApkDb, TLAPS

\* The versions of a database, of a solution and of attached scripts.
LEMMA VersionTypes ==
  /\ Absent \in [Name -> Ver]
  /\ \A w, n : n \in Name => Target(w, n) \in Ver
  /\ \A f, g \in [Name -> Ver] : Attached(f, g) \in [Name -> Ver]
  BY ConstantsAssumption DEF Absent, Target, Attached, Ver

\* What a step leaves alone keeps its type.
LEMMA Kept ==
  /\ StorageType /\ UNCHANGED Storage => StorageType'
  /\ MemoryType /\ UNCHANGED mem => MemoryType'
  /\ LocalsType /\ UNCHANGED locals => LocalsType'
<1>1. StorageType /\ UNCHANGED Storage => StorageType'
  BY Zenon DEF StorageType, Storage, disk
<1>2. MemoryType /\ UNCHANGED mem => MemoryType'
  BY Zenon DEF MemoryType, mem
<1>3. LocalsType /\ UNCHANGED locals => LocalsType'
  BY Zenon DEF LocalsType, locals
<1> QED BY <1>1, <1>2, <1>3, Zenon

\* A fault stays within its bound.
LEMMA FaultType ==
  ASSUME faults \in 0..MaxFaults, faults < MaxFaults, faults' = faults + 1
  PROVE  faults' \in 0..MaxFaults
  BY ConstantsAssumption

\* The end of a process image keeps the types, whatever comes after it.
LEMMA GoneType ==
  ASSUME TypeOK, NEW p \in Proc, Gone(p), resumed' \in SUBSET Proc
  PROVE  /\ StorageType' /\ MemoryType' /\ LocalsType'
         /\ lock' \in Proc \cup {None} /\ err' \subseteq Proc
<1>1. StorageType'
  BY Kept, Zenon DEF TypeOK, Gone
<1>2. MemoryType'
  BY VersionTypes, Zenon DEF TypeOK, Gone, MemoryType
<1>3. LocalsType'
  BY Zenon DEF TypeOK, Gone, LocalsType
<1>4. lock' \in Proc \cup {None} /\ err' \subseteq Proc
  BY Zenon DEF TypeOK, Gone, ControlType
<1> QED BY <1>1, <1>2, <1>3, <1>4, Zenon

\* Installing a package keeps the types.
LEMMA InstallType ==
  ASSUME TypeOK, NEW p \in Proc, NEW n \in Name, NEW bad \in BOOLEAN, InstallPkg(p, n, bad)
  PROVE  StorageType' /\ MemoryType' /\ LocalsType'
<1>1. StorageType'
  BY VersionTypes, Zenon DEF TypeOK, InstallPkg, StorageType, disk
<1>2. MemoryType'
  BY VersionTypes, Zenon DEF TypeOK, InstallPkg, MemoryType
<1>3. LocalsType'
  BY Kept, Zenon DEF TypeOK, InstallPkg
<1> QED BY <1>1, <1>2, <1>3, Zenon

\* Every step keeps the variables in their types.
THEOREM TypeCorrect == Spec => []TypeOK
<1>1. Init => TypeOK
  <2> SUFFICES ASSUME Init PROVE TypeOK
    BY Zenon
  <2>1. StorageType
    BY ConstantsAssumption DEF Init, StorageType
  <2>2. MemoryType
    BY VersionTypes, Zenon DEF Init, MemoryType
  <2>3. ControlType /\ LocalsType
    BY Zenon DEF Init, ControlType, LocalsType, PC
  <2> QED BY <2>1, <2>2, <2>3, ConstantsAssumption DEF Init, TypeOK
<1>2. TypeOK /\ [Next]_vars => TypeOK'
  <2> SUFFICES ASSUME TypeOK, [Next]_vars PROVE TypeOK'
    BY Zenon
  <2> USE DEF TypeOK, ControlType, Goto, Errs
  <2>1. ASSUME NEW p \in Proc, Start(p) PROVE TypeOK'
    <3>1. LocalsType'
      BY <2>1 DEF Start, LocalsType
    <3> QED BY <2>1, <3>1, Kept, Zenon DEF Start, PC, Locking, mem
  <2>2. ASSUME NEW p \in Proc, AlarmEarly(p) PROVE TypeOK'
    <3>1. LocalsType'
      BY <2>2, Zenon DEF AlarmEarly, LocalsType
    <3> QED BY <2>2, <3>1, Kept, Zenon DEF AlarmEarly
  <2>3. ASSUME NEW p \in Proc, Crash(p) PROVE TypeOK'
    <3>1. resumed' \in SUBSET Proc
      BY <2>3, Zenon DEF Crash, Exit, LocalsType
    <3> QED BY <2>3, <3>1, GoneType, ConstantsAssumption DEF Crash, Exit, PC
  <2>4. ASSUME NEW p \in Proc, Step(p) PROVE TypeOK'
    <3>1. CASE OpenUnlocked(p) \/ Acquire(p)
      BY <3>1, Kept, Zenon DEF OpenUnlocked, Acquire, PC, Holding, Reading
    <3>2. CASE Refused(p) \/ Alarm(p)
      <4>1. resumed' \in SUBSET Proc
        BY <3>2, Zenon DEF Refused, Alarm, Exit, LocalsType
      <4> QED BY <3>2, <4>1, GoneType, Zenon DEF Refused, Alarm, Exit, PC
    <3>3. CASE SetAlarm(p) \/ Flock(p)
      BY <3>3, Kept, Zenon DEF SetAlarm, Flock, PC, Locking
    <3>4. CASE ReadWorld(p)
      <4>1. MemoryType'
        BY <3>4, Zenon DEF ReadWorld, MemoryType, StorageType
      <4> QED BY <3>4, <4>1, Kept, Zenon DEF ReadWorld, PC, Holding, Reading
    <3>5. CASE ReadInstalled(p)
      <4>1. MemoryType'
        BY <3>5, Zenon DEF ReadInstalled, MemoryType, StorageType
      <4> QED BY <3>5, <4>1, Kept, Zenon DEF ReadInstalled, PC, Holding, Reading
    <3>6. CASE ReadTriggers(p)
      <4>1. MemoryType'
        BY <3>6, VersionTypes, Zenon DEF ReadTriggers, MemoryType, StorageType
      <4> QED BY <3>6, <4>1, Kept, Zenon DEF ReadTriggers, PC, Holding, Reading
    <3>7. CASE ReadScripts(p)
      <4>1. MemoryType'
        BY <3>7, VersionTypes, Zenon DEF ReadScripts, MemoryType, StorageType
      <4> QED BY <3>7, <4>1, Kept, Zenon DEF ReadScripts, PC, Holding, Changing
    <3>8. CASE ReadError(p)
      BY <3>8, Kept, ConstantsAssumption DEF ReadError, PC, Holding
    <3>9. CASE Abort(p)
      BY <3>9, Kept, Zenon DEF Abort, PC, Holding
    <3>10. CASE Solve(p)
      <4>1. NewWorld(world[p], req[p]) \in SUBSET Name
        BY DEF NewWorld, Request, MemoryType, LocalsType
      <4>2. \A w, x : Changes(p, w, x) \in SUBSET Name
        BY Zenon DEF Changes
      <4>3. MemoryType'
        BY <3>10, <4>1, <4>2, Zenon DEF Solve, MemoryType
      <4> QED BY <3>10, <4>3, Kept, Zenon DEF Solve, PC, Holding, Changing
    <3>11. CASE Preupgrade(p)
      <4>1. Changes(p, world[p], {Self}) \in SUBSET Name
        BY Zenon DEF Changes
      <4>2. MemoryType'
        BY <3>11, <4>1, Zenon DEF Preupgrade, MemoryType
      <4>3. LocalsType'
        BY <3>11, Zenon DEF Preupgrade, LocalsType
      <4> QED BY <3>11, <4>2, <4>3, Kept, Zenon DEF Preupgrade, PC, Holding, Changing
    <3>12. ASSUME NEW n \in Name, Apply(p, n) PROVE TypeOK'
      BY <3>12, InstallType, Zenon DEF Apply, InstallPkg
    <3>13. ASSUME NEW n \in Name, ApplyScriptFails(p, n) PROVE TypeOK'
      <4>1. InstallPkg(p, n, TRUE)
        BY <3>13, Zenon DEF ApplyScriptFails
      <4>2. StorageType' /\ MemoryType' /\ LocalsType'
        BY <4>1, InstallType, Zenon
      <4>3. UNCHANGED <<pc, lock, crashes>>
        BY <4>1, Zenon DEF InstallPkg
      <4>4. faults' \in 0..MaxFaults
        BY <3>13, FaultType, Zenon DEF ApplyScriptFails
      <4> QED BY <3>13, <4>2, <4>3, <4>4, Zenon DEF ApplyScriptFails
    <3>14. ASSUME NEW n \in Name, ApplyFails(p, n) PROVE TypeOK'
      <4>1. MemoryType'
        BY <3>14, Zenon DEF ApplyFails, MemoryType
      <4>2. faults' \in 0..MaxFaults
        BY <3>14, FaultType, Zenon DEF ApplyFails
      <4> QED BY <3>14, <4>1, <4>2, Kept, Zenon DEF ApplyFails
    <3>15. ASSUME NEW n \in Name, TriggerFails(p, n) PROVE TypeOK'
      <4>1. MemoryType'
        BY <3>15, Zenon DEF TriggerFails, MemoryType
      <4>2. faults' \in 0..MaxFaults
        BY <3>15, FaultType, Zenon DEF TriggerFails
      <4> QED BY <3>15, <4>1, <4>2, Kept, Zenon DEF TriggerFails
    <3>16. CASE Applied(p) \/ FireTriggers(p) \/ PostCommitHooks(p)
      BY <3>16, Kept, Zenon DEF Applied, FireTriggers, PostCommitHooks, PC, Holding, Changing, Writing
    <3>17. CASE WriteConfig(p)
      <4>1. StorageType'
        <5>1. dbdir' \in BOOLEAN
          BY <3>17, Zenon DEF WriteConfig
        <5>2. UNCHANGED <<hasWorld, disk, fs>>
          BY <3>17, Zenon DEF WriteConfig
        <5> QED BY <5>1, <5>2, Zenon DEF StorageType, disk
      <4> QED BY <3>17, <4>1, Kept, Zenon DEF WriteConfig, PC, Holding, Writing
    <3>18. CASE WriteWorld(p) \/ WriteInstalled(p) \/ WriteScripts(p) \/ WriteTriggers(p)
      <4>1. StorageType'
        <5>1. CASE WriteWorld(p)
          BY <5>1, Zenon DEF WriteWorld, StorageType, MemoryType
        <5>2. CASE WriteInstalled(p)
          BY <5>2, Zenon DEF WriteInstalled, StorageType, MemoryType
        <5>3. CASE WriteScripts(p)
          BY <5>3, Zenon DEF WriteScripts, StorageType, MemoryType
        <5>4. CASE WriteTriggers(p)
          BY <5>4, Zenon DEF WriteTriggers, StorageType, MemoryType
        <5> QED BY <3>18, <5>1, <5>2, <5>3, <5>4, Zenon
      <4> QED BY <3>18, <4>1, Kept, Zenon DEF WriteWorld, WriteInstalled, WriteScripts, WriteTriggers,
                                      PC, Holding, Writing
    <3>19. CASE WriteError(p)
      <4>1. LocalsType'
        BY <3>19, Zenon DEF WriteError, LocalsType
      <4>2. pc' \in [Proc -> PC]
        BY <3>19 DEF WriteError, AfterWrite, PC, Holding, Writing
      <4>3. faults' \in 0..MaxFaults
        BY <3>19, FaultType, Zenon DEF WriteError
      <4> QED BY <3>19, <4>1, <4>2, <4>3, Kept, Zenon DEF WriteError
    <3>20. CASE Close(p)
      <4>1. resumed' \in SUBSET Proc
        BY <3>20, Zenon DEF Close, Exit, LocalsType
      <4> QED BY <3>20, <4>1, GoneType, Zenon DEF Close, Exit, PC, Locking
    <3>21. CASE NoWorld(p)
      <4>1. LocalsType'
        BY <3>21, Zenon DEF NoWorld, LocalsType
      <4>2. pc' \in [Proc -> PC] /\ err' \subseteq Proc
        BY <3>21, Zenon DEF NoWorld, PC, Holding, Reading
      <4>3. faults' \in 0..MaxFaults
        BY <3>21, FaultType, Zenon DEF NoWorld
      <4> QED BY <3>21, <4>1, <4>2, <4>3, Kept, Zenon DEF NoWorld
    <3>22. ASSUME NEW S \in SUBSET Name, ReadMasked(p, S) PROVE TypeOK'
      <4>1. LocalsType' /\ StorageType'
        BY <3>22, Kept, Zenon DEF ReadMasked, LocalsType
      <4>2. pc' \in [Proc -> PC]
        BY <3>22 DEF ReadMasked, AfterRead, PC, Holding, Reading, Changing
      <4>3. MemoryType'
        <5>1. \A f \in [Name -> Ver] : Part(f, S) \in [Name -> Ver]
          BY ConstantsAssumption DEF Part, Ver
        <5>2. installed' \in [Proc -> [Name -> Ver]] /\ broken' \in [Proc -> SUBSET Name]
          BY <3>22, <5>1, Zenon DEF ReadMasked, MemoryType, StorageType
        <5>3. triggers' \in [Proc -> [Name -> Ver]] /\ scripts' \in [Proc -> [Name -> Ver]]
          BY <3>22, <5>1, VersionTypes, Zenon DEF ReadMasked, MemoryType, StorageType
        <5> QED BY <3>22, <5>2, <5>3, Zenon DEF ReadMasked, MemoryType
      <4>4. faults' \in 0..MaxFaults
        BY <3>22, FaultType, Zenon DEF ReadMasked
      <4> QED BY <3>22, <4>1, <4>2, <4>3, <4>4, Zenon DEF ReadMasked
    <3> QED BY <2>4, <3>1, <3>2, <3>3, <3>4, <3>5, <3>6, <3>7, <3>8, <3>9, <3>10, <3>11, <3>12,
               <3>13, <3>14, <3>15, <3>16, <3>17, <3>18, <3>19, <3>20, <3>21, <3>22,
               Zenon DEF Step
  <2>5. CASE UNCHANGED vars
    BY <2>5, Kept, Zenon DEF vars
  <2> QED BY <2>1, <2>2, <2>3, <2>4, <2>5, Zenon DEF Next
<1> QED BY <1>1, <1>2, PTL DEF Spec

--------------------------------------------------------------------------------
(* Mutual exclusion.  A process that went past the lock without --initdb      *)
(* holds the flock; one with --initdb may not hold it, but runs alone.        *)

Idle == {"start", "done"}
LockInv ==
  /\ \A p \in Proc \ Creator : pc[p] \in Holding => lock = p
  /\ \A p \in Creator : \A q \in Proc \ {p} : pc[p] \in Idle \/ pc[q] \in Idle

\* Two processes inside a transaction would both hold the lock, or one of them be alone.
LEMMA LockInvExcludes == LockInv => OneWriter
  BY DEF LockInv, OneWriter, Holding, Reading, Changing, Writing, Idle

\* What the pcs of the other processes and the lock do when p steps.
LEMMA StepFrame ==
  ASSUME TypeOK, NEW p \in Proc, Step(p) \/ AlarmEarly(p) \/ Crash(p)
  PROVE  /\ pc[p] \notin Idle
         /\ \A q \in Proc \ {p} : pc'[q] = pc[q]
         /\ \/ lock' = lock /\ (pc[p] \in Holding \/ pc'[p] \notin Holding \/ p \in Creator)
            \/ lock = None /\ lock' = p
            \/ lock = p /\ lock' = None /\ pc'[p] \notin Holding
<1> USE DEF TypeOK, ControlType, Goto, Idle
<1>1. CASE AlarmEarly(p)
  BY <1>1, Zenon DEF AlarmEarly
<1>2. CASE Crash(p)
  BY <1>2, Zenon DEF Crash, Exit, Gone, Holding, Reading, Changing, Writing
<1>3. CASE OpenUnlocked(p) \/ Acquire(p)
  BY <1>3, Zenon DEF OpenUnlocked, Acquire
<1>4. CASE Refused(p) \/ Alarm(p)
  BY <1>4 DEF Refused, Alarm, Exit, Gone, Holding, Reading, Changing, Writing
<1>5. CASE SetAlarm(p) \/ Flock(p)
  BY <1>5, Zenon DEF SetAlarm, Flock, Holding, Reading, Changing, Writing
<1>6. CASE ReadWorld(p) \/ ReadInstalled(p) \/ ReadTriggers(p) \/ ReadScripts(p) \/ ReadError(p)
  BY <1>6, Zenon DEF ReadWorld, ReadInstalled, ReadTriggers, ReadScripts,
                     ReadError, Holding, Reading
<1>7. CASE Solve(p) \/ Preupgrade(p) \/ Abort(p) \/ Applied(p) \/ FireTriggers(p)
  BY <1>7, Zenon DEF Solve, Preupgrade, Abort, Applied, FireTriggers, Holding, Changing
<1>8. ASSUME NEW n \in Name,
             Apply(p, n) \/ ApplyScriptFails(p, n) \/ ApplyFails(p, n) \/ TriggerFails(p, n)
      PROVE  pc[p] \in Changing /\ UNCHANGED <<pc, lock>>
  BY <1>8, Zenon DEF Apply, ApplyScriptFails, InstallPkg, ApplyFails, TriggerFails, Changing
<1>9. CASE WriteConfig(p) \/ WriteWorld(p) \/ WriteInstalled(p) \/ WriteScripts(p)
           \/ WriteTriggers(p) \/ WriteError(p) \/ PostCommitHooks(p)
  BY <1>9, Zenon DEF WriteConfig, WriteWorld, WriteInstalled, WriteScripts, WriteTriggers,
                     WriteError, AfterWrite, PostCommitHooks, Holding, Writing
<1>10. CASE Close(p)
  BY <1>10, Zenon DEF Close, Exit, Gone, Holding, Reading, Changing, Writing
<1>11. CASE NoWorld(p)
  BY <1>11, Zenon DEF NoWorld, Holding, Reading
<1>12. ASSUME NEW S, ReadMasked(p, S)
       PROVE  /\ pc[p] \in Reading /\ UNCHANGED lock /\ \A q \in Proc \ {p} : pc'[q] = pc[q]
  BY <1>12, Zenon DEF ReadMasked, AfterRead, Reading
<1> QED BY <1>1, <1>2, <1>3, <1>4, <1>5, <1>6, <1>7, <1>8, <1>9, <1>10, <1>11, <1>12, Zenon
   DEF Step, Holding, Changing, Reading

\* flock and --initdb keep LockInv.
LEMMA LockInvariant == ASSUME InitdbAlone PROVE Spec => []LockInv
<1>1. Init => LockInv
  BY ConstantsAssumption DEF Init, LockInv, Idle, Holding, Reading, Changing, Writing
<1>2. TypeOK /\ LockInv /\ [Next]_vars => LockInv'
  <2> SUFFICES ASSUME TypeOK, LockInv, [Next]_vars PROVE LockInv'
    BY Zenon
  <2>1. ASSUME NEW p \in Proc, Start(p) PROVE LockInv'
    <3>1. /\ pc[p] = "start" /\ pc' = [pc EXCEPT ![p] = "lock"] /\ lock' = lock
          /\ \A q \in Proc \ {p} : p \in Creator \/ q \in Creator => pc[q] \in Idle
      BY <2>1, InitdbAlone, Zenon DEF Start, Goto, Idle
    <3>2. "lock" \notin Holding
      BY Zenon DEF Holding, Reading, Changing, Writing
    <3> QED BY <3>1, <3>2, ConstantsAssumption, Zenon DEF LockInv, TypeOK, ControlType
  <2>2. ASSUME NEW p \in Proc, Step(p) \/ AlarmEarly(p) \/ Crash(p) PROVE LockInv'
    BY <2>2, StepFrame, ConstantsAssumption DEF LockInv, TypeOK, ControlType, Idle
  <2>3. CASE UNCHANGED vars
    BY <2>3, Zenon DEF vars, LockInv
  <2> QED BY <2>1, <2>2, <2>3, Zenon DEF Next
<1> QED BY <1>1, <1>2, TypeCorrect, PTL DEF Spec

\* At most one write transaction at a time, as long as --initdb is used alone.
THEOREM MutualExclusion == ASSUME InitdbAlone PROVE Spec => []OneWriter
  BY LockInvariant, LockInvExcludes, InitdbAlone, PTL

------------------------------------------------------------------------------
(* The database agrees with the root.  Between its reading of the database    *)
(* and its writing of the last file a transaction carries the agreement in    *)
(* memory: first memory agrees with the files, then with the root, and then   *)
(* one file after the other agrees again.                                     *)

Sound == crashes = 0 /\ ~damaged
Changed == {"apply", "fire", "config", "wWorld", "wInstalled", "wScripts", "wTriggers"}
Coherent == fs = installedF /\ scriptsF = installedF /\ triggersF = installedF
Phase(p) ==
  /\ pc[p] \in {"triggers", "scripts", "solve"} => installed[p] = installedF
  /\ pc[p] \in {"scripts", "solve"} => triggers[p] = installedF
  /\ pc[p] = "solve" => scripts[p] = installedF
  /\ pc[p] \in Changed => installed[p] = fs /\ scripts[p] = fs /\ triggers[p] = fs
  /\ pc[p] \in {"wScripts", "wTriggers"} => installedF = fs
  /\ pc[p] = "wTriggers" => scriptsF = fs
RootInv ==
  Sound => /\ (\A p \in Proc : pc[p] \notin Changed) => Coherent
           /\ \A p \in Proc : Phase(p)

\* Outside of a transaction RootInv is the agreement of the files with the root.
LEMMA RootInvAgrees == RootInv => DbMatchesRoot
  BY Zenon DEF RootInv, Sound, DbMatchesRoot, Coherent, Changed, Holding, Reading, Changing, Writing

\* Outside the transaction nothing is claimed of a process.
LEMMA NoPhase == \A p : pc[p] \notin Holding => Phase(p) /\ pc[p] \notin Changed
  BY Zenon DEF Phase, Changed, Holding, Reading, Changing, Writing

\* The one transaction that runs has to establish its own phase only.
LEMMA HolderSuffices ==
  ASSUME OneWriter, RootInv, NEW p \in Proc, pc[p] \in Holding,
         \A q \in Proc \ {p} : pc'[q] = pc[q],
         Sound' => Phase(p)' /\ (pc'[p] \notin Changed => Coherent')
  PROVE  RootInv'
<1>1. \A q \in Proc \ {p} : pc'[q] \notin Holding
  BY Zenon DEF OneWriter
<1>2. \A q \in Proc \ {p} : Phase(q)'
  BY <1>1, Zenon DEF Phase, Changed, Holding, Reading, Changing, Writing
<1> QED BY <1>2, Zenon DEF RootInv

\* Between transactions and while one has changed nothing yet, all agrees.
LEMMA CoherentNow ==
  ASSUME OneWriter, RootInv, Sound, NEW p \in Proc, pc[p] \in Holding, pc[p] \notin Changed
  PROVE  Coherent
  BY NoPhase, Zenon DEF OneWriter, RootInv

\* The read entries all belong to installed packages when the files agree.
LEMMA AttachedAll ==
  ASSUME NEW f \in [Name -> Ver] PROVE Attached(f, f) = f
  BY Zenon DEF Attached

\* Steps of a process that is not in a transaction.
LEMMA OutsideStep ==
  ASSUME RootInv, NEW p \in Proc, pc[p] \notin Holding, UNCHANGED <<Storage, damaged, crashes>>,
         \A q \in Proc \ {p} : /\ pc'[q] = pc[q] /\ installed'[q] = installed[q]
                               /\ scripts'[q] = scripts[q] /\ triggers'[q] = triggers[q],
         pc'[p] \notin Holding \/ pc'[p] = "world"
  PROVE  RootInv'
<1>1. pc'[p] \notin Changed /\ pc[p] \notin Changed /\ Phase(p)'
  BY Zenon DEF Phase, Changed, Holding, Reading, Changing, Writing
<1>2. \A q \in Proc \ {p} : Phase(q) => Phase(q)'
  BY Zenon DEF Phase, Storage, disk
<1> QED BY <1>1, <1>2, Zenon DEF RootInv, Sound, Coherent, Storage, disk

\* Steps of the transaction up to the changeset: the files and the root stay.
LEMMA ReadingStep ==
  ASSUME TypeOK, OneWriter, RootInv, NEW p \in Proc,
         \/ ReadWorld(p) \/ ReadInstalled(p) \/ ReadTriggers(p) \/ ReadScripts(p)
         \/ NoWorld(p) \/ ReadError(p) \/ Abort(p) \/ Solve(p) \/ Preupgrade(p)
  PROVE  RootInv'
<1> USE DEF Goto, Phase, Changed
<1>0. /\ pc \in [Proc -> PC] /\ StorageType /\ installed \in [Proc -> [Name -> Ver]]
      /\ scripts \in [Proc -> [Name -> Ver]] /\ triggers \in [Proc -> [Name -> Ver]]
  BY Zenon DEF TypeOK, ControlType, MemoryType
<1>1. /\ pc[p] \in Holding /\ pc[p] \notin Changed /\ UNCHANGED <<Storage, damaged, crashes>>
      /\ \A q \in Proc \ {p} : pc'[q] = pc[q]
  BY <1>0, Zenon DEF ReadWorld, ReadInstalled, ReadTriggers, ReadScripts, NoWorld, ReadError,
         Abort, Solve, Preupgrade, locals, Holding, Reading, Changing
<1>2. ASSUME Sound' PROVE Sound /\ Coherent /\ Coherent' /\ Phase(p)
  BY <1>0, <1>1, <1>2, CoherentNow, Zenon DEF Sound, Coherent, Storage, disk, RootInv
<1>3. CASE ReadWorld(p) \/ NoWorld(p) \/ ReadError(p) \/ Abort(p)
  BY <1>0, <1>1, <1>2, <1>3, HolderSuffices, Zenon DEF ReadWorld, NoWorld, ReadError,
                                                    Abort
<1>4. CASE ReadInstalled(p)
  <2>1. Phase(p)'
    BY <1>0, <1>1, <1>4, Zenon DEF ReadInstalled, Storage, disk
  <2> QED BY <1>0, <1>1, <1>2, <2>1, HolderSuffices, Zenon
<1>5. CASE ReadTriggers(p)
  <2>1. ASSUME Sound' PROVE Phase(p)'
    <3>1. triggers'[p] = installedF
      BY <1>0, <1>2, <1>5, <2>1, AttachedAll, Zenon DEF ReadTriggers, Coherent, StorageType
    <3> QED BY <1>0, <1>1, <1>2, <1>5, <2>1, <3>1, Zenon DEF ReadTriggers, Storage, disk
  <2> QED BY <1>0, <1>1, <1>2, <2>1, HolderSuffices, Zenon
<1>6. CASE ReadScripts(p)
  <2>1. ASSUME Sound' PROVE Phase(p)'
    <3>1. scripts'[p] = installedF
      BY <1>0, <1>2, <1>6, <2>1, AttachedAll, Zenon DEF ReadScripts, Coherent, StorageType
    <3> QED BY <1>0, <1>1, <1>2, <1>6, <2>1, <3>1, Zenon DEF ReadScripts, Storage, disk
  <2> QED BY <1>0, <1>1, <1>2, <2>1, HolderSuffices
<1>7. CASE Solve(p) \/ Preupgrade(p)
  <2>0. /\ pc[p] = "solve" /\ pc'[p] = "apply"
        /\ UNCHANGED <<fs, installed, scripts, triggers>>
    BY <1>0, <1>7, Zenon DEF Solve, Preupgrade, Storage
  <2>1. ASSUME Sound' PROVE Phase(p)'
    BY <1>2, <2>0, <2>1, Zenon DEF Coherent
  <2> QED BY <1>0, <1>1, <1>2, <2>1, HolderSuffices
<1> QED BY <1>3, <1>4, <1>5, <1>6, <1>7, Zenon

\* Steps that change packages: memory follows the root.
LEMMA ChangingStep ==
  ASSUME TypeOK, OneWriter, RootInv, NEW p \in Proc,
         \/ \E n \in Name : \/ Apply(p, n) \/ ApplyScriptFails(p, n)
                            \/ ApplyFails(p, n) \/ TriggerFails(p, n)
         \/ Applied(p) \/ FireTriggers(p)
  PROVE  RootInv'
<1> USE DEF Goto, Phase, Changed
<1>0. /\ pc \in [Proc -> PC] /\ StorageType /\ installed \in [Proc -> [Name -> Ver]]
      /\ scripts \in [Proc -> [Name -> Ver]] /\ triggers \in [Proc -> [Name -> Ver]]
  BY Zenon DEF TypeOK, ControlType, MemoryType
<1>1. /\ pc[p] \in {"apply", "fire"} /\ UNCHANGED <<disk, damaged, crashes>>
      /\ pc'[p] \in {"apply", "fire", "config"} /\ \A q \in Proc \ {p} : pc'[q] = pc[q]
  BY <1>0, Zenon DEF Apply, ApplyScriptFails, InstallPkg, ApplyFails, TriggerFails, Applied,
         FireTriggers, Storage, locals
<1>2. "apply" \in Holding /\ "fire" \in Holding
  BY <1>0, Zenon DEF Holding, Changing
<1>3. ASSUME Sound' PROVE installed[p] = fs /\ scripts[p] = fs /\ triggers[p] = fs
  BY <1>0, <1>1, <1>3, Zenon DEF Sound, RootInv
<1>4. ASSUME installed[p] = fs, scripts[p] = fs, triggers[p] = fs
      PROVE  installed'[p] = fs' /\ scripts'[p] = fs' /\ triggers'[p] = fs'
  <2>1. ASSUME NEW n \in Name, NEW bad \in BOOLEAN, InstallPkg(p, n, bad)
        PROVE  installed'[p] = fs' /\ scripts'[p] = fs' /\ triggers'[p] = fs'
    BY <1>0, <1>4, <2>1, Zenon DEF InstallPkg, StorageType
  <2>2. ASSUME NEW n \in Name, Apply(p, n) \/ ApplyScriptFails(p, n)
        PROVE  installed'[p] = fs' /\ scripts'[p] = fs' /\ triggers'[p] = fs'
    BY <1>0, <2>1, <2>2, Zenon DEF Apply, ApplyScriptFails
  <2>3. ASSUME NEW n \in Name, ApplyFails(p, n) \/ TriggerFails(p, n)
        PROVE  installed'[p] = fs' /\ scripts'[p] = fs' /\ triggers'[p] = fs'
    BY <1>0, <1>4, <2>3, Zenon DEF ApplyFails, TriggerFails, Storage
  <2>4. CASE Applied(p) \/ FireTriggers(p)
    BY <1>0, <1>4, <2>4, Zenon DEF Applied, FireTriggers, Storage, mem
  <2> QED BY <1>0, <2>2, <2>3, <2>4, Zenon
<1> QED BY <1>0, <1>1, <1>2, <1>3, <1>4, HolderSuffices, Zenon

\* Steps that write the files, and the end of the transaction.
LEMMA WritingStep ==
  ASSUME TypeOK, LockInv, OneWriter, RootInv, NEW p \in Proc,
         \/ WriteConfig(p) \/ WriteWorld(p) \/ WriteInstalled(p) \/ WriteScripts(p)
         \/ WriteTriggers(p) \/ WriteError(p) \/ PostCommitHooks(p) \/ Close(p)
  PROVE  RootInv'
<1> USE DEF Goto, Phase, Changed, Sound
<1>0. /\ pc \in [Proc -> PC] /\ StorageType /\ installed \in [Proc -> [Name -> Ver]]
      /\ scripts \in [Proc -> [Name -> Ver]] /\ triggers \in [Proc -> [Name -> Ver]]
  BY Zenon DEF TypeOK, ControlType, MemoryType
<1>1. pc[p] \in Holding /\ \A q \in Proc \ {p} : pc'[q] = pc[q]
  BY <1>0, Zenon DEF WriteConfig, WriteWorld, WriteInstalled, WriteScripts, WriteTriggers,
         WriteError, AfterWrite, PostCommitHooks, Close, Exit, Holding, Writing
<1>2. CASE WriteConfig(p)
  <2>1. p \in Creator \/ lock = p
    BY <1>0, <1>1, Zenon DEF LockInv
  <2>2. pc'[p] = "wWorld" /\ UNCHANGED <<fs, mem, crashes, damaged>> /\ pc[p] = "config"
    BY <1>0, <1>2, <2>1, Zenon DEF WriteConfig, locals
  <2> QED BY <1>0, <1>1, <2>2, HolderSuffices, Zenon DEF RootInv, mem
<1>3. CASE WriteWorld(p)
  BY <1>0, <1>1, <1>3, HolderSuffices, Zenon DEF WriteWorld, RootInv, mem, locals
<1>4. CASE WriteInstalled(p)
  BY <1>0, <1>1, <1>4, HolderSuffices, Zenon DEF WriteInstalled, RootInv, mem, locals
<1>5. CASE WriteScripts(p)
  BY <1>0, <1>1, <1>5, HolderSuffices, Zenon DEF WriteScripts, RootInv, mem, locals
<1>6. CASE WriteTriggers(p)
  <2>1. pc[p] = "wTriggers" /\ pc'[p] = "hooks" /\ triggersF' = triggers[p]
    BY <1>0, <1>6, Zenon DEF WriteTriggers
  <2>2. UNCHANGED <<installedF, scriptsF, fs, crashes, damaged>>
    BY <1>6, Zenon DEF WriteTriggers, locals
  <2>3. ASSUME Sound' PROVE Coherent'
    BY <2>1, <2>2, <2>3, Zenon DEF RootInv, Coherent
  <2> QED BY <1>1, <2>1, <2>3, HolderSuffices, Zenon
<1>7. CASE WriteError(p)
  BY <1>0, <1>7, Zenon DEF WriteError, RootInv
<1>8. CASE PostCommitHooks(p) \/ Close(p)
  <2>1. /\ pc[p] \notin Changed /\ UNCHANGED <<Storage, damaged, crashes>>
        /\ pc'[p] \in {"close", "done", "lock"}
    BY <1>0, <1>8, Zenon DEF PostCommitHooks, Close, Exit, Gone, locals
  <2>2. ASSUME Sound' PROVE Coherent'
    <3>1. Coherent
      BY <1>1, <2>1, <2>2, CoherentNow, Zenon
    <3> QED BY <2>1, <3>1, Zenon DEF Coherent, Storage, disk
  <2>3. Phase(p)'
    BY <2>1, Zenon
  <2> QED BY <1>1, <2>2, <2>3, HolderSuffices, Zenon
<1> QED BY <1>2, <1>3, <1>4, <1>5, <1>6, <1>7, <1>8, Zenon

\* In every reachable state between transactions, if no process was killed, no
\* database file failed to be written and --initdb passed over no unreadable one,
\* apk's database lists exactly the packages in the root, with their scripts and
\* triggers; --initdb is used alone.
THEOREM DatabaseAgrees == ASSUME InitdbAlone PROVE Spec => []DbMatchesRoot
<1>1. Init => RootInv
  <2> SUFFICES ASSUME Init PROVE RootInv
    BY Zenon
  <2>1. Coherent
    BY Zenon DEF Init, Coherent
  <2>2. \A p \in Proc : pc[p] \notin Holding
    BY Zenon DEF Init, Holding, Reading, Changing, Writing
  <2> QED BY <2>1, <2>2, NoPhase, Zenon DEF RootInv
<1>2. TypeOK /\ LockInv /\ RootInv /\ [Next]_vars => RootInv'
  <2> SUFFICES ASSUME TypeOK, LockInv, RootInv, [Next]_vars PROVE RootInv'
    BY Zenon
  <2>1. OneWriter
    BY LockInvExcludes, Zenon
  <2>2. ASSUME NEW p \in Proc,
               \/ Start(p) \/ AlarmEarly(p) \/ OpenUnlocked(p) \/ Acquire(p)
               \/ SetAlarm(p) \/ Flock(p) \/ Refused(p) \/ Alarm(p)
        PROVE  RootInv'
    <3>1. pc[p] \notin Holding /\ (pc'[p] \notin Holding \/ pc'[p] = "world")
      BY <2>2, Zenon DEF Start, AlarmEarly, OpenUnlocked, Acquire, SetAlarm, Flock, Refused, Alarm,
                  Exit, Goto, Holding, Reading, Changing, Writing, TypeOK, ControlType
    <3>2. UNCHANGED <<Storage, damaged, crashes>>
      BY <2>2, Zenon DEF Start, AlarmEarly, OpenUnlocked, Acquire, SetAlarm, Flock, Refused, Alarm,
                  Exit, Gone, locals
    <3>3. \A q \in Proc \ {p} : /\ pc'[q] = pc[q] /\ installed'[q] = installed[q]
                                /\ scripts'[q] = scripts[q] /\ triggers'[q] = triggers[q]
      BY <2>2, Zenon DEF Start, AlarmEarly, OpenUnlocked, Acquire, SetAlarm, Flock, Refused, Alarm,
                  Exit, Gone, Goto, mem, TypeOK, ControlType, MemoryType
    <3> QED BY <3>1, <3>2, <3>3, OutsideStep, Zenon
  <2>3. ASSUME NEW p \in Proc, Crash(p) PROVE RootInv'
    <3>1. crashes \in Nat /\ crashes' = crashes + 1
      BY <2>3, ConstantsAssumption DEF Crash, TypeOK
    <3>2. ~Sound'
      BY <3>1 DEF Sound
    <3> QED BY <3>2, Zenon DEF RootInv
  <2>4. ASSUME NEW p \in Proc, NEW S, ReadMasked(p, S) PROVE RootInv'
    BY <2>4, Zenon DEF ReadMasked, RootInv, Sound
  <2>5. CASE UNCHANGED vars
    BY <2>5, Zenon DEF vars, Storage, disk, mem, locals, RootInv, Sound, Coherent, Phase
  <2> QED BY <2>1, <2>2, <2>3, <2>4, <2>5, ReadingStep, ChangingStep, WritingStep, Zenon DEF Next, Step
<1> QED BY <1>1, <1>2, TypeCorrect, LockInvariant, InitdbAlone, RootInvAgrees, PTL DEF Spec

------------------------------------------------------------------------------
(* What a transaction reports as done is done, and what an earlier one        *)
(* reported as broken stays reported.                                         *)

\* From the changeset to the end of the transaction.
Decided == {"apply", "fire", "hooks", "close"} \cup Writing

\* The changeset has no more to do for n.
Settled(p, n) ==
  /\ (installed[p][n] = 0) = (Target(world[p], n) = 0)
  /\ req[p].op = "upgrade" /\ (p \notin pre \/ n = Self) => installed[p][n] = Target(world[p], n)

\* How far the transaction of p has come, unless it counted an error.
Progress(p) ==
  /\ pc[p] \in Decided =>
       /\ req[p].op = "add" => req[p].name \in world[p]
       /\ req[p].op = "del" => req[p].name \notin world[p]
  /\ pc[p] = "apply" => \A n \in Name \ todo[p] : Settled(p, n)
  /\ pc[p] \in Decided \ {"apply"} => \A n \in Name : Settled(p, n)
  /\ pc[p] \in {"wInstalled", "wScripts", "wTriggers", "hooks", "close"} =>
       hasWorld /\ worldF = world[p]
  /\ pc[p] \in {"wScripts", "wTriggers", "hooks", "close"} =>
       installedF = installed[p] /\ brokenF = broken[p]
  /\ pc[p] \in {"wTriggers", "hooks", "close"} => scriptsF = scripts[p]
  /\ pc[p] \in {"hooks", "close"} => triggersF = triggers[p]

\* The transaction of p knows the marks that are on disk, and drops one only for another version.
Remembers(p) ==
  /\ pc[p] \in {"triggers", "scripts", "solve"} => installed[p] = installedF /\ broken[p] = brokenF
  /\ pc[p] = "apply" => \A n \in todo[p] : /\ installed[p][n] = installedF[n]
                                           /\ installed[p][n] # Target(world[p], n)
  /\ pc[p] \in {"apply", "fire", "config", "wWorld", "wInstalled"} =>
       \A n \in brokenF : installed[p][n] = installedF[n] => n \in broken[p]

CommitInv == \A p \in Proc : p \notin err => Progress(p)
MarkInv == \A p \in Proc : ~(p \in masked /\ damaged) => Remembers(p)

--------------------------------------------------------------------------------
(* What a step of p leaves to another process.                                *)

\* The memory of q and what is remembered about it stay.
Untouched(q) ==
  /\ pc'[q] = pc[q] /\ req'[q] = req[q] /\ todo'[q] = todo[q] /\ world'[q] = world[q]
  /\ installed'[q] = installed[q] /\ broken'[q] = broken[q]
  /\ scripts'[q] = scripts[q] /\ triggers'[q] = triggers[q]
  /\ (q \in err') = (q \in err) /\ (q \in pre') = (q \in pre)
  /\ (q \in masked') = (q \in masked)
Files == <<hasWorld, disk>>
Leaves(p, q) == Untouched(q) /\ (damaged => damaged') /\ (pc[p] \in Holding \/ UNCHANGED Files)

\* A step of p leaves the memory of the others alone, and the files too unless p holds the lock.
LEMMA StepLeaves ==
  ASSUME TypeOK, NEW p \in Proc, Start(p) \/ Step(p) \/ AlarmEarly(p) \/ Crash(p)
  PROVE  \A q \in Proc \ {p} : Leaves(p, q)
<1>0. /\ pc \in [Proc -> PC] /\ MemoryType /\ req \in [Proc -> Request]
  BY Zenon DEF TypeOK, ControlType, LocalsType
<1> SUFFICES ASSUME NEW q \in Proc \ {p} PROVE Leaves(p, q)
  BY Zenon DEF Leaves
<1> USE <1>0 DEF MemoryType, Goto, Errs, Leaves, Untouched, Files
<1>1. CASE Start(p)
  BY <1>1, Zenon DEF Start, Storage, mem
<1>2. CASE AlarmEarly(p)
  BY <1>2, Zenon DEF AlarmEarly, Storage, mem
<1>3. CASE OpenUnlocked(p)
  BY <1>3, Zenon DEF OpenUnlocked, Storage, mem, locals
<1>4. CASE Acquire(p)
  BY <1>4, Zenon DEF Acquire, Storage, mem, locals
<1>5. CASE SetAlarm(p)
  BY <1>5, Zenon DEF SetAlarm, Storage, mem, locals
<1>6. CASE Flock(p)
  BY <1>6, Zenon DEF Flock, Storage, mem, locals
<1>7. CASE Crash(p)
  BY <1>7 DEF Crash, Exit, Gone, Storage
<1>8. CASE Refused(p)
  BY <1>8 DEF Refused, Exit, Gone, Storage
<1>9. CASE Alarm(p)
  BY <1>9 DEF Alarm, Exit, Gone, Storage
<1>10. CASE Close(p)
  BY <1>10 DEF Close, Exit, Gone, Storage
<1>11. CASE ReadWorld(p)
  BY <1>11, Zenon DEF ReadWorld, Storage, locals
<1>12. CASE NoWorld(p)
  BY <1>12 DEF NoWorld, Storage, mem
<1>13. CASE ReadInstalled(p)
  BY <1>13, Zenon DEF ReadInstalled, Storage, locals
<1>14. CASE ReadTriggers(p)
  BY <1>14, Zenon DEF ReadTriggers, Storage, locals
<1>15. CASE ReadScripts(p)
  BY <1>15, Zenon DEF ReadScripts, Storage, locals
<1>16. CASE ReadError(p)
  BY <1>16 DEF ReadError, Storage, mem, locals
<1>17. CASE Solve(p)
  BY <1>17, Zenon DEF Solve, Storage, locals
<1>18. CASE Preupgrade(p)
  BY <1>18 DEF Preupgrade, Storage
<1>19. CASE Abort(p)
  BY <1>19 DEF Abort, Storage, mem, locals
<1>20. CASE Applied(p)
  BY <1>20 DEF Applied, Storage, mem, locals
<1>21. CASE FireTriggers(p)
  BY <1>21, Zenon DEF FireTriggers, Storage, mem, locals
<1>22. CASE WriteConfig(p)
  BY <1>22 DEF WriteConfig, mem, locals
<1>23. CASE WriteWorld(p)
  BY <1>23, Zenon DEF WriteWorld, Holding, Writing, mem, locals
<1>24. CASE WriteInstalled(p)
  BY <1>24, Zenon DEF WriteInstalled, Holding, Writing, mem, locals
<1>25. CASE WriteScripts(p)
  BY <1>25, Zenon DEF WriteScripts, Holding, Writing, mem, locals
<1>26. CASE WriteTriggers(p)
  BY <1>26, Zenon DEF WriteTriggers, Holding, Writing, mem, locals
<1>27. CASE WriteError(p)
  BY <1>27 DEF WriteError, Storage, mem
<1>28. CASE PostCommitHooks(p)
  BY <1>28, Zenon DEF PostCommitHooks, Storage, mem, locals
<1>29. ASSUME NEW S \in SUBSET Name, ReadMasked(p, S) PROVE Leaves(p, q)
  BY <1>29, Zenon DEF ReadMasked, Storage
<1>30. ASSUME NEW n \in Name, Apply(p, n) PROVE Leaves(p, q)
  BY <1>30, Zenon DEF Apply, InstallPkg, locals
<1>31. ASSUME NEW n \in Name, ApplyScriptFails(p, n) PROVE Leaves(p, q)
  BY <1>31 DEF ApplyScriptFails, InstallPkg, locals
<1>32. ASSUME NEW n \in Name, ApplyFails(p, n) PROVE Leaves(p, q)
  BY <1>32 DEF ApplyFails, Storage, locals
<1>33. ASSUME NEW n \in Name, TriggerFails(p, n) PROVE Leaves(p, q)
  BY <1>33 DEF TriggerFails, Storage, locals
<1> QED BY <1>1, <1>2, <1>3, <1>4, <1>5, <1>6, <1>7, <1>8, <1>9, <1>10, <1>11, <1>12, <1>13,
           <1>14, <1>15, <1>16, <1>17, <1>18, <1>19, <1>20, <1>21, <1>22, <1>23, <1>24, <1>25,
           <1>26, <1>27, <1>28, <1>29, <1>30, <1>31, <1>32, <1>33, Zenon DEF Step

\* So only the process that steps has anything to show.
LEMMA OthersKeep ==
  ASSUME TypeOK, OneWriter, NEW p \in Proc, NEW q \in Proc \ {p},
         Start(p) \/ Step(p) \/ AlarmEarly(p) \/ Crash(p)
  PROVE  /\ (q \notin err => Progress(q)) => (q \notin err' => Progress(q)')
         /\ (~(q \in masked /\ damaged) => Remembers(q))
              => (~(q \in masked' /\ damaged') => Remembers(q)')
<1>1. Untouched(q) /\ (damaged => damaged') /\ (pc[p] \in Holding \/ UNCHANGED Files)
  BY StepLeaves, Zenon DEF Leaves
<1>2. CASE pc[q] \notin Holding
  BY <1>1, <1>2, Zenon DEF Untouched, Progress, Remembers, Decided, Holding, Reading, Changing, Writing
<1>3. CASE pc[q] \in Holding
  <2>1. UNCHANGED <<hasWorld, worldF, installedF, brokenF, scriptsF, triggersF>>
    BY <1>1, <1>3, Zenon DEF OneWriter, Files, disk
  <2> USE <1>1, <2>1 DEF Untouched
  <2>2. Progress(q)' = Progress(q)
    <3>1. \A n : Settled(q, n)' = Settled(q, n)
      BY Zenon DEF Settled, Target
    <3> QED BY <3>1, Zenon DEF Progress
  <2>3. Remembers(q)' = Remembers(q)
    BY Zenon DEF Remembers, Target
  <2> QED BY <2>2, <2>3, Zenon
<1> QED BY <1>2, <1>3, Zenon

--------------------------------------------------------------------------------
(* What p itself has to show after its step.                                  *)

\* The versions a solution gives: none outside it, and never version 0 in it.
LEMMA TargetZero == \A w, n : n \in Name => (Target(w, n) = 0) = (n \notin Solution(w))
  BY ConstantsAssumption DEF Target

\* A name the changeset leaves alone is settled.
LEMMA UnchangedSettled ==
  ASSUME NEW p, NEW w, NEW N, NEW n \in Name \ Changes(p, w, N)
  PROVE  /\ (installed[p][n] = 0) = (Target(w, n) = 0)
         /\ n \in N => installed[p][n] = Target(w, n)
  BY Zenon DEF Changes

\* A name the changeset changes gets another version.
LEMMA ChangedDiffers ==
  ASSUME NEW p, NEW w, NEW N, NEW n \in Changes(p, w, N)
  PROVE  installed[p][n] # Target(w, n)
  BY Zenon DEF Changes

\* Each step of apk_solver_commit_changeset and apk_db_write_config brings p as far as Progress says.
LEMMA OwnProgress ==
  ASSUME TypeOK, NEW p \in Proc, p \notin err => Progress(p), p \notin err',
         Start(p) \/ Step(p) \/ AlarmEarly(p) \/ Crash(p)
  PROVE  Progress(p)'
<1>0. /\ pc \in [Proc -> PC] /\ MemoryType /\ req \in [Proc -> Request] /\ pre \subseteq Proc
  BY Zenon DEF TypeOK, ControlType, LocalsType
<1> USE <1>0 DEF MemoryType, Goto, Errs
<1>1. CASE Start(p) \/ AlarmEarly(p) \/ OpenUnlocked(p) \/ Acquire(p) \/ SetAlarm(p) \/ Flock(p)
  <2>1. pc'[p] \in {"lock", "armed", "flock", "world"}
    BY <1>1, Zenon DEF Start, AlarmEarly, OpenUnlocked, Acquire, SetAlarm, Flock
  <2> QED BY <2>1, Zenon DEF Progress, Decided, Writing
<1>2. CASE Crash(p) \/ Refused(p) \/ Alarm(p) \/ Close(p)
  <2>1. pc'[p] \in {"lock", "done"}
    BY <1>2, Zenon DEF Crash, Refused, Alarm, Close, Exit
  <2> QED BY <2>1, Zenon DEF Progress, Decided, Writing
<1>3. CASE ReadWorld(p) \/ NoWorld(p) \/ ReadInstalled(p) \/ ReadTriggers(p) \/ ReadScripts(p)
           \/ ReadError(p) \/ Abort(p)
  <2>1. pc'[p] \in {"installed", "triggers", "scripts", "solve"}
    BY <1>3, Zenon DEF ReadWorld, NoWorld, ReadInstalled, ReadTriggers, ReadScripts, ReadError, Abort
  <2> QED BY <2>1, Zenon DEF Progress, Decided, Writing
<1>4. ASSUME NEW S \in SUBSET Name, ReadMasked(p, S) PROVE Progress(p)'
  <2>1. pc[p] \in DOMAIN AfterRead /\ pc' = [pc EXCEPT ![p] = AfterRead[pc[p]]]
    BY <1>4, Zenon DEF ReadMasked
  <2>2. pc'[p] \in {"triggers", "scripts", "solve"}
    BY <1>0, <2>1 DEF AfterRead
  <2> QED BY <2>2, Zenon DEF Progress, Decided, Writing
<1>5. CASE Solve(p)
  <2> DEFINE w == NewWorld(world[p], req[p])
             N == IF req[p].op = "upgrade" THEN Name ELSE {}
  <2>1. /\ pc'[p] = "apply" /\ world'[p] = w /\ todo'[p] = Changes(p, w, N)
        /\ UNCHANGED <<installed, req, pre>>
    BY <1>5, Zenon DEF Solve, locals
  <2>2. (req[p].op = "add" => req[p].name \in w) /\ (req[p].op = "del" => req[p].name \notin w)
    BY Zenon DEF NewWorld
  <2> HIDE DEF w
  <2>3. \A n \in Name \ todo'[p] : Settled(p, n)'
    <3> SUFFICES ASSUME NEW n \in Name \ todo'[p] PROVE Settled(p, n)'
      BY Zenon
    <3>1. n \in Name \ Changes(p, w, N)
      BY <2>1, Zenon
    <3> HIDE DEF N
    <3>2. /\ (installed[p][n] = 0) = (Target(w, n) = 0)
          /\ n \in N => installed[p][n] = Target(w, n)
      BY <3>1, UnchangedSettled
    <3>3. Target(world[p], n)' = Target(w, n) /\ installed'[p][n] = installed[p][n]
      BY <2>1, Zenon DEF Target
    <3>4. req'[p].op = "upgrade" => n \in N
      BY <2>1, Zenon DEF N
    <3> QED BY <3>2, <3>3, <3>4, Zenon DEF Settled
  <2> QED BY <2>1, <2>2, <2>3, Zenon DEF Progress, Decided
<1>6. CASE Preupgrade(p)
  <2>1. /\ pc'[p] = "apply" /\ todo'[p] = Changes(p, world[p], {Self}) /\ req[p].op = "upgrade"
        /\ UNCHANGED <<installed, req, world>> /\ p \in pre'
    BY <1>6, Zenon DEF Preupgrade
  <2>2. \A n \in Name \ todo'[p] : Settled(p, n)'
    <3> SUFFICES ASSUME NEW n \in Name \ todo'[p] PROVE Settled(p, n)'
      OBVIOUS
    <3>1. n \in Name \ Changes(p, world[p], {Self})
      BY <2>1, Zenon
    <3>2. /\ (installed[p][n] = 0) = (Target(world[p], n) = 0)
          /\ n \in {Self} => installed[p][n] = Target(world[p], n)
      BY <3>1, UnchangedSettled
    <3>3. Target(world[p], n)' = Target(world[p], n) /\ installed'[p][n] = installed[p][n]
      BY <2>1, Zenon DEF Target
    <3> QED BY <2>1, <3>2, <3>3, Zenon DEF Settled
  <2> QED BY <2>1, <2>2, Zenon DEF Progress
<1>7. ASSUME NEW n \in Name, Apply(p, n) PROVE Progress(p)'
  <2>1. /\ pc[p] = "apply" /\ p \notin err /\ UNCHANGED <<pc, world, req, pre>>
        /\ todo'[p] = todo[p] \ {n}
        /\ installed'[p][n] = Target(world[p], n)
        /\ \A m \in Name \ {n} : installed'[p][m] = installed[p][m]
    BY <1>7, Zenon DEF Apply, InstallPkg, locals
  <2>2. \A m \in Name \ todo'[p] : Settled(p, m)'
    BY <2>1 DEF Progress, Settled, Target
  <2> QED BY <2>1, <2>2, Zenon DEF Progress
<1>8. ASSUME NEW n \in Name, ApplyScriptFails(p, n) \/ ApplyFails(p, n) \/ TriggerFails(p, n)
      PROVE  FALSE
  BY <1>8, Zenon DEF ApplyScriptFails, ApplyFails, TriggerFails
<1>9. CASE Applied(p) \/ FireTriggers(p)
  <2>1. /\ pc'[p] \in {"fire", "config"} /\ pc[p] \in {"apply", "fire"} /\ p \notin err
        /\ pc[p] = "apply" => todo[p] = {}
        /\ UNCHANGED <<world, installed, req, pre>>
    BY <1>9, Zenon DEF Applied, FireTriggers, mem, locals
  <2>2. \A n \in Name : Settled(p, n)'
    BY <2>1, Zenon DEF Progress, Settled, Target, Decided
  <2> QED BY <2>1, <2>2, Zenon DEF Progress, Decided, Writing
<1>10. CASE WriteConfig(p)
  <2>1. /\ pc'[p] = "wWorld" /\ pc[p] = "config" /\ p \notin err
        /\ UNCHANGED <<world, installed, req, pre>>
    BY <1>10, Zenon DEF WriteConfig, mem, locals
  <2>2. \A n \in Name : Settled(p, n)'
    BY <2>1, Zenon DEF Progress, Settled, Target, Decided, Writing
  <2> QED BY <2>1, <2>2, Zenon DEF Progress, Decided, Writing
<1>11. CASE WriteWorld(p) \/ WriteInstalled(p) \/ WriteScripts(p) \/ WriteTriggers(p)
            \/ PostCommitHooks(p)
  <2>1. p \notin err /\ UNCHANGED <<world, installed, broken, scripts, triggers, req, pre>>
    BY <1>11, Zenon DEF WriteWorld, WriteInstalled, WriteScripts, WriteTriggers, PostCommitHooks,
                 mem, locals
  <2>2. pc[p] \in Decided \ {"apply"} /\ pc'[p] \in Decided \ {"apply"}
    BY <1>11, Zenon DEF WriteWorld, WriteInstalled, WriteScripts, WriteTriggers, PostCommitHooks,
                 Decided, Writing
  <2>3. \A n \in Name : Settled(p, n)'
    BY <2>1, <2>2, Zenon DEF Progress, Settled, Target
  <2>4. CASE WriteWorld(p)
    BY <2>1, <2>2, <2>3, <2>4, Zenon DEF WriteWorld, Progress
  <2>5. CASE WriteInstalled(p)
    BY <2>1, <2>2, <2>3, <2>5, Zenon DEF WriteInstalled, Progress
  <2>6. CASE WriteScripts(p)
    BY <2>1, <2>2, <2>3, <2>6, Zenon DEF WriteScripts, Progress
  <2>7. CASE WriteTriggers(p)
    BY <2>1, <2>2, <2>3, <2>7, Zenon DEF WriteTriggers, Progress
  <2>8. CASE PostCommitHooks(p)
    BY <2>1, <2>2, <2>3, <2>8, Zenon DEF PostCommitHooks, Progress, Storage, disk
  <2> QED BY <1>11, <2>4, <2>5, <2>6, <2>7, <2>8, Zenon
<1>12. CASE WriteError(p)
  BY <1>12, Zenon DEF WriteError
<1> QED BY <1>1, <1>2, <1>3, <1>4, <1>5, <1>6, <1>7, <1>8, <1>9, <1>10, <1>11, <1>12, Zenon DEF Step

\* After the world, the writing of no later file leads back to that of the installed file.
LEMMA LaterWrites ==
  \A w \in Writing : w = "wWorld" \/ AfterWrite[w] \in {"hooks", "wScripts", "wTriggers"}
BY DEF Writing, AfterWrite

\* Each step of p keeps the marks it read, or drops one with the version it was for.
LEMMA OwnMarks ==
  ASSUME TypeOK, NEW p \in Proc, ~(p \in masked /\ damaged) => Remembers(p),
         ~(p \in masked' /\ damaged'), Start(p) \/ Step(p) \/ AlarmEarly(p) \/ Crash(p)
  PROVE  Remembers(p)'
<1>0. /\ pc \in [Proc -> PC] /\ MemoryType /\ StorageType
  BY Zenon DEF TypeOK, ControlType
<1> USE <1>0 DEF MemoryType, StorageType, Goto
<1>1. CASE Start(p) \/ AlarmEarly(p) \/ OpenUnlocked(p) \/ Acquire(p) \/ SetAlarm(p) \/ Flock(p)
           \/ ReadWorld(p) \/ NoWorld(p) \/ ReadError(p) \/ Abort(p)
  <2>1. pc'[p] \in {"lock", "armed", "flock", "world", "installed", "close"}
    BY <1>1, Zenon DEF Start, AlarmEarly, OpenUnlocked, Acquire, SetAlarm, Flock, ReadWorld, NoWorld,
                ReadError, Abort
  <2> QED BY <2>1, Zenon DEF Remembers
<1>2. CASE Crash(p) \/ Refused(p) \/ Alarm(p) \/ Close(p)
  <2>1. pc'[p] \in {"lock", "done"}
    BY <1>2, Zenon DEF Crash, Refused, Alarm, Close, Exit
  <2> QED BY <2>1, Zenon DEF Remembers
<1>3. CASE ReadInstalled(p) \/ ReadTriggers(p) \/ ReadScripts(p)
  <2>1. UNCHANGED <<masked, damaged, installedF, brokenF>>
    BY <1>3, Zenon DEF ReadInstalled, ReadTriggers, ReadScripts, Storage, disk, locals
  <2>2. /\ pc'[p] \in {"triggers", "scripts", "solve"}
        /\ installed'[p] = installedF /\ broken'[p] = brokenF
    <3>1. CASE ReadInstalled(p)
      BY <3>1, Zenon DEF ReadInstalled
    <3>2. CASE ReadTriggers(p) \/ ReadScripts(p)
      BY <2>1, <3>2, Zenon DEF ReadTriggers, ReadScripts, Remembers
    <3> QED BY <1>3, <3>1, <3>2, Zenon
  <2> QED BY <2>1, <2>2, Zenon DEF Remembers
<1>4. ASSUME NEW S \in SUBSET Name, ReadMasked(p, S) PROVE FALSE
  BY <1>4, Zenon DEF ReadMasked
<1>5. CASE Solve(p) \/ Preupgrade(p)
  <2>1. /\ pc[p] = "solve" /\ pc'[p] = "apply"
        /\ UNCHANGED <<masked, damaged, installedF, brokenF, installed, broken>>
        /\ \E N : todo'[p] = Changes(p, world'[p], N)
    <3>1. CASE Solve(p)
      BY <3>1, Zenon DEF Solve, Storage, disk, locals
    <3>2. CASE Preupgrade(p)
      BY <3>2, Zenon DEF Preupgrade, Storage, disk
    <3> QED BY <1>5, <3>1, <3>2, Zenon
  <2>2. \A n \in todo'[p] : installed'[p][n] # Target(world'[p], n)
    BY <2>1, ChangedDiffers
  <2>3. installed[p] = installedF /\ broken[p] = brokenF
    BY <2>1, Zenon DEF Remembers
  <2> QED BY <2>1, <2>2, <2>3, Zenon DEF Remembers, Target
<1>6. ASSUME NEW n \in Name, NEW bad \in BOOLEAN, pc[p] = "apply", n \in todo[p], InstallPkg(p, n, bad)
      PROVE  Remembers(p)'
  <2>1. /\ UNCHANGED <<pc, world, masked, damaged, installedF, brokenF>>
        /\ todo'[p] = todo[p] \ {n} /\ installed'[p][n] = Target(world[p], n)
        /\ \A m \in Name \ {n} : /\ installed'[p][m] = installed[p][m]
                                 /\ m \in broken[p] => m \in broken'[p]
    BY <1>6, Zenon DEF InstallPkg, disk, locals
  <2>2. installedF[n] # installed'[p][n]
    BY <1>6, <2>1, Zenon DEF Remembers
  <2> QED BY <1>6, <2>1, <2>2 DEF Remembers, Target
<1>7. ASSUME NEW n \in Name, Apply(p, n) \/ ApplyScriptFails(p, n) PROVE Remembers(p)'
  BY <1>6, <1>7, Zenon DEF Apply, ApplyScriptFails
<1>8. ASSUME NEW n \in Name, ApplyFails(p, n) \/ TriggerFails(p, n) PROVE Remembers(p)'
  <2>1. /\ pc[p] \in {"apply", "fire"} /\ UNCHANGED <<pc, world, installed, masked, damaged>>
        /\ UNCHANGED <<installedF, brokenF>>
        /\ todo'[p] \subseteq todo[p] /\ broken[p] \subseteq broken'[p]
    <3>1. CASE ApplyFails(p, n)
      BY <3>1 DEF ApplyFails, Storage, disk, locals
    <3>2. CASE TriggerFails(p, n)
      BY <3>2 DEF TriggerFails, Storage, disk, locals
    <3> QED BY <1>8, <3>1, <3>2, Zenon
  <2> QED BY <2>1, Zenon DEF Remembers, Target
<1>9. CASE Applied(p) \/ FireTriggers(p) \/ WriteConfig(p) \/ WriteWorld(p)
  <2>1. /\ pc[p] \in {"apply", "fire", "config", "wWorld"}
        /\ pc'[p] \in {"fire", "config", "wWorld", "hooks", "wInstalled"}
        /\ UNCHANGED <<masked, damaged, installedF, brokenF, installed, broken>>
    BY <1>9, Zenon DEF Applied, FireTriggers, WriteConfig, WriteWorld, Storage, disk, mem, locals
  <2> QED BY <2>1, Zenon DEF Remembers
<1>10. CASE WriteInstalled(p) \/ WriteScripts(p) \/ WriteTriggers(p) \/ PostCommitHooks(p)
  <2>1. pc'[p] \in {"wScripts", "wTriggers", "hooks", "close"}
    BY <1>10, Zenon DEF WriteInstalled, WriteScripts, WriteTriggers, PostCommitHooks
  <2> QED BY <2>1, Zenon DEF Remembers
<1>11. CASE WriteError(p)
  <2>1. /\ pc[p] \in Writing /\ pc'[p] = AfterWrite[pc[p]]
        /\ UNCHANGED <<masked, installedF, brokenF, installed, broken>> /\ damaged'
    BY <1>11, Zenon DEF WriteError, AfterWrite, Writing, Storage, disk, mem
  <2>2. pc[p] = "wWorld" \/ pc'[p] \in {"hooks", "wScripts", "wTriggers"}
    BY <2>1, LaterWrites, Zenon
  <2>3. CASE pc[p] = "wWorld"
    <3>1. pc'[p] = "wInstalled"
      BY <2>1, <2>3 DEF AfterWrite
    <3>2. \A n \in brokenF : installed[p][n] = installedF[n] => n \in broken[p]
      BY <2>1, <2>3, Zenon DEF Remembers
    <3> QED BY <2>1, <3>1, <3>2, Zenon DEF Remembers
  <2>4. CASE pc'[p] \in {"hooks", "wScripts", "wTriggers"}
    BY <2>4, Zenon DEF Remembers
  <2> QED BY <2>2, <2>3, <2>4, Zenon
<1> QED BY <1>1, <1>2, <1>3, <1>4, <1>5, <1>7, <1>8, <1>9, <1>10, <1>11, Zenon DEF Step

\* Only the writing of the installed file changes the flags and the versions on disk.
LEMMA InstalledWrittenOnce ==
  ASSUME NEW p \in Proc, Start(p) \/ Step(p) \/ AlarmEarly(p) \/ Crash(p)
  PROVE  WriteInstalled(p) \/ UNCHANGED <<installedF, brokenF>>
<1>1. ASSUME NEW S \in SUBSET Name, ReadMasked(p, S) PROVE UNCHANGED <<installedF, brokenF>>
  BY <1>1, Zenon DEF ReadMasked, Storage, disk
<1>2. ASSUME NEW n \in Name,
             Apply(p, n) \/ ApplyScriptFails(p, n) \/ ApplyFails(p, n) \/ TriggerFails(p, n)
      PROVE  UNCHANGED <<installedF, brokenF>>
  BY <1>2, Zenon DEF Apply, ApplyScriptFails, ApplyFails, TriggerFails, InstallPkg, Storage, disk
<1>3. CASE Start(p) \/ AlarmEarly(p) \/ OpenUnlocked(p)
  BY <1>3, Zenon DEF Start, AlarmEarly, OpenUnlocked, Storage, disk
<1>4. CASE Acquire(p) \/ SetAlarm(p) \/ Flock(p)
  BY <1>4, Zenon DEF Acquire, SetAlarm, Flock, Storage, disk
<1>5. CASE Crash(p) \/ Refused(p) \/ Alarm(p) \/ Close(p)
  BY <1>5, Zenon DEF Crash, Refused, Alarm, Close, Exit, Gone, Storage, disk
<1>6. CASE ReadWorld(p) \/ NoWorld(p) \/ ReadInstalled(p)
  BY <1>6, Zenon DEF ReadWorld, NoWorld, ReadInstalled, Storage, disk
<1>7. CASE ReadTriggers(p) \/ ReadScripts(p) \/ ReadError(p)
  BY <1>7, Zenon DEF ReadTriggers, ReadScripts, ReadError, Storage, disk
<1>8. CASE Solve(p) \/ Preupgrade(p) \/ Abort(p)
  BY <1>8, Zenon DEF Solve, Preupgrade, Abort, Storage, disk
<1>9. CASE Applied(p) \/ FireTriggers(p) \/ PostCommitHooks(p)
  BY <1>9, Zenon DEF Applied, FireTriggers, PostCommitHooks, Storage, disk
<1>10. CASE WriteConfig(p) \/ WriteWorld(p) \/ WriteScripts(p)
  BY <1>10, Zenon DEF WriteConfig, WriteWorld, WriteScripts, disk
<1>11. CASE WriteTriggers(p) \/ WriteError(p)
  BY <1>11, Zenon DEF WriteTriggers, WriteError, Storage, disk
<1> QED BY <1>1, <1>2, <1>3, <1>4, <1>5, <1>6, <1>7, <1>8, <1>9, <1>10, <1>11, Zenon DEF Step

--------------------------------------------------------------------------------
\* Both hold in every state: nobody else writes while p is in a transaction.
LEMMA CommitInvariant == ASSUME InitdbAlone PROVE Spec => [](CommitInv /\ MarkInv)
<1>1. Init => CommitInv /\ MarkInv
  BY DEF Init, CommitInv, MarkInv, Progress, Remembers, Decided, Writing
<1>2. TypeOK /\ OneWriter /\ CommitInv /\ MarkInv /\ [Next]_vars => CommitInv' /\ MarkInv'
  <2> SUFFICES ASSUME TypeOK, OneWriter, CommitInv, MarkInv, [Next]_vars
               PROVE  CommitInv' /\ MarkInv'
    BY Zenon
  <2>1. ASSUME NEW p \in Proc, Start(p) \/ Step(p) \/ AlarmEarly(p) \/ Crash(p)
        PROVE  CommitInv' /\ MarkInv'
    <3>1. ASSUME NEW q \in Proc, q \notin err' PROVE Progress(q)'
      <4>1. CASE q = p
        BY <2>1, <3>1, <4>1, OwnProgress, Zenon DEF CommitInv
      <4>2. CASE q # p
        BY <2>1, <3>1, <4>2, OthersKeep, Zenon DEF CommitInv
      <4> QED BY <4>1, <4>2, Zenon
    <3>2. ASSUME NEW q \in Proc, ~(q \in masked' /\ damaged') PROVE Remembers(q)'
      <4>1. CASE q = p
        BY <2>1, <3>2, <4>1, OwnMarks, Zenon DEF MarkInv
      <4>2. CASE q # p
        BY <2>1, <3>2, <4>2, OthersKeep, Zenon DEF MarkInv
      <4> QED BY <4>1, <4>2
    <3> QED BY <3>1, <3>2, Zenon DEF CommitInv, MarkInv
  <2>2. CASE UNCHANGED vars
    <3>1. /\ UNCHANGED <<hasWorld, worldF, installedF, brokenF, scriptsF, triggersF>>
          /\ UNCHANGED <<pc, world, installed, broken, scripts, triggers, todo, err>>
          /\ UNCHANGED <<req, pre, masked, damaged>>
      BY <2>2, Zenon DEF vars, Storage, disk, mem, locals
    <3>2. \A p \in Proc : Progress(p)' = Progress(p)
      <4>1. \A p, n : Settled(p, n)' = Settled(p, n)
        BY <3>1, Zenon DEF Settled, Target
      <4> QED BY <3>1, <4>1, Zenon DEF Progress
    <3>3. \A p \in Proc : Remembers(p)' = Remembers(p)
      BY <3>1, Zenon DEF Remembers, Target
    <3> QED BY <3>1, <3>2, <3>3, Zenon DEF CommitInv, MarkInv
  <2> QED BY <2>1, <2>2, Zenon DEF Next
<1> QED BY <1>1, <1>2, TypeCorrect, MutualExclusion, InitdbAlone, PTL DEF Spec

\* What apk reports as done is on disk: at apk_db_close without an error the files hold the new
\* database and world, and the packages are the solution of the world that was asked for, for any
\* number of processes, failures and kills, when --initdb is used alone.
THEOREM CommitsAreDurable == ASSUME InitdbAlone PROVE Spec => []CommitDurable
<1>1. TypeOK /\ CommitInv => CommitDurable
  <2> SUFFICES ASSUME TypeOK, CommitInv, NEW p \in Proc, pc[p] = "close", p \notin err
               PROVE  /\ hasWorld /\ worldF = world[p] /\ installedF = installed[p]
                      /\ brokenF = broken[p] /\ scriptsF = scripts[p] /\ triggersF = triggers[p]
                      /\ {n \in Name : installedF[n] # 0} = Solution(worldF)
                      /\ req[p].op = "add" => req[p].name \in worldF
                      /\ req[p].op = "del" => req[p].name \notin worldF
                      /\ req[p].op = "upgrade" =>
                           \A n \in Solution(worldF) :
                             p \notin pre \/ n = Self => installedF[n] = Avail[n]
    BY Zenon DEF CommitDurable
  <2>1. Progress(p) /\ pc[p] \in Decided \ {"apply"}
    BY Zenon DEF CommitInv, Decided
  <2>2. /\ hasWorld /\ worldF = world[p] /\ installedF = installed[p]
        /\ brokenF = broken[p] /\ scriptsF = scripts[p] /\ triggersF = triggers[p]
        /\ req[p].op = "add" => req[p].name \in worldF
        /\ req[p].op = "del" => req[p].name \notin worldF
    BY <2>1, Zenon DEF Progress
  <2>3. \A n \in Name : Settled(p, n)
    BY <2>1, Zenon DEF Progress
  <2>4. Solution(worldF) \subseteq Name
    BY ConstantsAssumption DEF Solution, TypeOK, StorageType
  <2>5. {n \in Name : installedF[n] # 0} = Solution(worldF)
    <3>1. \A n \in Name : (installedF[n] = 0) = (Target(worldF, n) = 0)
      BY <2>2, <2>3, Zenon DEF Settled
    <3>2. \A n \in Name : (installedF[n] = 0) = (n \notin Solution(worldF))
      BY <3>1, TargetZero
    <3> QED BY <2>4, <3>2, Zenon
  <2>6. ASSUME req[p].op = "upgrade", NEW n \in Solution(worldF), p \notin pre \/ n = Self
        PROVE  installedF[n] = Avail[n]
    BY <2>2, <2>3, <2>4, <2>6, Zenon DEF Settled, Target
  <2> QED BY <2>2, <2>5, <2>6, Zenon
<1> QED BY <1>1, CommitInvariant, TypeCorrect, InitdbAlone, PTL

\* A package that is flagged broken stays so until its version changes, whatever transactions run or
\* fail, unless --initdb writes over what it could not read.
THEOREM MarksSurvive == ASSUME InitdbAlone PROVE Spec => BrokenSticky
<1>1. MarkInv /\ TypeOK /\ [Next]_vars
        => [\/ \E p \in Proc : PassesOver(p)
            \/ \A n \in brokenF : installedF'[n] = installedF[n] => n \in brokenF']_vars
  <2> SUFFICES ASSUME MarkInv, TypeOK, NEW p \in Proc, ~PassesOver(p),
                      Start(p) \/ Step(p) \/ AlarmEarly(p) \/ Crash(p),
                      NEW n \in brokenF, installedF'[n] = installedF[n]
               PROVE  n \in brokenF'
    BY Zenon DEF Next
  <2>1. CASE WriteInstalled(p)
    BY <2>1, Zenon DEF WriteInstalled, PassesOver, MarkInv, Remembers
  <2>2. CASE UNCHANGED <<installedF, brokenF>>
    BY <2>2, Zenon
  <2> QED BY <2>1, <2>2, InstalledWrittenOnce, Zenon
<1> QED BY <1>1, CommitInvariant, TypeCorrect, InitdbAlone, PTL DEF Spec, BrokenSticky
================================================================================
