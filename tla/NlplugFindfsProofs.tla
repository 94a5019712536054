------------------------- MODULE NlplugFindfsProofs -------------------------
(***************************************************************************)
(* Theorems about NlplugFindfs: for every machine (devices, what they      *)
(* emit, options, number of processors) the types, the wakeups, the quiet  *)
(* exit and the single start of cryptsetup.                                *)
(***************************************************************************)
EXTENDS NlplugFindfs, FiniteSetTheorems, TLAPS

-----------------------------------------------------------------------------
(* What the functions of the spawn manager guarantee, for any set of tasks *)
(* and any number of processors.                                           *)

(* num_running is the number of children that are not reaped.              *)
Counted(T, m) == m \in Manager(T) /\ m.num_running = Cardinality(Alive(m))

(* Commands wait only while at most k slots are free.                      *)
Slack(m, k) == m.queue # <<>> => m.num_running >= MaxRunning - k

(* The pid table has one entry per processor, so the count never exceeds   *)
(* it, and a count below it leaves a free entry (the hash table running).  *)
LEMMA CountBounds ==
  ASSUME NEW T, NoTask \notin T, NEW m, Counted(T, m)
  PROVE  /\ IsFiniteSet(Alive(m))
         /\ m.num_running \in 0..MaxRunning
         /\ m.num_running < MaxRunning => \E p \in Pid : m.running[p] = NoTask
         /\ m.num_running = 0 => Alive(m) = {}
<1>1. MaxRunning \in Nat /\ MaxRunning > 0
  BY SpawnAssumption
<1>2. IsFiniteSet(Pid) /\ Cardinality(Pid) = MaxRunning
  BY <1>1, FS_Interval DEF Pid
<1>3. Alive(m) \in SUBSET Pid
  BY Zenon DEF Alive
<1>4. IsFiniteSet(Alive(m)) /\ Cardinality(Alive(m)) <= MaxRunning
  BY <1>2, <1>3, FS_Subset, Zenon
<1>5. Cardinality(Alive(m)) \in Nat
  BY <1>4, FS_CardinalityType, Zenon
<1>6. ASSUME m.num_running < MaxRunning
      PROVE  \E p \in Pid : m.running[p] = NoTask
  <2>1. Alive(m) # Pid
    BY <1>1, <1>2, <1>6 DEF Counted
  <2> QED
    BY <2>1, Zenon DEF Alive
<1>7. m.num_running = 0 => Alive(m) = {}
  BY <1>4, FS_EmptySet, Zenon DEF Counted
<1> QED
  BY <1>1, <1>4, <1>5, <1>6, <1>7 DEF Counted

(* spawn_execute with a free slot: the count stays exact and no other      *)
(* child is forgotten.                                                     *)
LEMMA ExecuteCounted ==
  ASSUME NEW T, NoTask \notin T, NEW m, Counted(T, m), NEW t \in T,
         m.num_running < MaxRunning
  PROVE  /\ Counted(T, spawn_execute(m, t))
         /\ spawn_execute(m, t).num_running = m.num_running + 1
         /\ spawn_execute(m, t).queue = m.queue
         /\ Alive(m) \subseteq Alive(spawn_execute(m, t))
<1> DEFINE pid == CHOOSE p \in Pid : m.running[p] = NoTask
           n == spawn_execute(m, t)
<1>1. pid \in Pid /\ m.running[pid] = NoTask
  BY CountBounds, Zenon
<1>2. m \in Manager(T)
  BY Zenon DEF Counted
<1>3. n = [m EXCEPT !.running[pid] = t, !.num_running = @ + 1]
  BY Zenon DEF spawn_execute
<1> HIDE DEF pid, n
<1>4. /\ n \in Manager(T) /\ n.num_running = m.num_running + 1 /\ n.queue = m.queue
      /\ n.running = [m.running EXCEPT ![pid] = t]
  <2>1. n = [num_running |-> m.num_running + 1, queue |-> m.queue,
             running |-> [m.running EXCEPT ![pid] = t]]
    BY <1>2, <1>3, Zenon DEF Manager
  <2>2. [m.running EXCEPT ![pid] = t] \in [Pid -> T \cup {NoTask}]
    BY <1>2, Zenon DEF Manager
  <2> QED
    BY <1>2, <2>1, <2>2 DEF Manager
<1>5. Alive(n) = Alive(m) \cup {pid}
  BY <1>1, <1>2, <1>4, Zenon DEF Alive, Manager
<1>6. pid \notin Alive(m)
  BY <1>1, Zenon DEF Alive
<1>7. Cardinality(Alive(n)) = Cardinality(Alive(m)) + 1
  BY <1>5, <1>6, CountBounds, FS_AddElement, ZenonT(30)
<1> QED
  BY <1>4, <1>5, <1>7, Zenon DEF Counted, n

(* A record update of one field of a manager.                              *)
LEMMA QueueUpdate ==
  ASSUME NEW T, NEW m, Counted(T, m), NEW q \in Seq(T)
  PROVE  LET n == [m EXCEPT !.queue = q] IN
         /\ Counted(T, n) /\ n.queue = q
         /\ n.num_running = m.num_running /\ n.running = m.running
         /\ Alive(n) = Alive(m)
<1> DEFINE n == [m EXCEPT !.queue = q]
<1>1. m \in Manager(T)
  BY Zenon DEF Counted
<1>2. /\ n \in Manager(T) /\ n.queue = q
      /\ n.num_running = m.num_running /\ n.running = m.running
  BY <1>1, Zenon DEF Manager
<1>3. Alive(n) = Alive(m)
  BY <1>2, Zenon DEF Alive
<1> QED
  BY <1>2, <1>3, Zenon DEF Counted

(* spawn_command never leaves a slot idle that it could have used, and     *)
(* loses no child.                                                         *)
LEMMA CommandCounted ==
  ASSUME NEW T, NoTask \notin T, NEW m, Counted(T, m), NEW t \in T,
         NEW k \in Nat, Slack(m, k)
  PROVE  /\ Counted(T, spawn_command(m, t))
         /\ Slack(spawn_command(m, t), k)
         /\ Alive(m) \subseteq Alive(spawn_command(m, t))
<1>1. m.num_running \in 0..MaxRunning /\ MaxRunning \in Nat /\ m.queue \in Seq(T)
  BY CountBounds, SpawnAssumption, Zenon DEF Counted, Manager
<1>2. CASE m.num_running < MaxRunning
  BY <1>1, <1>2, ExecuteCounted DEF spawn_command, Slack
<1>3. CASE ~(m.num_running < MaxRunning)
  <2> DEFINE q == Append(m.queue, t)
             n == [m EXCEPT !.queue = q]
  <2>1. q \in Seq(T)
    BY <1>1
  <2>2. spawn_command(m, t) = n
    BY <1>3, Zenon DEF spawn_command
  <2> HIDE DEF q
  <2>3. /\ Counted(T, n) /\ n.num_running = m.num_running /\ Alive(n) = Alive(m)
    BY <2>1, QueueUpdate
  <2> HIDE DEF n
  <2>4. Slack(n, k)
    BY <1>1, <1>3, <2>3 DEF Slack
  <2> QED
    BY <2>2, <2>3, <2>4, Zenon
<1> QED
  BY <1>2, <1>3, Zenon

(* Giving back the slot of a reaped child frees exactly one slot.          *)
LEMMA ReleaseCounted ==
  ASSUME NEW T, NoTask \notin T, NEW m, Counted(T, m), Slack(m, 0), NEW p \in Alive(m)
  PROVE  /\ Counted(T, spawn_release(m, p))
         /\ Slack(spawn_release(m, p), 1)
         /\ Alive(spawn_release(m, p)) = Alive(m) \ {p}
<1> DEFINE n == spawn_release(m, p)
<1>1. m \in Manager(T) /\ p \in Pid
  BY Zenon DEF Counted, Alive
<1>a. n = [m EXCEPT !.running[p] = NoTask, !.num_running = @ - 1]
  BY Zenon DEF spawn_release
<1> HIDE DEF n
<1>2. n = [num_running |-> m.num_running - 1, queue |-> m.queue,
           running |-> [m.running EXCEPT ![p] = NoTask]]
  BY <1>1, <1>a, Zenon DEF Manager
<1>3. [m.running EXCEPT ![p] = NoTask] \in [Pid -> T \cup {NoTask}]
  BY <1>1, Zenon DEF Manager
<1>4. /\ n \in Manager(T) /\ n.num_running = m.num_running - 1 /\ n.queue = m.queue
      /\ n.running = [m.running EXCEPT ![p] = NoTask]
  BY <1>1, <1>2, <1>3 DEF Manager
<1>5. Alive(n) = Alive(m) \ {p}
  BY <1>1, <1>4, Zenon DEF Alive, Manager
<1>6. Cardinality(Alive(n)) = Cardinality(Alive(m)) - 1
  BY <1>5, CountBounds, FS_RemoveElement, Zenon
<1>7. Slack(n, 1)
  BY <1>4, CountBounds, SpawnAssumption DEF Slack
<1> QED
  BY <1>4, <1>5, <1>6, <1>7, Zenon DEF Counted, n

(* The end of spawn_reap: the freed slot goes to the queue if the callback *)
(* has not taken it.                                                       *)
LEMMA DequeueCounted ==
  ASSUME NEW T, NoTask \notin T, NEW m, Counted(T, m), Slack(m, 1)
  PROVE  /\ Counted(T, spawn_dequeue(m))
         /\ Slack(spawn_dequeue(m), 0)
         /\ Alive(m) \subseteq Alive(spawn_dequeue(m))
<1>1. m.num_running \in 0..MaxRunning /\ MaxRunning \in Nat /\ m.queue \in Seq(T)
  BY CountBounds, SpawnAssumption, Zenon DEF Counted, Manager
<1>2. CASE m.queue # <<>> /\ m.num_running < MaxRunning
  <2> DEFINE q == Tail(m.queue)
             n == [m EXCEPT !.queue = q]
  <2>1. q \in Seq(T) /\ Head(m.queue) \in T
    BY <1>1, <1>2
  <2>2. spawn_dequeue(m) = spawn_execute(n, Head(m.queue))
    BY <1>2, Zenon DEF spawn_dequeue
  <2> HIDE DEF q
  <2>3. /\ Counted(T, n) /\ n.num_running = m.num_running /\ Alive(n) = Alive(m)
    BY <2>1, QueueUpdate
  <2> HIDE DEF n
  <2>4. /\ Counted(T, spawn_dequeue(m)) /\ Alive(m) \subseteq Alive(spawn_dequeue(m))
        /\ spawn_dequeue(m).num_running = m.num_running + 1
    BY <1>2, <2>1, <2>2, <2>3, ExecuteCounted
  <2>5. m.num_running + 1 >= MaxRunning
    BY <1>1, <1>2 DEF Slack
  <2> QED
    BY <1>1, <2>4, <2>5 DEF Slack
<1>3. CASE ~(m.queue # <<>> /\ m.num_running < MaxRunning)
  BY <1>1, <1>3 DEF spawn_dequeue, Slack
<1> QED
  BY <1>2, <1>3, Zenon

-----------------------------------------------------------------------------
(* The invariant of the program.                                           *)

(* The spawn manager between two steps of main.                            *)
ManagerInv == Counted(Task, mgr) /\ Slack(mgr, 0) /\ exited \subseteq Alive(mgr)

(* The trigger thread owns the head of the list while it has an entry.     *)
TriggerInv ==
  /\ entry => trigger_list # <<>>
  /\ trigPc = "scan" => entry
  /\ trigPc = "wait" => trigger_list = <<>>

CryptBusy == {"start", "key", "ask", "passphrase", "finish"}

(* The flag and the cryptsetup thread agree, and the thread was started    *)
(* with all its devices known.                                             *)
CryptInv ==
  /\ cryptsetup_running <=> cryptPc \in CryptBusy
  /\ cryptPc # "off" => \A r \in Role : CryptOpt[r] # "unset" => devnode[r]

(* running_threads may be out of date only on the safe side.               *)
ThreadsInv == ~running_threads => trigger_list = <<>> /\ ~cryptsetup_running

IInv == TypeOK /\ ManagerInv /\ TriggerInv /\ CryptInv /\ ThreadsInv /\ NoLostWakeup

-----------------------------------------------------------------------------

(* The commands main spawns are tasks.                                     *)
LEMMA TaskFacts ==
  /\ NoTask \notin Task
  /\ \A d \in Dev \cup Char : [cmd |-> "mdev", dev |-> d] \in Task
  /\ \A d \in Dev : [cmd |-> "mdadm", dev |-> d] \in Task /\ [cmd |-> "lvm", dev |-> d] \in Task
  /\ [cmd |-> "exec", dev |-> NoTask] \in Task
  /\ \A t \in Task : t.cmd \in {"mdadm", "lvm"} => t.dev \in Dev
BY NlplugAssumption, Zenon DEF Task

(* n is a sound successor of m: nothing is lost and no slot is wasted.     *)
Sound(m, n, k) == Counted(Task, n) /\ Slack(n, k) /\ Alive(m) \subseteq Alive(n)

(* mdadm and lvm are spawned by a sound manager.                           *)
LEMMA ToolSound ==
  ASSUME NEW m, NEW k \in Nat, Sound(m, m, k), NEW d \in Dev
  PROVE  Sound(m, start_tool(m, d), k)
<1>1. CASE DevType[d] = "linux_raid_member" /\ UseMdadm
  BY <1>1, TaskFacts, CommandCounted, Zenon DEF Sound, start_tool
<1>2. CASE DevType[d] = "LVM2_member" /\ UseLvm
  BY <1>2, TaskFacts, CommandCounted, Zenon DEF Sound, start_tool
<1>3. CASE ~(DevType[d] = "linux_raid_member" /\ UseMdadm) /\ ~(DevType[d] = "LVM2_member" /\ UseLvm)
  BY <1>3, Zenon DEF start_tool
<1> QED
  BY <1>1, <1>2, <1>3, Zenon

(* So is what search_cryptdevs starts.                                     *)
LEMMA CryptStartsSound ==
  ASSUME NEW m, NEW k \in Nat, Sound(m, m, k), NEW d \in Dev, NEW r \in Role
  PROVE  Sound(m, crypt_starts(m, d, r), k)
BY ToolSound, Zenon DEF crypt_starts

(* So is the key command.                                                  *)
LEMMA KeySound ==
  ASSUME NEW m, NEW k \in Nat, Sound(m, m, k)
  PROVE  Sound(m, start_key(m), k)
BY TaskFacts, CommandCounted, Zenon DEF Sound, start_key

(* Whatever uevent_handle spawns, the manager stays consistent.            *)
LEMMA HandleSound ==
  ASSUME NEW m, NEW k \in Nat, Sound(m, m, k), NEW d \in Dev
  PROVE  Sound(m, handle_spawns(m, d), k)
<1> DEFINE m1 == searchdev_starts(m, d)
           a  == crypt_starts(m1, d, "data")
           b  == crypt_starts(a, d, "key")
           c  == crypt_starts(b, d, "header")
<1>1. \A x, y : Sound(x, y, k) => Sound(y, y, k)
  BY Zenon DEF Sound
<1>2. \A x, y, z : Sound(x, y, k) /\ Sound(y, z, k) => Sound(x, z, k)
  BY Zenon DEF Sound
<1>3. Sound(m, m1, k)
  BY ToolSound, Zenon DEF searchdev_starts
<1> HIDE DEF m1
<1>4. Sound(m1, a, k)
  BY <1>1, <1>3, CryptStartsSound, Zenon DEF Role
<1> HIDE DEF a
<1>5. Sound(a, b, k)
  BY <1>1, <1>4, CryptStartsSound, Zenon DEF Role
<1> HIDE DEF b
<1>6. Sound(b, c, k)
  BY <1>1, <1>5, CryptStartsSound, Zenon DEF Role
<1> HIDE DEF c
<1>7. Sound(c, start_key(c), k)
  BY <1>1, <1>6, KeySound, Zenon
<1>8. Sound(m, c, k) /\ Sound(m, start_key(c), k)
  BY <1>2, <1>3, <1>4, <1>5, <1>6, <1>7, Zenon
<1>9. handle_spawns(m, d) \in {m1, c, start_key(c)}
  BY Zenon DEF handle_spawns, m1, a, b, c
<1> QED
  BY <1>3, <1>8, <1>9, Zenon

(* What Reap does for the child p.                                         *)
ReapOne(p) ==
  LET t == mgr.running[p]
      m == spawn_release(mgr, p)
  IN  /\ exited' = exited \ {p}
      /\ \/ /\ t.cmd = "mdev" /\ t.dev \in Dev
            /\ uevent_handle(t.dev)
            /\ mgr' = spawn_dequeue(handle_spawns(m, t.dev))
         \/ /\ ~(t.cmd = "mdev" /\ t.dev \in Dev)
            /\ mgr' = spawn_dequeue(m)
            /\ UNCHANGED <<cryptPc, cryptsetup_running, running_threads, devnode, findvars>>

(* Reaping a child: the freed slot is passed on and the other children     *)
(* stay (spawn_reap with its callback).                                    *)
LEMMA ReapSound ==
  ASSUME ManagerInv, NEW p \in exited, ReapOne(p)
  PROVE  /\ Counted(Task, mgr') /\ Slack(mgr', 0)
         /\ Alive(mgr) \ {p} \subseteq Alive(mgr')
<1> DEFINE m == spawn_release(mgr, p)
           d == mgr.running[p].dev
<1>1. Counted(Task, m) /\ Slack(m, 1) /\ Alive(m) = Alive(mgr) \ {p}
  BY TaskFacts, ReleaseCounted, Zenon DEF ManagerInv
<1>2. \A n : Sound(m, n, 1) =>
        /\ Counted(Task, spawn_dequeue(n)) /\ Slack(spawn_dequeue(n), 0)
        /\ Alive(m) \subseteq Alive(spawn_dequeue(n))
  BY TaskFacts, DequeueCounted, Zenon DEF Sound
<1>3. Sound(m, m, 1)
  BY <1>1, Zenon DEF Sound
<1>4. d \in Dev => Sound(m, handle_spawns(m, d), 1)
  BY <1>3, HandleSound, Zenon
<1>5. mgr' = spawn_dequeue(m) \/ (d \in Dev /\ mgr' = spawn_dequeue(handle_spawns(m, d)))
  BY Zenon DEF ReapOne
<1> HIDE DEF m
<1> QED
  BY <1>1, <1>2, <1>3, <1>4, <1>5, Zenon

-----------------------------------------------------------------------------
(* Types.                                                                  *)

(* What the machine emits and holds has its types.                         *)
LEMMA Constants ==
  /\ NoTask \notin Dev
  /\ \A x \in Path \cup Module \cup Dev \cup {"crypt"} : Emits[x] \subseteq Event
  /\ \A d \in Dev : Content[d] \subseteq Found
  /\ MaxTries \in Nat /\ MaxSpurious \in Nat /\ NetlinkCap \in Nat
BY NlplugAssumption, Zenon DEF Found

(* At first all is well-formed.                                            *)
LEMMA TypeInit == Init => TypeOK
<1>1. spawn_init \in Manager(Task)
  BY DEF spawn_init, Manager
<1> QED
  <2>1. Init => FlagsOK
    BY Zenon DEF Init, FlagsOK
  <2> QED
    BY <1>1, <2>1, NlplugAssumption DEF Init, TypeOK, Path, Role

(* uevent_handle keeps the types.                                          *)
LEMMA HandleTypes ==
  ASSUME TypeOK, NEW d \in Dev, uevent_handle(d)
  PROVE  /\ cryptPc' \in {"off", "start", "key", "ask", "passphrase", "finish", "notify", "gone"}
         /\ cryptsetup_running' \in BOOLEAN /\ running_threads' \in BOOLEAN
         /\ devnode' \in [Role -> BOOLEAN]
         /\ timeout' \in {0, UeventTimeout, MAX_EVENT_TIMEOUT}
         /\ usb_storage_timeout' \in {0, USB_STORAGE_TIMEOUT}
         /\ found' \subseteq Found /\ mounted' \subseteq Dev
<1>1. searchdev(d) \subseteq Found
  BY Constants, Zenon DEF searchdev, Found
<1>2. devnodes_with(d) \in [Role -> BOOLEAN]
  BY Zenon DEF devnodes_with, TypeOK
<1> QED
  BY <1>1, <1>2, Zenon DEF uevent_handle, founddev, start_cryptsetup, TypeOK, FlagsOK

(* A uevent is queued, or dropped at the limit of the buffer.              *)
LEMMA DeliverTypes ==
  ASSUME TypeOK, NEW e \in Event, Deliver(e)
  PROVE  /\ netlink' \in Seq(Event) /\ Len(netlink') <= NetlinkCap
         /\ netlink' = netlink \/ netlink' # <<>>
<1>1. netlink \in Seq(Event) /\ Len(netlink) <= NetlinkCap /\ Len(netlink) \in Nat
  BY DEF TypeOK
<1>2. \/ Len(netlink) < NetlinkCap /\ netlink' = Append(netlink, e)
      \/ netlink' = netlink
  BY Zenon DEF Deliver
<1> QED
  BY <1>1, <1>2, Constants

(* A queue without its head.                                               *)
LEMMA TailTypes ==
  ASSUME NEW S, NEW q \in Seq(S), q # <<>>
  PROVE  Tail(q) \in Seq(S) /\ Len(Tail(q)) = Len(q) - 1
OBVIOUS

(* recv takes a message that is there.                                     *)
LEMMA RecvTypes ==
  ASSUME TypeOK, NoLostWakeup, NEW e, Recv(e)
  PROVE  netlink' \in Seq(Event) /\ Len(netlink') <= NetlinkCap
<1>1. netlink # <<>> /\ netlink \in Seq(Event) /\ Len(netlink) <= NetlinkCap
  BY Zenon DEF TypeOK, NoLostWakeup, Recv
<1>2. netlink' = Tail(netlink)
  BY Zenon DEF Recv
<1>3. Len(netlink) \in Nat
  BY <1>1
<1> QED
  BY <1>1, <1>2, <1>3, TailTypes, Constants

(* Every step of every thread keeps the state well-typed.                  *)
LEMMA TypeStep ==
  ASSUME IInv, [Next]_vars
  PROVE  TypeOK'
<1>0. TypeOK /\ NoLostWakeup
  BY Zenon DEF IInv
<1>1. CASE KernelEmit
  <2>1. FlagsOK'
    BY <1>0, <1>1, Zenon DEF KernelEmit, Deliver, TypeOK, FlagsOK, netvars, mainvars, spawnvars, trigvars, cryptvars, findvars
  <2>2. netlink' \in Seq(Event) /\ Len(netlink') <= NetlinkCap
    BY <1>0, <1>1, DeliverTypes, Zenon DEF KernelEmit, TypeOK
  <2> QED
    BY <1>0, <1>1, <2>1, <2>2 DEF KernelEmit, TypeOK, netvars, mainvars, spawnvars, trigvars, cryptvars, findvars
<1>2. CASE TriggerNext
  <2>1. FlagsOK'
    BY <1>0, <1>2, Zenon DEF TriggerNext, notify_main, TypeOK, FlagsOK, netvars, mainvars, spawnvars, trigvars, cryptvars, findvars
  <2>2. trigger_rest \in Seq(Path)
    BY <1>0, TailTypes, Zenon DEF TypeOK, trigger_rest, IInv, TriggerInv
  <2>3. trigger_rest # <<>> => Head(trigger_rest) \in Path
    BY <2>2
  <2>4. todo' \subseteq Event
    BY <1>0, <1>2, <2>3, Constants DEF TriggerNext, TypeOK
  <2> QED
    BY <1>0, <1>2, <2>1, <2>2, <2>4 DEF TriggerNext, TypeOK, netvars, mainvars, spawnvars, trigvars, cryptvars, findvars
<1>3. CASE TriggerScan
  <2>1. FlagsOK'
    BY <1>0, <1>3, Zenon DEF TriggerScan, Deliver, TypeOK, FlagsOK, netvars, mainvars, spawnvars, trigvars, cryptvars, findvars
  <2>2. netlink' \in Seq(Event) /\ Len(netlink') <= NetlinkCap
    BY <1>0, <1>3, DeliverTypes, Zenon DEF TriggerScan, TypeOK
  <2> QED
    BY <1>0, <1>3, <2>1, <2>2 DEF TriggerScan, TypeOK, netvars, mainvars, spawnvars, trigvars, cryptvars, findvars
<1>4. CASE SpuriousWakeup
  <2>1. FlagsOK'
    BY <1>0, <1>4, Zenon DEF SpuriousWakeup, TypeOK, FlagsOK, netvars, mainvars, spawnvars, trigvars, cryptvars, findvars
  <2> QED
    BY <1>0, <1>4, <2>1, Constants DEF SpuriousWakeup, TypeOK, netvars, mainvars, spawnvars, trigvars, cryptvars, findvars
<1>5. CASE CryptStart
  <2>1. FlagsOK'
    BY <1>0, <1>5, Zenon DEF CryptStart, TypeOK, FlagsOK, netvars, mainvars, spawnvars, trigvars, cryptvars, findvars
  <2> QED
    BY <1>0, <1>5, <2>1, Constants DEF CryptStart, TypeOK, netvars, mainvars, spawnvars, trigvars, cryptvars, findvars
<1>6. CASE CryptKey
  <2>1. FlagsOK'
    BY <1>0, <1>6, Zenon DEF CryptKey, crypt_activated, TypeOK, FlagsOK, netvars, mainvars, spawnvars, trigvars, cryptvars, findvars
  <2> QED
    BY <1>0, <1>6, <2>1, Constants DEF CryptKey, crypt_activated, TypeOK, netvars, mainvars, spawnvars, trigvars, cryptvars, findvars
<1>7. CASE CryptAsk
  <2>1. FlagsOK'
    BY <1>0, <1>7, Zenon DEF CryptAsk, TypeOK, FlagsOK, netvars, mainvars, spawnvars, trigvars, cryptvars, findvars
  <2> QED
    BY <1>0, <1>7, <2>1, Constants DEF CryptAsk, TypeOK, netvars, mainvars, spawnvars, trigvars, cryptvars, findvars
<1>8. CASE CryptPassphrase
  <2>1. FlagsOK'
    BY <1>0, <1>8, Zenon DEF CryptPassphrase, crypt_activated, TypeOK, FlagsOK, netvars, mainvars, spawnvars, trigvars, cryptvars, findvars
  <2> QED
    BY <1>0, <1>8, <2>1, Constants DEF CryptPassphrase, crypt_activated, TypeOK, netvars, mainvars, spawnvars, trigvars, cryptvars, findvars
<1>9. CASE CryptFinish
  <2>1. FlagsOK'
    BY <1>0, <1>9, Zenon DEF CryptFinish, TypeOK, FlagsOK, netvars, mainvars, spawnvars, trigvars, cryptvars, findvars
  <2> QED
    BY <1>0, <1>9, <2>1, Constants DEF CryptFinish, TypeOK, netvars, mainvars, spawnvars, trigvars, cryptvars, findvars
<1>10. CASE CryptNotify
  <2>1. FlagsOK'
    BY <1>0, <1>10, Zenon DEF CryptNotify, notify_main, TypeOK, FlagsOK, netvars, mainvars, spawnvars, trigvars, cryptvars, findvars
  <2> QED
    BY <1>0, <1>10, <2>1, Constants DEF CryptNotify, notify_main, TypeOK, netvars, mainvars, spawnvars, trigvars, cryptvars, findvars
<1>11. CASE Poll
  <2>1. FlagsOK'
    BY <1>0, <1>11, Zenon DEF Poll, Ready, TypeOK, FlagsOK, netvars, mainvars, spawnvars, trigvars, cryptvars, findvars
  <2> QED
    BY <1>0, <1>11, <2>1, Constants DEF Poll, Ready, TypeOK, netvars, mainvars, spawnvars, trigvars, cryptvars, findvars
<1>12. CASE PollTimeout
  <2>1. FlagsOK'
    BY <1>0, <1>12, Zenon DEF PollTimeout, TypeOK, FlagsOK, netvars, mainvars, spawnvars, trigvars, cryptvars, findvars
  <2> QED
    BY <1>0, <1>12, <2>1, Constants DEF PollTimeout, TypeOK, netvars, mainvars, spawnvars, trigvars, cryptvars, findvars
<1>13. CASE NoNetlink
  <2>1. FlagsOK'
    BY <1>0, <1>13, Zenon DEF NoNetlink, TypeOK, FlagsOK, netvars, mainvars, spawnvars, trigvars, cryptvars, findvars
  <2> QED
    BY <1>0, <1>13, <2>1, Constants DEF NoNetlink, TypeOK, netvars, mainvars, spawnvars, trigvars, cryptvars, findvars
<1>14. CASE RecvOverrun
  <2>1. FlagsOK'
    BY <1>0, <1>14, Zenon DEF RecvOverrun, TypeOK, FlagsOK, netvars, mainvars, spawnvars, trigvars, cryptvars, findvars
  <2> QED
    BY <1>0, <1>14, <2>1, Constants DEF RecvOverrun, TypeOK, netvars, mainvars, spawnvars, trigvars, cryptvars, findvars
<1>15. CASE RecvNoise
  <2>1. FlagsOK'
    BY <1>0, <1>15, Zenon DEF RecvNoise, Recv, TypeOK, FlagsOK, netvars, mainvars, spawnvars, trigvars, cryptvars, findvars
  <2>2. netlink' \in Seq(Event) /\ Len(netlink') <= NetlinkCap
    BY <1>0, <1>15, RecvTypes, Zenon DEF RecvNoise
  <2> QED
    BY <1>0, <1>15, <2>1, <2>2, Constants DEF RecvNoise, Recv, TypeOK, netvars, mainvars, spawnvars, trigvars, cryptvars, findvars
<1>16. CASE RecvFiltered
  <2>1. FlagsOK'
    BY <1>0, <1>16, Zenon DEF RecvFiltered, Recv, TypeOK, FlagsOK, netvars, mainvars, spawnvars, trigvars, cryptvars, findvars
  <2>2. netlink' \in Seq(Event) /\ Len(netlink') <= NetlinkCap
    BY <1>0, <1>16, RecvTypes, Zenon DEF RecvFiltered
  <2> QED
    BY <1>0, <1>16, <2>1, <2>2, Constants DEF RecvFiltered, Recv, TypeOK, netvars, mainvars, spawnvars, trigvars, cryptvars, findvars
<1>17. CASE RecvBus
  <2>1. FlagsOK'
    BY <1>0, <1>17, Zenon DEF RecvBus, Recv, trigger_path, TypeOK, FlagsOK, netvars, mainvars, spawnvars, trigvars, cryptvars, findvars
  <2>2. netlink' \in Seq(Event) /\ Len(netlink') <= NetlinkCap
    BY <1>0, <1>17, RecvTypes, Zenon DEF RecvBus
  <2>3. trigger_list' \in Seq(Path)
    BY <1>0, <1>17 DEF RecvBus, trigger_path, TypeOK, Path
  <2> QED
    BY <1>0, <1>17, <2>1, <2>2, <2>3, Zenon DEF RecvBus, Recv, trigger_path, TypeOK, netvars, mainvars, spawnvars, trigvars, cryptvars, findvars
<1>18. CASE RecvModalias
  <2>1. FlagsOK'
    BY <1>0, <1>18, Zenon DEF RecvModalias, Recv, TypeOK, FlagsOK, netvars, mainvars, spawnvars, trigvars, cryptvars, findvars
  <2>2. netlink' \in Seq(Event) /\ Len(netlink') <= NetlinkCap
    BY <1>0, <1>18, RecvTypes, Zenon DEF RecvModalias
  <2> QED
    BY <1>0, <1>18, <2>1, <2>2, Constants DEF RecvModalias, Recv, TypeOK, netvars, mainvars, spawnvars, trigvars, cryptvars, findvars
<1>19. CASE Signal
  <2>1. FlagsOK'
    BY <1>0, <1>19, Zenon DEF Signal, TypeOK, FlagsOK, netvars, mainvars, spawnvars, trigvars, cryptvars, findvars
  <2> QED
    BY <1>0, <1>19, <2>1, Constants DEF Signal, TypeOK, netvars, mainvars, spawnvars, trigvars, cryptvars, findvars
<1>20. CASE ReapDone
  <2>1. FlagsOK'
    BY <1>0, <1>20, Zenon DEF ReapDone, TypeOK, FlagsOK, netvars, mainvars, spawnvars, trigvars, cryptvars, findvars
  <2> QED
    BY <1>0, <1>20, <2>1, Constants, Zenon DEF ReapDone, TypeOK, netvars, mainvars, spawnvars, trigvars, cryptvars, findvars
<1>21. CASE ReadEventfd
  <2>1. FlagsOK'
    BY <1>0, <1>21, Zenon DEF ReadEventfd, TypeOK, FlagsOK, netvars, mainvars, spawnvars, trigvars, cryptvars, findvars
  <2> QED
    BY <1>0, <1>21, <2>1, Constants DEF ReadEventfd, TypeOK, netvars, mainvars, spawnvars, trigvars, cryptvars, findvars
<1>22. CASE UpdateRunning
  <2>1. FlagsOK'
    BY <1>0, <1>22, Zenon DEF UpdateRunning, TypeOK, FlagsOK, netvars, mainvars, spawnvars, trigvars, cryptvars, findvars
  <2> QED
    BY <1>0, <1>22, <2>1, Constants, Zenon DEF UpdateRunning, TypeOK, netvars, mainvars, spawnvars, trigvars, cryptvars, findvars
<1>23. CASE Killed
  <2>1. FlagsOK'
    BY <1>0, <1>23, Zenon DEF Killed, TypeOK, FlagsOK, netvars, mainvars, spawnvars, trigvars, cryptvars, findvars
  <2> QED
    BY <1>0, <1>23, <2>1, Constants, Zenon DEF Killed, TypeOK, netvars, mainvars, spawnvars, trigvars, cryptvars, findvars
<1>24. CASE UNCHANGED vars
  <2>1. FlagsOK'
    BY <1>0, <1>24, Zenon DEF TypeOK, FlagsOK, vars, netvars, mainvars, spawnvars, trigvars, cryptvars, findvars
  <2> QED
    BY <1>0, <1>24, <2>1 DEF TypeOK, vars, netvars, mainvars, spawnvars, trigvars, cryptvars, findvars
<1>25. CASE ChildExit
  <2>1. PICK p \in Alive(mgr) \ exited :
          /\ exited' = exited \cup {p}
          /\ kpending' = IF mgr.running[p].cmd \in {"mdadm", "lvm"}
                         THEN kpending \cup Emits[mgr.running[p].dev] ELSE kpending
          /\ execDone' = (execDone \/ mgr.running[p].cmd = "exec")
    BY <1>25, Zenon DEF ChildExit
  <2>2. p \in Pid /\ mgr.running[p] \in Task
    BY <1>0, Zenon DEF TypeOK, Manager, Alive
  <2>3. kpending' \subseteq Event
    BY <1>0, <2>1, <2>2, TaskFacts, Constants, Zenon DEF TypeOK
  <2>4. FlagsOK'
    BY <1>0, <1>25, <2>1, Zenon DEF ChildExit, TypeOK, FlagsOK, netvars, mainvars, spawnvars, trigvars, cryptvars, findvars
  <2>5. exited' \subseteq Pid
    BY <1>0, <2>1, <2>2, Zenon DEF TypeOK
  <2> QED
    BY <1>0, <1>25, <2>3, <2>4, <2>5 DEF ChildExit, TypeOK, netvars, mainvars, spawnvars, trigvars, cryptvars, findvars
<1>26. CASE RecvDevname
  <2>1. mgr' \in Manager(Task)
    <3>1. \A d \in Dev \cup Char : Counted(Task, spawn_command(mgr, [cmd |-> "mdev", dev |-> d]))
      BY TaskFacts, CommandCounted, Zenon DEF IInv, ManagerInv
    <3> QED
      BY <1>0, <1>26, <3>1, Zenon DEF RecvDevname, TypeOK, Counted
  <2>2. FlagsOK'
    BY <1>0, <1>26, Zenon DEF RecvDevname, Recv, TypeOK, FlagsOK, netvars, mainvars, spawnvars, trigvars, cryptvars, findvars
  <2>3. netlink' \in Seq(Event) /\ Len(netlink') <= NetlinkCap
    BY <1>0, <1>26, RecvTypes, Zenon DEF RecvDevname
  <2>4. ev' \in Dev \cup {NoTask} /\ (mainPc' = "handle" => ev' # NoTask)
    BY <1>0, <1>26, Constants, Zenon DEF RecvDevname, TypeOK
  <2> QED
    BY <1>0, <1>26, <2>1, <2>2, <2>3, <2>4 DEF RecvDevname, Recv, TypeOK, netvars, mainvars, spawnvars, trigvars, cryptvars, findvars
<1>27. CASE Handle
  <2>1. ev \in Dev
    BY <1>0, <1>27, Zenon DEF Handle, TypeOK
  <2>2. mgr' \in Manager(Task)
    BY <1>27, <2>1, HandleSound, Zenon DEF IInv, ManagerInv, Handle, Sound, Counted
  <2>3. FlagsOK'
    BY <1>0, <1>27, <2>1, HandleTypes, Zenon DEF Handle, TypeOK, FlagsOK, netvars, mainvars, spawnvars, trigvars, cryptvars, findvars
  <2> QED
    BY <1>0, <1>27, <2>1, <2>2, <2>3, HandleTypes DEF Handle, TypeOK, netvars, mainvars, spawnvars, trigvars, cryptvars, findvars
<1>28. CASE Reap
  <2>1. PICK p \in exited : ReapOne(p)
    BY <1>28, Zenon DEF Reap, ReapOne
  <2>2. mgr' \in Manager(Task)
    BY <2>1, ReapSound, Zenon DEF IInv, Sound, Counted
  <2>3. CASE mgr.running[p].cmd = "mdev" /\ mgr.running[p].dev \in Dev
    <3>1. uevent_handle(mgr.running[p].dev)
      BY <2>1, <2>3, Zenon DEF ReapOne
    <3>2. FlagsOK'
      BY <1>0, <1>28, <2>3, <3>1, HandleTypes, Zenon DEF Reap, TypeOK, FlagsOK, netvars, mainvars, spawnvars, trigvars, cryptvars, findvars
    <3> QED
      BY <1>0, <1>28, <2>1, <2>2, <2>3, <3>1, <3>2, HandleTypes DEF Reap, ReapOne, TypeOK, netvars, mainvars, spawnvars, trigvars, cryptvars, findvars
  <2>4. CASE ~(mgr.running[p].cmd = "mdev" /\ mgr.running[p].dev \in Dev)
    <3>1. UNCHANGED <<cryptPc, cryptsetup_running, running_threads, devnode, findvars>>
      BY <2>1, <2>4, Zenon DEF ReapOne
    <3>2. FlagsOK'
      BY <1>0, <1>28, <3>1, Zenon DEF Reap, TypeOK, FlagsOK, netvars, mainvars, spawnvars, trigvars, cryptvars, findvars
    <3> QED
      BY <1>0, <1>28, <2>1, <2>2, <3>1, <3>2 DEF Reap, ReapOne, TypeOK, netvars, mainvars, spawnvars, trigvars, cryptvars, findvars
  <2> QED
    BY <2>3, <2>4, Zenon
<1> QED
  BY <1>1, <1>2, <1>3, <1>4, <1>5, <1>6, <1>7, <1>8, <1>9, <1>10, <1>11, <1>12, <1>13, <1>14, <1>15, <1>16, <1>17, <1>18, <1>19, <1>20, <1>21, <1>22, <1>23, <1>24, <1>25, <1>26, <1>27, <1>28, Zenon DEF Next, Kernel, Trigger, Crypt, Main, Exited

-----------------------------------------------------------------------------
(* The other parts of the invariant.                                       *)

(* The spawn manager and the children that wait to be reaped.              *)
LEMMA ManagerStep ==
  ASSUME IInv, [Next]_vars
  PROVE  ManagerInv'
<1>0. ManagerInv /\ TypeOK
  BY Zenon DEF IInv
<1>1. CASE UNCHANGED <<mgr, exited>>
  BY <1>0, <1>1, Zenon DEF ManagerInv, Counted, Slack, Alive
<1>2. CASE ChildExit
  BY <1>0, <1>2, Zenon DEF ChildExit, ManagerInv
<1>3. CASE RecvDevname
  <2>1. PICK d \in Dev \cup Char :
          mgr' = mgr \/ mgr' = spawn_command(mgr, [cmd |-> "mdev", dev |-> d])
    BY <1>3, Zenon DEF RecvDevname
  <2>2. Sound(mgr, mgr', 0)
    <3> DEFINE t == [cmd |-> "mdev", dev |-> d]
    <3>1. t \in Task /\ NoTask \notin Task
      BY TaskFacts, Zenon
    <3> HIDE DEF t
    <3>2. Sound(mgr, spawn_command(mgr, t), 0)
      BY <1>0, <3>1, CommandCounted, Zenon DEF Sound, ManagerInv
    <3> QED
      BY <1>0, <2>1, <3>2, Zenon DEF t, Sound, ManagerInv
  <2>3. exited' = exited
    BY <1>3, Zenon DEF RecvDevname, Recv
  <2> QED
    BY <1>0, <2>2, <2>3, Zenon DEF Sound, ManagerInv
<1>4. CASE Handle
  <2>1. ev \in Dev
    BY <1>0, <1>4, Zenon DEF Handle, TypeOK
  <2>2. Sound(mgr, mgr', 0)
    BY <1>0, <1>4, <2>1, HandleSound, Zenon DEF Handle, Sound, ManagerInv
  <2> QED
    BY <1>0, <1>4, <2>2, Zenon DEF Handle, Sound, ManagerInv
<1>5. CASE Reap
  <2>1. PICK p \in exited : ReapOne(p)
    BY <1>5 DEF Reap, ReapOne
  <2> QED
    BY <1>0, <2>1, ReapSound, Zenon DEF ReapOne, ManagerInv
<1> QED
  BY <1>1, <1>2, <1>3, <1>4, <1>5, Zenon
  DEF Next, Kernel, Trigger, Crypt, Main, KernelEmit, TriggerNext, TriggerScan, SpuriousWakeup, CryptStart, CryptKey, CryptAsk, CryptPassphrase, CryptFinish, CryptNotify, Poll, PollTimeout, NoNetlink, RecvOverrun, RecvNoise, RecvFiltered, RecvBus, RecvModalias, Signal, ReapDone, ReadEventfd, UpdateRunning, Killed, Exited,
      Recv, vars, netvars, mainvars, spawnvars, trigvars, cryptvars, findvars

(* The trigger thread and the list it works off.                           *)
LEMMA TriggerStep ==
  ASSUME IInv, [Next]_vars
  PROVE  TriggerInv'
<1>0. TriggerInv /\ TypeOK
  BY Zenon DEF IInv
<1>1. CASE UNCHANGED <<entry, trigPc, trigger_list>>
  BY <1>0, <1>1, Zenon DEF TriggerInv
<1>2. CASE TriggerNext
  BY <1>0, <1>2, Zenon DEF TriggerNext, TriggerInv
<1>3. CASE TriggerScan
  BY <1>0, <1>3, Zenon DEF TriggerScan, TriggerInv
<1>4. CASE SpuriousWakeup
  BY <1>0, <1>4, Zenon DEF SpuriousWakeup, TriggerInv
<1>5. CASE RecvBus
  <2>1. PICK b : trigger_path(b) /\ Recv(b)
    BY <1>5, Zenon DEF RecvBus
  <2>2. trigger_list' # <<>>
    BY <1>0, <2>1 DEF trigger_path, TypeOK
  <2> QED
    BY <1>0, <2>1, <2>2, Zenon DEF trigger_path, Recv, TriggerInv
<1> QED
  BY <1>1, <1>2, <1>3, <1>4, <1>5, ZenonT(30)
  DEF Next, Kernel, Trigger, Crypt, Main, KernelEmit, ChildExit, CryptStart, CryptKey, CryptAsk, CryptPassphrase, CryptFinish, CryptNotify, Poll, PollTimeout, NoNetlink, RecvOverrun, RecvNoise, RecvFiltered, RecvModalias, RecvDevname, Handle, Signal, Reap, ReapDone, ReadEventfd, UpdateRunning, Killed, Exited,
      Recv, vars, netvars, mainvars, spawnvars, trigvars, cryptvars, findvars

AllKnown == \A r \in Role : CryptOpt[r] # "unset" => devnode[r]

(* One uevent_handle either leaves the cryptsetup thread alone, and changes*)
(* no device of a thread that was started, or starts it for the first time.*)
LEMMA HandleCrypt ==
  ASSUME TypeOK, CryptInv, NEW d \in Dev, uevent_handle(d)
  PROVE  \/ /\ UNCHANGED <<cryptPc, cryptsetup_running, running_threads>>
            /\ cryptPc # "off" => devnode' = devnode
         \/ /\ cryptPc = "off" /\ cryptPc' = "start"
            /\ cryptsetup_running' = TRUE /\ running_threads' = TRUE
            /\ AllKnown'
<1>1. CASE searchdev(d) # {}
  BY <1>1, Zenon DEF uevent_handle
<1>2. CASE searchdev(d) = {}
  <2>1. devnode' = devnodes_with(d)
    BY <1>2, Zenon DEF uevent_handle
  <2>2. ASSUME cryptPc # "off"
        PROVE  crypt_found(d) = {} /\ devnodes_with(d) = devnode
    <3>1. crypt_found(d) = {}
      BY <2>2, Zenon DEF CryptInv, crypt_found, crypt_wanted
    <3>2. \A r \in Role : devnodes_with(d)[r] = devnode[r]
      BY <3>1, Zenon DEF devnodes_with, TypeOK
    <3> QED
      BY <3>1, <3>2, Zenon DEF devnodes_with, TypeOK
  <2>3. CASE search_cryptdevs(d, devnodes_with(d))
    <3>1. cryptPc = "off"
      BY <2>2, <2>3, Zenon DEF search_cryptdevs
    <3>2. AllKnown'
      BY <2>1, <2>3, Zenon DEF search_cryptdevs, crypt_ready, AllKnown, Role
    <3> QED
      BY <1>2, <2>3, <3>1, <3>2, Zenon DEF uevent_handle, start_cryptsetup
  <2>4. CASE ~search_cryptdevs(d, devnodes_with(d))
    BY <1>2, <2>1, <2>2, <2>4, Zenon DEF uevent_handle
  <2> QED
    BY <2>3, <2>4, Zenon
<1> QED
  BY <1>1, <1>2, Zenon

(* The same for the two steps of main that call uevent_handle.             *)
LEMMA MainCrypt ==
  ASSUME TypeOK, CryptInv, ManagerInv, Handle \/ Reap
  PROVE  \/ /\ UNCHANGED <<cryptPc, cryptsetup_running, running_threads>>
            /\ cryptPc # "off" => devnode' = devnode
         \/ /\ cryptPc = "off" /\ cryptPc' = "start"
            /\ cryptsetup_running' = TRUE /\ running_threads' = TRUE
            /\ AllKnown'
<1>1. CASE Handle
  BY <1>1, HandleCrypt, Zenon DEF Handle, TypeOK
<1>2. CASE Reap
  <2>1. PICK p \in exited : ReapOne(p)
    BY <1>2, Zenon DEF Reap, ReapOne
  <2>2. CASE mgr.running[p].cmd = "mdev" /\ mgr.running[p].dev \in Dev
    BY <2>1, <2>2, HandleCrypt, Zenon DEF ReapOne
  <2>3. CASE ~(mgr.running[p].cmd = "mdev" /\ mgr.running[p].dev \in Dev)
    BY <2>1, <2>3, Zenon DEF ReapOne
  <2> QED
    BY <2>2, <2>3, Zenon
<1> QED
  BY <1>1, <1>2, Zenon

(* The cryptsetup thread and its flag.                                     *)
LEMMA CryptStep ==
  ASSUME IInv, [Next]_vars
  PROVE  CryptInv'
<1>0. CryptInv /\ TypeOK /\ ManagerInv
  BY Zenon DEF IInv
<1>1. CASE UNCHANGED <<cryptPc, cryptsetup_running, devnode>>
  BY <1>0, <1>1, Zenon DEF CryptInv
<1>2. CASE CryptStart
  BY <1>0, <1>2, Zenon DEF CryptStart, CryptInv, CryptBusy
<1>3. CASE CryptKey
  BY <1>0, <1>3, Zenon DEF CryptKey, CryptInv, CryptBusy
<1>4. CASE CryptAsk
  BY <1>0, <1>4, Zenon DEF CryptAsk, CryptInv, CryptBusy
<1>5. CASE CryptPassphrase
  BY <1>0, <1>5, Zenon DEF CryptPassphrase, CryptInv, CryptBusy
<1>6. CASE CryptFinish
  BY <1>0, <1>6, Zenon DEF CryptFinish, CryptInv, CryptBusy
<1>7. CASE CryptNotify
  BY <1>0, <1>7, Zenon DEF CryptNotify, CryptInv, CryptBusy
<1>8. CASE Handle \/ Reap
  <2>1. CASE UNCHANGED <<cryptPc, cryptsetup_running>> /\ (cryptPc # "off" => devnode' = devnode)
    BY <1>0, <2>1, Zenon DEF CryptInv
  <2>2. CASE cryptPc' = "start" /\ cryptsetup_running' = TRUE /\ AllKnown'
    <3>1. cryptsetup_running' <=> cryptPc' \in CryptBusy
      BY <2>2, Zenon DEF CryptBusy
    <3> QED
      BY <2>2, <3>1, Zenon DEF CryptInv, AllKnown
  <2> QED
    BY <1>0, <1>8, <2>1, <2>2, MainCrypt, Zenon
<1> QED
  BY <1>1, <1>2, <1>3, <1>4, <1>5, <1>6, <1>7, <1>8, ZenonT(30)
  DEF Next, Kernel, Trigger, Crypt, Main, KernelEmit, ChildExit, TriggerNext, TriggerScan, SpuriousWakeup, Poll, PollTimeout, NoNetlink, RecvOverrun, RecvNoise, RecvFiltered, RecvBus, RecvModalias, RecvDevname, Signal, ReapDone, ReadEventfd, UpdateRunning, Killed, Exited,
      Recv, vars, netvars, mainvars, spawnvars, trigvars, cryptvars, findvars

(* running_threads is cleared only when nobody works.                      *)
LEMMA ThreadsStep ==
  ASSUME IInv, [Next]_vars
  PROVE  ThreadsInv'
<1>0. ThreadsInv /\ CryptInv /\ TypeOK /\ ManagerInv /\ TriggerInv
  BY Zenon DEF IInv
<1>1. CASE UNCHANGED <<running_threads, trigger_list, cryptsetup_running>>
  BY <1>0, <1>1, Zenon DEF ThreadsInv
<1>2. CASE TriggerNext
  BY <1>0, <1>2, Zenon DEF TriggerNext, trigger_rest, ThreadsInv, TriggerInv, netvars, mainvars, spawnvars, trigvars, cryptvars, findvars
<1>3. CASE CryptFinish
  BY <1>0, <1>3, Zenon DEF CryptFinish, ThreadsInv, netvars, mainvars, spawnvars, trigvars, cryptvars, findvars
<1>4. CASE RecvBus
  BY <1>0, <1>4, Zenon DEF RecvBus, trigger_path, ThreadsInv
<1>5. CASE Handle \/ Reap
  <2>1. trigger_list' = trigger_list
    BY <1>5, Zenon DEF Handle, Reap, trigvars
  <2> QED
    BY <1>0, <1>5, <2>1, MainCrypt, Zenon DEF ThreadsInv
<1>6. CASE UpdateRunning
  BY <1>0, <1>6, Zenon DEF UpdateRunning, ThreadsInv, trigvars, cryptvars
<1> QED
  BY <1>1, <1>2, <1>3, <1>4, <1>5, <1>6, ZenonT(30)
  DEF Next, Kernel, Trigger, Crypt, Main, KernelEmit, ChildExit, TriggerScan, SpuriousWakeup, CryptStart, CryptKey, CryptAsk, CryptPassphrase, CryptNotify, Poll, PollTimeout, NoNetlink, RecvOverrun, RecvNoise, RecvFiltered, RecvModalias, RecvDevname, Signal, ReapDone, ReadEventfd, Killed, Exited,
      Recv, vars, netvars, mainvars, spawnvars, trigvars, cryptvars, findvars

(* The four conjuncts of NoLostWakeup.                                     *)
Wakeup  == Running /\ running_threads =>
             \/ efd \/ mainPc = "update"
             \/ trigPc # "wait" \/ cryptPc \notin {"off", "gone"}
Zombies == Running /\ exited # {} => sigchld \/ mainPc = "reap"
Readable == mainPc = "netlink" /\ "netlink" \in revents => netlink # <<>>

(* The parts of NoLostWakeup, which different steps disturb.               *)
LEMMA WakeupParts ==
  NoLostWakeup <=> Wakeup /\ (trigPc = "wait" => trigger_list = <<>>) /\ Zombies /\ Readable
BY Zenon DEF NoLostWakeup, Wakeup, Zombies, Readable

(* The eventfd is never missed: one step per action.                       *)
LEMMA WakeupStep ==
  ASSUME IInv, [Next]_vars
  PROVE  Wakeup'
<1>0. Wakeup /\ TypeOK /\ TriggerInv /\ CryptInv /\ ManagerInv
  BY WakeupParts, Zenon DEF IInv
<1>1. CASE KernelEmit
  BY <1>0, <1>1, Zenon DEF KernelEmit, Deliver, Wakeup, Running, netvars, mainvars, spawnvars, trigvars, cryptvars, findvars
<1>2. CASE ChildExit
  BY <1>0, <1>2, Zenon DEF ChildExit, Wakeup, Running, netvars, mainvars, spawnvars, trigvars, cryptvars, findvars
<1>3. CASE TriggerNext
  BY <1>0, <1>3, Zenon DEF TriggerNext, notify_main, Wakeup, Running, netvars, mainvars, spawnvars, trigvars, cryptvars, findvars
<1>4. CASE TriggerScan
  BY <1>0, <1>4, Zenon DEF TriggerScan, Deliver, Wakeup, Running, netvars, mainvars, spawnvars, trigvars, cryptvars, findvars
<1>5. CASE SpuriousWakeup
  BY <1>0, <1>5, Zenon DEF SpuriousWakeup, Wakeup, Running, netvars, mainvars, spawnvars, trigvars, cryptvars, findvars
<1>6. CASE CryptStart
  BY <1>0, <1>6, Zenon DEF CryptStart, Wakeup, Running, netvars, mainvars, spawnvars, trigvars, cryptvars, findvars
<1>7. CASE CryptKey
  BY <1>0, <1>7, Zenon DEF CryptKey, Wakeup, Running, netvars, mainvars, spawnvars, trigvars, cryptvars, findvars
<1>8. CASE CryptAsk
  BY <1>0, <1>8, Zenon DEF CryptAsk, Wakeup, Running, netvars, mainvars, spawnvars, trigvars, cryptvars, findvars
<1>9. CASE CryptPassphrase
  BY <1>0, <1>9, Zenon DEF CryptPassphrase, Wakeup, Running, netvars, mainvars, spawnvars, trigvars, cryptvars, findvars
<1>10. CASE CryptFinish
  BY <1>0, <1>10, Zenon DEF CryptFinish, Wakeup, Running, netvars, mainvars, spawnvars, trigvars, cryptvars, findvars
<1>11. CASE CryptNotify
  BY <1>0, <1>11, Zenon DEF CryptNotify, notify_main, Wakeup, Running, netvars, mainvars, spawnvars, trigvars, cryptvars, findvars
<1>12. CASE Poll
  BY <1>0, <1>12, Zenon DEF Poll, Ready, Wakeup, Running, netvars, mainvars, spawnvars, trigvars, cryptvars, findvars
<1>13. CASE PollTimeout
  BY <1>0, <1>13, Zenon DEF PollTimeout, Wakeup, Running, netvars, mainvars, spawnvars, trigvars, cryptvars, findvars
<1>14. CASE NoNetlink
  BY <1>0, <1>14, Zenon DEF NoNetlink, Wakeup, Running, netvars, mainvars, spawnvars, trigvars, cryptvars, findvars
<1>15. CASE RecvOverrun
  BY <1>0, <1>15, Zenon DEF RecvOverrun, Wakeup, Running, netvars, mainvars, spawnvars, trigvars, cryptvars, findvars
<1>16. CASE RecvNoise
  <2>1. UNCHANGED <<efd, cryptPc, running_threads, trigPc>> /\ mainPc = "netlink"
    BY <1>16, Zenon DEF RecvNoise, Recv
  <2> QED
    BY <1>0, <2>1, Zenon DEF Wakeup, Running
<1>17. CASE RecvFiltered
  <2>1. UNCHANGED <<efd, cryptPc, running_threads, trigPc>> /\ mainPc = "netlink"
    BY <1>17, Zenon DEF RecvFiltered, Recv
  <2> QED
    BY <1>0, <2>1 DEF Wakeup, Running
<1>18. CASE RecvModalias
  <2>1. UNCHANGED <<efd, cryptPc, running_threads, trigPc>> /\ mainPc = "netlink"
    BY <1>18, Zenon DEF RecvModalias, Recv
  <2> QED
    BY <1>0, <2>1 DEF Wakeup, Running
<1>19. CASE RecvDevname
  <2>1. UNCHANGED <<efd, cryptPc, running_threads, trigPc>> /\ mainPc = "netlink"
    BY <1>19, Zenon DEF RecvDevname, Recv
  <2> QED
    BY <1>0, <2>1 DEF Wakeup, Running
<1>20. CASE Signal
  BY <1>0, <1>20, Zenon DEF Signal, Wakeup, Running, netvars, mainvars, spawnvars, trigvars, cryptvars, findvars
<1>21. CASE ReapDone
  BY <1>0, <1>21, Zenon DEF ReapDone, Wakeup, Running, netvars, mainvars, spawnvars, trigvars, cryptvars, findvars
<1>22. CASE ReadEventfd
  BY <1>0, <1>22, Zenon DEF ReadEventfd, Wakeup, Running, netvars, mainvars, spawnvars, trigvars, cryptvars, findvars
<1>23. CASE UpdateRunning
  BY <1>0, <1>23, Zenon DEF UpdateRunning, CryptInv, CryptBusy, TriggerInv, Wakeup, Running, netvars, mainvars, spawnvars, trigvars, cryptvars, findvars
<1>24. CASE Killed
  BY <1>0, <1>24, Zenon DEF Killed, Wakeup, Running, netvars, mainvars, spawnvars, trigvars, cryptvars, findvars
<1>25. CASE RecvBus
  <2>1. trigPc' # "wait"
    BY <1>25, Zenon DEF RecvBus, trigger_path
  <2> QED
    BY <2>1, Zenon DEF Wakeup
<1>26. CASE Handle \/ Reap
  <2>1. UNCHANGED <<efd, trigPc>> /\ mainPc # "update"
    BY <1>26, Zenon DEF Handle, Reap, trigvars
  <2>2. Running
    BY <1>26, Zenon DEF Handle, Reap, Running
  <2> QED
    BY <1>0, <1>26, <2>1, <2>2, MainCrypt, Zenon DEF Wakeup
<1>27. CASE UNCHANGED vars
  BY <1>0, <1>27, Zenon DEF Wakeup, Running, vars, netvars, mainvars, spawnvars, trigvars, cryptvars, findvars
<1> QED
  BY <1>1, <1>2, <1>3, <1>4, <1>5, <1>6, <1>7, <1>8, <1>9, <1>10, <1>11, <1>12, <1>13, <1>14, <1>15, <1>16, <1>17, <1>18, <1>19, <1>20, <1>21, <1>22, <1>23, <1>24, <1>25, <1>26, <1>27 DEF Next, Kernel, Trigger, Crypt, Main, Exited

(* A child that exits while main is reaping is still announced.            *)
LEMMA ZombieStep ==
  ASSUME IInv, [Next]_vars
  PROVE  Zombies'
<1>0. Zombies
  BY WakeupParts, Zenon DEF IInv
<1>1. CASE UNCHANGED <<exited, sigchld>> /\ (mainPc' = mainPc \/ mainPc # "reap" \/ mainPc' = "killed")
           /\ (Running' => Running)
  BY <1>0, <1>1, Zenon DEF Zombies, Running
<1>2. CASE ChildExit
  BY <1>2, Zenon DEF ChildExit, Zombies
<1>3. CASE Signal
  BY <1>0, <1>3, Zenon DEF Signal, Zombies, Running
<1>4. CASE Reap
  BY <1>0, <1>4, Zenon DEF Reap, Zombies, mainvars
<1>5. CASE ReapDone
  BY <1>5, Zenon DEF ReapDone, Zombies, spawnvars
<1> QED
  BY <1>0, <1>1, <1>2, <1>3, <1>4, <1>5, ZenonT(30)
  DEF Next, Kernel, Trigger, Crypt, Main, Running, KernelEmit, TriggerNext, TriggerScan, SpuriousWakeup, CryptStart, CryptKey, CryptAsk, CryptPassphrase, CryptFinish, CryptNotify, Poll, PollTimeout, NoNetlink, RecvOverrun, RecvNoise, RecvFiltered, RecvBus, RecvModalias, RecvDevname, Handle, ReadEventfd, UpdateRunning, Killed, Exited,
      Recv, vars, netvars, mainvars, spawnvars, trigvars, cryptvars, findvars

(* Only main takes messages from the socket, so a socket that poll found   *)
(* readable is still readable at recvmsg.                                  *)
LEMMA ReadableStep ==
  ASSUME IInv, [Next]_vars
  PROVE  Readable'
<1>0. Readable /\ TypeOK
  BY WakeupParts, Zenon DEF IInv
<1>1. CASE UNCHANGED <<netlink, revents>> /\ (mainPc' = mainPc \/ mainPc' # "netlink")
  BY <1>0, <1>1, Zenon DEF Readable
<1>2. CASE mainPc' # "netlink"
  BY <1>2, Zenon DEF Readable
<1>3. CASE KernelEmit \/ TriggerScan
  <2>1. netlink' = netlink \/ netlink' # <<>>
    BY <1>0, <1>3, DeliverTypes, Zenon DEF KernelEmit, TriggerScan, TypeOK
  <2>2. UNCHANGED <<revents, mainPc>>
    BY <1>3, Zenon DEF KernelEmit, TriggerScan, mainvars
  <2> QED
    BY <1>0, <2>1, <2>2, Zenon DEF Readable
<1>4. CASE Poll
  BY <1>4, Zenon DEF Poll, Ready, Readable, netvars
<1> QED
  BY <1>1, <1>2, <1>3, <1>4, ZenonT(30)
  DEF Next, Kernel, Trigger, Crypt, Main, ChildExit, TriggerNext, SpuriousWakeup, CryptStart, CryptKey, CryptAsk, CryptPassphrase, CryptFinish, CryptNotify, PollTimeout, NoNetlink, RecvOverrun, RecvNoise, RecvFiltered, RecvBus, RecvModalias, RecvDevname, Handle, Signal, Reap, ReapDone, ReadEventfd, UpdateRunning, Killed, Exited,
      Recv, vars, netvars, mainvars, spawnvars, trigvars, cryptvars, findvars

-----------------------------------------------------------------------------
(* At first nobody waits for a wakeup.                                     *)
LEMMA InitInv == Init => IInv
<1> SUFFICES ASSUME Init PROVE IInv
  BY Zenon
<1>1. TypeOK
  BY TypeInit, Zenon
<1>2. ManagerInv
  <2>1. Alive(mgr) = {}
    BY Zenon DEF Init, spawn_init, Alive
  <2>2. mgr.num_running = 0 /\ mgr.queue = <<>>
    BY Zenon DEF Init, spawn_init
  <2>3. Counted(Task, mgr)
    BY <1>1, <2>1, <2>2, FS_EmptySet, Zenon DEF TypeOK, Counted
  <2> QED
    BY <2>2, <2>3, Zenon DEF ManagerInv, Slack, Init
<1>3. TriggerInv /\ NoLostWakeup
  BY Zenon DEF Init, TriggerInv, NoLostWakeup, Running
<1>4. CryptInv /\ ThreadsInv
  BY Zenon DEF Init, CryptInv, CryptBusy, ThreadsInv
<1> QED
  BY <1>1, <1>2, <1>3, <1>4, Zenon DEF IInv

(* Every step of main, a thread, a child or the kernel keeps the invariant. *)
LEMMA NextInv == IInv /\ [Next]_vars => IInv'
<1> SUFFICES ASSUME IInv, [Next]_vars PROVE IInv'
  BY Zenon
<1>1. TriggerInv'
  BY TriggerStep, Zenon
<1>2. NoLostWakeup'
  BY <1>1, WakeupStep, ZombieStep, ReadableStep, Zenon
  DEF NoLostWakeup, Wakeup, Zombies, Readable, TriggerInv, Running
<1> QED
  BY <1>1, <1>2, TypeStep, ManagerStep, CryptStep, ThreadsStep, Zenon DEF IInv

(* IInv holds in every state.                                              *)
LEMMA Invariance == Spec => []IInv
BY InitInv, NextInv, PTL DEF Spec

(* The state of every run of nlplug-findfs is well-formed.                 *)
THEOREM TypeCorrect == Spec => []TypeOK
<1>1. IInv => TypeOK
  BY Zenon DEF IInv
<1> QED
  BY <1>1, Invariance, PTL

(* Main never sleeps on a wakeup that nobody will send, on any machine.    *)
THEOREM WakeupSafety == Spec => []NoLostWakeup
<1>1. IInv => NoLostWakeup
  BY Zenon DEF IInv
<1> QED
  BY <1>1, Invariance, PTL

(* The spawn queue is work-conserving and the running count is exact.      *)
THEOREM SpawnSafety == Spec => []WorkConserving
<1>1. IInv => WorkConserving
  <2> SUFFICES ASSUME IInv PROVE WorkConserving
    BY Zenon
  <2>1. Counted(Task, mgr) /\ Slack(mgr, 0)
    BY Zenon DEF IInv, ManagerInv
  <2>2. mgr.num_running \in 0..MaxRunning
    BY <2>1, TaskFacts, CountBounds, Zenon
  <2> QED
    BY <2>1, <2>2, SpawnAssumption DEF WorkConserving, Slack, Counted
<1> QED
  BY <1>1, Invariance, PTL

(* The program gives up by timeout only when every thread and child is     *)
(* done.                                                                   *)
THEOREM ExitIsQuiet == Spec => QuietExit
<1>1. ASSUME IInv, [Next]_vars, mainPc = "poll", mainPc' \in {"exit", "failed"}
      PROVE  /\ trigger_list = <<>> /\ trigPc # "scan"
             /\ cryptPc \in {"off", "notify", "gone"}
             /\ Alive(mgr) = {} /\ mgr.queue = <<>>
  <2>1. PollTimeout
    BY <1>1, ZenonT(30) DEF Next, Kernel, Trigger, Crypt, Main, Running, KernelEmit, ChildExit, TriggerNext, TriggerScan, SpuriousWakeup, CryptStart, CryptKey, CryptAsk, CryptPassphrase, CryptFinish, CryptNotify, Poll, NoNetlink, RecvOverrun, RecvNoise, RecvFiltered, RecvBus, RecvModalias, RecvDevname, Handle, Signal, Reap, ReapDone, ReadEventfd, UpdateRunning, Killed, Exited, vars, netvars, mainvars, spawnvars, trigvars, cryptvars, findvars
  <2>2. mgr.num_running = 0 /\ mgr.queue = <<>> /\ ~running_threads
    BY <2>1, Zenon DEF PollTimeout, may_time_out, spawn_active
  <2>3. Alive(mgr) = {}
    BY <1>1, <2>2, TaskFacts, CountBounds, Zenon DEF IInv, ManagerInv
  <2>4. trigger_list = <<>> /\ ~cryptsetup_running
    BY <1>1, <2>2, Zenon DEF IInv, ThreadsInv
  <2>5. trigPc # "scan"
    BY <1>1, <2>4, Zenon DEF IInv, TriggerInv
  <2>6. cryptPc \in {"off", "notify", "gone"}
    BY <1>1, <2>4, Zenon DEF IInv, CryptInv, CryptBusy, TypeOK
  <2> QED
    BY <2>2, <2>3, <2>4, <2>5, <2>6, Zenon
<1> QED
  BY <1>1, Invariance, PTL DEF Spec, QuietExit

(* cryptsetup is started at most once, with every device it needs.         *)
THEOREM CryptStartsOnce == Spec => CryptOnce
<1>1. ASSUME IInv, [Next]_vars, cryptPc' = "start", cryptPc # "start" \/ devnode' # devnode
      PROVE  cryptPc = "off" /\ \A r \in Role : CryptOpt[r] # "unset" => devnode'[r]
  <2>1. Handle \/ Reap
    BY <1>1, ZenonT(30) DEF Next, Kernel, Trigger, Crypt, Main, KernelEmit, ChildExit, TriggerNext, TriggerScan, SpuriousWakeup, CryptStart, CryptKey, CryptAsk, CryptPassphrase, CryptFinish, CryptNotify, Poll, PollTimeout, NoNetlink, RecvOverrun, RecvNoise, RecvFiltered, RecvBus, RecvModalias, RecvDevname, Signal, ReapDone, ReadEventfd, UpdateRunning, Killed, Exited, Recv, vars, netvars, mainvars, spawnvars, trigvars, cryptvars, findvars
  <2> QED
    BY <1>1, <2>1, MainCrypt, Zenon DEF IInv, AllKnown
<1> QED
  BY <1>1, Invariance, PTL DEF Spec, CryptOnce
=============================================================================
