---------------------------- MODULE NlplugFindfs ----------------------------
(***************************************************************************)
(* nlplug-findfs, the coldplug program of the initramfs: a main thread     *)
(* that polls the kernel's uevent socket, a signalfd and an eventfd; a     *)
(* trigger thread that walks sysfs and makes the kernel replay its         *)
(* uevents; a cryptsetup thread; and the child processes of the spawn      *)
(* manager (mdev, mdadm, lvm, the key command).                            *)
(*                                                                         *)
(* The kernel is the environment: Emits[x] is the set of uevents that      *)
(* follow when path x is walked, module x is loaded, an array or volume    *)
(* tool has run for device x, or the crypt mapping is set up.              *)
(***************************************************************************)
EXTENDS SpawnManager

CONSTANTS
  Bus, Module, Dev, Char, Noise,  \* the uevents, by what they announce
  UsbStorage,     \* the modules that are usb_storage
  Filtered,       \* uevents whose subsystem -f filters out
  Emits,          \* see above
  DevType,        \* blkid's TYPE of a device
  Content,        \* what a file system holds: "BOOTREPO", "APKOVL"
  Program,        \* an event handler (-p) is configured
  SearchDev,      \* the devices that match SEARCHDEVICE
  HasSearch,      \* SEARCHDEVICE was given
  ScanMedia,      \* -a or -b was given
  CryptOpt,       \* -c, -k, -H: a device, "file", "exec" or "unset"
  NotFoundOk,     \* -n
  UeventTimeout,  \* -t
  UseMdadm, UseLvm,
  NetlinkCap,     \* uevents the socket buffer holds (-U)
  MaxTries,       \* passphrase attempts
  MaxSpurious     \* bound: spurious condition-variable wakeups

MAX_EVENT_TIMEOUT   == 5000
USB_STORAGE_TIMEOUT == 1000

Event == Bus \cup Module \cup Dev \cup Char \cup Noise
Path  == {"/bus", "/class"} \cup Bus
Role  == {"data", "key", "header"}
Found == {"DEVICE", "BOOTREPO", "APKOVL"}
Task  == [cmd : {"mdev"}, dev : Dev \cup Char] \cup [cmd : {"mdadm", "lvm"}, dev : Dev]
           \cup [cmd : {"exec"}, dev : {NoTask}]

ASSUME NlplugAssumption ==
  /\ Emits \in [Path \cup Module \cup Dev \cup {"crypt"} -> SUBSET Event]
  /\ Content \in [Dev -> SUBSET {"BOOTREPO", "APKOVL"}]
  /\ DevType \in [Dev -> {"linux_raid_member", "LVM2_member", "zfs_member", "fs", "none"}]
  /\ CryptOpt \in [Role -> Dev \cup {"unset", "file", "exec"}]
  /\ CryptOpt["data"] \notin {"file", "exec"} /\ CryptOpt["header"] # "exec"
  /\ SearchDev \subseteq Dev /\ UsbStorage \subseteq Module /\ Filtered \subseteq Event
  /\ {Program, HasSearch, ScanMedia, NotFoundOk, UseMdadm, UseLvm} \subseteq BOOLEAN
  /\ {UeventTimeout, MaxTries, MaxSpurious} \subseteq Nat
  /\ NetlinkCap \in Nat \ {0}
  /\ NoTask \notin Task \cup Dev \cup Char

VARIABLES
  netlink, overrun,        \* the uevent socket; a uevent was dropped
  kpending,                \* uevents the kernel has still to send
  mainPc, revents, ev,     \* main thread; the event under uevent_handle
  mgr, exited, sigchld,    \* spawnmgr; zombies; the signalfd is readable
  efd,                     \* the eventfd's counter is not zero
  running_threads,
  trigger_list, trigPc, entry, todo, spurious,
  cryptPc, cryptsetup_running, tries, execDone,
  devnode,                 \* crypt.<role>.devnode is set
  timeout, usb_storage_timeout, found, mounted

netvars   == <<netlink, overrun, kpending>>
mainvars  == <<mainPc, revents, ev>>
spawnvars == <<mgr, exited, sigchld>>
trigvars  == <<trigger_list, trigPc, entry, todo, spurious>>
cryptvars == <<cryptPc, cryptsetup_running, tries, execDone, devnode>>
findvars  == <<timeout, usb_storage_timeout, found, mounted>>
vars == <<netvars, mainvars, spawnvars, efd, running_threads, trigvars, cryptvars, findvars>>

FlagsOK ==
  /\ overrun \in BOOLEAN /\ sigchld \in BOOLEAN /\ efd \in BOOLEAN
  /\ running_threads \in BOOLEAN /\ cryptsetup_running \in BOOLEAN
  /\ entry \in BOOLEAN /\ execDone \in BOOLEAN

(* The state is well-formed: the socket never holds more than its buffer,  *)
(* the pid table and the queue hold commands, the timeouts are the ones    *)
(* the options allow, and main handles a device only when it has one.      *)
TypeOK ==
  /\ FlagsOK
  /\ netlink \in Seq(Event) /\ Len(netlink) <= NetlinkCap /\ kpending \subseteq Event
  /\ mainPc \in {"poll", "netlink", "handle", "signal", "reap", "eventfd", "update",
                 "exit", "failed", "killed"}
  /\ revents \subseteq {"netlink", "signal", "eventfd"}
  /\ ev \in Dev \cup {NoTask} /\ (mainPc = "handle" => ev # NoTask)
  /\ mgr \in Manager(Task) /\ exited \subseteq Pid
  /\ trigger_list \in Seq(Path) /\ trigPc \in {"next", "scan", "wait"}
  /\ todo \subseteq Event /\ spurious \in 0..MaxSpurious
  /\ cryptPc \in {"off", "start", "key", "ask", "passphrase", "finish", "notify", "gone"}
  /\ tries \in 0..MaxTries
  /\ devnode \in [Role -> BOOLEAN]
  /\ timeout \in {0, UeventTimeout, MAX_EVENT_TIMEOUT}
  /\ usb_storage_timeout \in {0, USB_STORAGE_TIMEOUT}
  /\ found \subseteq Found /\ mounted \subseteq Dev

(* main up to its loop: two paths are queued and the trigger thread runs;  *)
(* a header or key that is a regular file, or a key command, needs no      *)
(* device.                                                                 *)
Init ==
  /\ netlink = <<>> /\ overrun = FALSE /\ kpending = {}
  /\ mainPc = "poll" /\ revents = {} /\ ev = NoTask
  /\ mgr = spawn_init /\ exited = {} /\ sigchld = FALSE
  /\ efd = FALSE /\ running_threads = TRUE
  /\ trigger_list = <<"/bus", "/class">> /\ trigPc = "next" /\ entry = FALSE
  /\ todo = {} /\ spurious = 0
  /\ cryptPc = "off" /\ cryptsetup_running = FALSE /\ tries = MaxTries /\ execDone = FALSE
  /\ devnode = [r \in Role |-> CryptOpt[r] \in {"file", "exec"}]
  /\ timeout = MAX_EVENT_TIMEOUT /\ usb_storage_timeout = 0
  /\ found = {} /\ mounted = {}

(* The process is still there: main has not returned.                      *)
Running == mainPc \notin {"exit", "failed", "killed"}

-----------------------------------------------------------------------------
(* The kernel.                                                             *)

(* Queue a uevent on the socket; a full buffer drops it and makes the next *)
(* recvmsg fail.                                                           *)
Deliver(e) ==
  IF Len(netlink) < NetlinkCap
  THEN netlink' = Append(netlink, e) /\ UNCHANGED overrun
  ELSE overrun' = TRUE /\ UNCHANGED netlink

(* A device that was probed in the background announces itself.            *)
KernelEmit ==
  /\ Running
  /\ \E e \in kpending : Deliver(e) /\ kpending' = kpending \ {e}
  /\ UNCHANGED <<mainvars, spawnvars, efd, running_threads, trigvars, cryptvars, findvars>>

(* What a child leaves behind when it ends: the devices mdadm or lvm made, *)
(* or the end of the key command's output.                                 *)
ChildExit ==
  /\ Running
  /\ \E p \in Alive(mgr) \ exited :
       LET t == mgr.running[p] IN
       /\ exited' = exited \cup {p}
       /\ kpending' = IF t.cmd \in {"mdadm", "lvm"} THEN kpending \cup Emits[t.dev] ELSE kpending
       /\ execDone' = (execDone \/ t.cmd = "exec")
  /\ sigchld' = TRUE
  /\ UNCHANGED <<netlink, overrun, mainvars, mgr, efd, running_threads, trigvars, cryptPc,
                 cryptsetup_running, tries, devnode, findvars>>

-----------------------------------------------------------------------------
(* The trigger thread.  trigger_mutex is never held across a blocking      *)
(* call, so each critical section is one action.                           *)

notify_main == efd' = TRUE

(* The finished entry leaves the list only here, after its walk.           *)
trigger_rest == IF entry THEN Tail(trigger_list) ELSE trigger_list

(* Top of trigger_thread's loop, or a return from pthread_cond_wait.       *)
TriggerNext ==
  /\ Running /\ trigPc = "next"
  /\ trigger_list' = trigger_rest
  /\ \/ /\ trigger_rest = <<>>
        /\ notify_main
        /\ trigPc' = "wait" /\ entry' = FALSE
        /\ UNCHANGED todo
     \/ /\ trigger_rest # <<>>
        /\ trigPc' = "scan" /\ entry' = TRUE
        /\ todo' = Emits[Head(trigger_rest)]
        /\ UNCHANGED efd
  /\ UNCHANGED <<netvars, mainvars, spawnvars, running_threads, spurious, cryptvars, findvars>>

(* trigger_uevent_cb: the write of "add" makes the kernel send the uevent  *)
(* before it returns.                                                      *)
TriggerScan ==
  /\ Running /\ trigPc = "scan"
  /\ \/ /\ \E e \in todo : Deliver(e) /\ todo' = todo \ {e}
        /\ UNCHANGED trigPc
     \/ /\ todo = {}
        /\ trigPc' = "next"
        /\ UNCHANGED <<todo, netlink, overrun>>
  /\ UNCHANGED <<kpending, mainvars, spawnvars, efd, running_threads, trigger_list, entry,
                 spurious, cryptvars, findvars>>

SpuriousWakeup ==
  /\ Running /\ trigPc = "wait" /\ spurious < MaxSpurious
  /\ trigPc' = "next" /\ spurious' = spurious + 1
  /\ UNCHANGED <<netvars, mainvars, spawnvars, efd, running_threads, trigger_list, entry,
                 todo, cryptvars, findvars>>

-----------------------------------------------------------------------------
(* The cryptsetup thread.  It holds crypt.mutex while it activates the     *)
(* mapping; main takes the same mutex only inside uevent_handle.           *)

CryptHolds == cryptPc \in {"key", "passphrase"}

crypt_activated == kpending' = kpending \cup Emits["crypt"]

(* crypt_init, crypt_load and crypt_set_data_device may fail.              *)
CryptStart ==
  /\ Running /\ cryptPc = "start"
  /\ \/ cryptPc' = "finish"
     \/ cryptPc' = IF devnode["key"] THEN "key" ELSE "ask"
  /\ UNCHANGED <<netvars, mainvars, spawnvars, efd, running_threads, trigvars,
                 cryptsetup_running, tries, execDone, devnode, findvars>>

(* crypt_activate_by_keyfile_device_offset reads the key to its end: with  *)
(* EXEC= that is the end of the command's output.                          *)
CryptKey ==
  /\ Running /\ cryptPc = "key"
  /\ CryptOpt["key"] = "exec" => execDone
  /\ \/ crypt_activated /\ cryptPc' = "finish"
     \/ /\ cryptPc' = IF CryptOpt["key"] = "exec" THEN "finish" ELSE "ask"
        /\ UNCHANGED kpending
  /\ UNCHANGED <<netlink, overrun, mainvars, spawnvars, efd, running_threads, trigvars,
                 cryptsetup_running, tries, execDone, devnode, findvars>>

(* The prompt: read_pass fails, or a passphrase is taken.                  *)
CryptAsk ==
  /\ Running /\ cryptPc = "ask"
  /\ \/ cryptPc' = "finish" /\ UNCHANGED tries
     \/ tries > 0 /\ cryptPc' = "passphrase" /\ tries' = tries - 1
  /\ UNCHANGED <<netvars, mainvars, spawnvars, efd, running_threads, trigvars,
                 cryptsetup_running, execDone, devnode, findvars>>

CryptPassphrase ==
  /\ Running /\ cryptPc = "passphrase"
  /\ \/ crypt_activated /\ cryptPc' = "finish"
     \/ cryptPc' = (IF tries > 0 THEN "ask" ELSE "finish") /\ UNCHANGED kpending
  /\ UNCHANGED <<netlink, overrun, mainvars, spawnvars, efd, running_threads, trigvars,
                 cryptsetup_running, tries, execDone, devnode, findvars>>

(* The flag is cleared first, without trigger_mutex, then main is told.    *)
CryptFinish ==
  /\ Running /\ cryptPc = "finish"
  /\ cryptsetup_running' = FALSE /\ cryptPc' = "notify"
  /\ UNCHANGED <<netvars, mainvars, spawnvars, efd, running_threads, trigvars, tries,
                 execDone, devnode, findvars>>

(* Faulty variant: the thread ends without telling main.                   *)
CryptNotifyForgotten ==
  /\ Running /\ cryptPc = "notify"
  /\ cryptPc' = "gone"
  /\ UNCHANGED <<netvars, mainvars, spawnvars, efd, running_threads, trigvars,
                 cryptsetup_running, tries, execDone, devnode, findvars>>

CryptNotify ==
  /\ Running /\ cryptPc = "notify"
  /\ notify_main /\ cryptPc' = "gone"
  /\ UNCHANGED <<netvars, mainvars, spawnvars, running_threads, trigvars,
                 cryptsetup_running, tries, execDone, devnode, findvars>>

-----------------------------------------------------------------------------
(* What main does with a uevent.                                           *)

trigger_path(p) ==
  /\ running_threads' = TRUE
  /\ trigger_list' = Append(trigger_list, p)
  /\ trigPc' = IF trigPc = "wait" THEN "next" ELSE trigPc

(* start_mdadm, start_lvm2: a tool for a member of an array or volume.     *)
start_tool(m, d) ==
  CASE DevType[d] = "linux_raid_member" /\ UseMdadm ->
         spawn_command(m, [cmd |-> "mdadm", dev |-> d])
    [] DevType[d] = "LVM2_member" /\ UseLvm ->
         spawn_command(m, [cmd |-> "lvm", dev |-> d])
    [] OTHER -> m

(* searchdev for SEARCHDEVICE: a match wins; otherwise a file system is    *)
(* mounted and scanned, unless it is mounted already.                      *)
searchdev(d) ==
  IF HasSearch /\ d \in SearchDev THEN {"DEVICE"}
  ELSE IF ScanMedia /\ DevType[d] = "fs" /\ d \notin mounted THEN Content[d]
  ELSE {}

searchdev_starts(m, d) ==
  IF (HasSearch /\ d \in SearchDev) \/ ~(HasSearch \/ ScanMedia) THEN m ELSE start_tool(m, d)

(* searchdev for one of the crypt devices that has no node yet.            *)
crypt_wanted(r) == CryptOpt[r] # "unset" /\ ~devnode[r]

crypt_starts(m, d, r) ==
  IF crypt_wanted(r) /\ CryptOpt[r] # d THEN start_tool(m, d) ELSE m

crypt_found(d) == {r \in Role : crypt_wanted(r) /\ CryptOpt[r] = d}

crypt_ready(dn) ==
  dn["data"] /\ \A r \in {"header", "key"} : CryptOpt[r] # "unset" => dn[r]

founddev(f) ==
  /\ found' = found \cup f
  /\ \/ /\ "DEVICE" \in f \/ {"BOOTREPO", "APKOVL"} \subseteq f
        /\ timeout' = 0 /\ usb_storage_timeout' = 0
     \/ /\ ~("DEVICE" \in f \/ {"BOOTREPO", "APKOVL"} \subseteq f)
        /\ timeout' = IF "BOOTREPO" \in f /\ timeout # 0 THEN UeventTimeout ELSE timeout
        /\ UNCHANGED usb_storage_timeout

(* start_cryptsetup; a key command goes through the spawn manager.         *)
start_cryptsetup ==
  cryptsetup_running' = TRUE /\ running_threads' = TRUE /\ cryptPc' = "start"

start_key(m) ==
  IF CryptOpt["key"] = "exec" THEN spawn_command(m, [cmd |-> "exec", dev |-> NoTask]) ELSE m

(* Faulty variant: "found just now" is forgotten.                          *)
search_cryptdevs_again(d, dn) == crypt_ready(dn)

(* search_cryptdevs: a device was found just now and none is missing.      *)
search_cryptdevs(d, dn) == crypt_found(d) # {} /\ crypt_ready(dn)

devnodes_with(d) == [r \in Role |-> devnode[r] \/ r \in crypt_found(d)]

(* uevent_handle for a block device: what it spawns, starting from manager *)
(* m, and what it does to the rest of the state.                           *)
handle_spawns(m, d) ==
  LET m1 == searchdev_starts(m, d)
      m2 == crypt_starts(crypt_starts(crypt_starts(m1, d, "data"), d, "key"), d, "header")
  IN  IF searchdev(d) # {} THEN m1
      ELSE IF search_cryptdevs(d, devnodes_with(d)) THEN start_key(m2)
      ELSE m2

uevent_handle(d) ==
  /\ ~CryptHolds
  /\ mounted' = IF searchdev(d) \ {"DEVICE"} # {} THEN mounted \cup {d} ELSE mounted
  /\ \/ /\ searchdev(d) # {}
        /\ founddev(searchdev(d))
        /\ UNCHANGED <<cryptPc, cryptsetup_running, running_threads, devnode>>
     \/ /\ searchdev(d) = {}
        /\ devnode' = devnodes_with(d)
        /\ IF search_cryptdevs(d, devnodes_with(d))
           THEN start_cryptsetup
           ELSE UNCHANGED <<cryptPc, cryptsetup_running, running_threads>>
        /\ UNCHANGED <<timeout, usb_storage_timeout, found>>

-----------------------------------------------------------------------------
(* The main loop: poll, then the socket, the signalfd and the eventfd in   *)
(* this order, each looked at only if poll reported it.                    *)

Ready == {x \in {"netlink", "signal", "eventfd"} :
            \/ x = "netlink" /\ netlink # <<>>
            \/ x = "signal" /\ sigchld
            \/ x = "eventfd" /\ efd}

Poll ==
  /\ mainPc = "poll" /\ Ready # {}
  /\ revents' = Ready /\ mainPc' = "netlink"
  /\ UNCHANGED <<netvars, ev, spawnvars, efd, running_threads, trigvars, cryptvars, findvars>>

(* poll returns 0: only when it was given a finite timeout.                *)
may_time_out == ~spawn_active(mgr) /\ ~running_threads

PollTimeout ==
  /\ mainPc = "poll" /\ Ready = {} /\ may_time_out
  /\ mainPc' = IF found # {} \/ NotFoundOk THEN "exit" ELSE "failed"
  /\ UNCHANGED <<netvars, revents, ev, spawnvars, efd, running_threads, trigvars, cryptvars,
                 findvars>>

NoNetlink ==
  /\ mainPc = "netlink" /\ "netlink" \notin revents
  /\ mainPc' = "signal"
  /\ UNCHANGED <<netvars, revents, ev, spawnvars, efd, running_threads, trigvars, cryptvars,
                 findvars>>

(* recvmsg fails with ENOBUFS.                                             *)
RecvOverrun ==
  /\ mainPc = "netlink" /\ "netlink" \in revents /\ overrun
  /\ mainPc' = "failed"
  /\ UNCHANGED <<netvars, revents, ev, spawnvars, efd, running_threads, trigvars, cryptvars,
                 findvars>>

Recv(e) ==
  /\ mainPc = "netlink" /\ "netlink" \in revents /\ ~overrun
  /\ e = Head(netlink)
  /\ netlink' = Tail(netlink)
  /\ UNCHANGED <<overrun, revents, exited, sigchld, efd, entry, todo, spurious, tries,
                 execDone, devnode, cryptPc, cryptsetup_running, timeout, found, mounted>>

(* A message of the wrong size or sender: the rest of the iteration is     *)
(* skipped.                                                                *)
RecvNoise ==
  /\ \E e \in Noise : Recv(e)
  /\ mainPc' = "poll"
  /\ UNCHANGED <<kpending, ev, mgr, running_threads, trigger_list, trigPc, usb_storage_timeout>>

RecvFiltered ==
  /\ \E e \in Filtered \ Noise : Recv(e)
  /\ mainPc' = "signal"
  /\ UNCHANGED <<kpending, ev, mgr, running_threads, trigger_list, trigPc, usb_storage_timeout>>

RecvBus ==
  /\ \E b \in Bus \ Filtered : Recv(b) /\ trigger_path(b)
  /\ mainPc' = "signal"
  /\ UNCHANGED <<kpending, ev, mgr, usb_storage_timeout>>

(* load_kmod; the devices the driver finds are announced later.            *)
RecvModalias ==
  /\ \E m \in Module \ Filtered :
       /\ Recv(m)
       /\ kpending' = kpending \cup Emits[m]
       /\ usb_storage_timeout' =
            IF m \in UsbStorage THEN USB_STORAGE_TIMEOUT ELSE usb_storage_timeout
  /\ mainPc' = "signal"
  /\ UNCHANGED <<ev, mgr, running_threads, trigger_list, trigPc>>

(* A uevent with a DEVNAME goes to the event handler, or straight to       *)
(* uevent_handle, which ignores all but block devices.                     *)
RecvDevname ==
  /\ \E d \in (Dev \cup Char) \ Filtered :
       /\ Recv(d)
       /\ \/ /\ Program
             /\ mgr' = spawn_command(mgr, [cmd |-> "mdev", dev |-> d])
             /\ mainPc' = "signal" /\ UNCHANGED ev
          \/ /\ ~Program /\ d \in Dev
             /\ mainPc' = "handle" /\ ev' = d /\ UNCHANGED mgr
          \/ /\ ~Program /\ d \in Char
             /\ mainPc' = "signal" /\ UNCHANGED <<ev, mgr>>
  /\ UNCHANGED <<kpending, running_threads, trigger_list, trigPc, usb_storage_timeout>>

Handle ==
  /\ mainPc = "handle"
  /\ uevent_handle(ev) /\ mgr' = handle_spawns(mgr, ev)
  /\ mainPc' = "signal" /\ ev' = NoTask
  /\ UNCHANGED <<netvars, revents, exited, sigchld, efd, trigvars, tries, execDone>>

(* The signalfd is emptied before the zombies are collected.               *)
Signal ==
  /\ mainPc = "signal"
  /\ \/ "signal" \in revents /\ sigchld' = FALSE /\ mainPc' = "reap"
     \/ "signal" \notin revents /\ mainPc' = "eventfd" /\ UNCHANGED sigchld
  /\ UNCHANGED <<netvars, revents, ev, mgr, exited, efd, running_threads, trigvars, cryptvars,
                 findvars>>

(* spawn_reap of one child, with its done callback uevent_mdev_done_cb.    *)
Reap ==
  /\ mainPc = "reap"
  /\ \E p \in exited :
       LET t == mgr.running[p]
           m == spawn_release(mgr, p)
       IN  /\ exited' = exited \ {p}
           /\ \/ /\ t.cmd = "mdev" /\ t.dev \in Dev
                 /\ uevent_handle(t.dev)
                 /\ mgr' = spawn_dequeue(handle_spawns(m, t.dev))
              \/ /\ ~(t.cmd = "mdev" /\ t.dev \in Dev)
                 /\ mgr' = spawn_dequeue(m)
                 /\ UNCHANGED <<cryptPc, cryptsetup_running, running_threads, devnode, findvars>>
  /\ UNCHANGED <<netvars, mainvars, sigchld, efd, trigvars, tries, execDone>>

ReapDone ==
  /\ mainPc = "reap" /\ exited = {}
  /\ mainPc' = "eventfd"
  /\ UNCHANGED <<netvars, revents, ev, spawnvars, efd, running_threads, trigvars, cryptvars,
                 findvars>>

(* The eventfd is read first; what it announced is looked up afterwards.   *)
ReadEventfd ==
  /\ mainPc = "eventfd"
  /\ \/ "eventfd" \in revents /\ efd' = FALSE /\ mainPc' = "update"
     \/ "eventfd" \notin revents /\ mainPc' = "poll" /\ UNCHANGED efd
  /\ UNCHANGED <<netvars, revents, ev, spawnvars, running_threads, trigvars, cryptvars,
                 findvars>>

(* Faulty variant: the cryptsetup thread is not looked at.                 *)
UpdateRunningListOnly ==
  /\ mainPc = "update"
  /\ running_threads' = (trigger_list # <<>>)
  /\ mainPc' = "poll"
  /\ UNCHANGED <<netvars, revents, ev, spawnvars, efd, trigvars, cryptvars, findvars>>

(* Faulty variant: the directories still to be walked are not looked at.   *)
UpdateRunningCryptOnly ==
  /\ mainPc = "update"
  /\ running_threads' = cryptsetup_running
  /\ mainPc' = "poll"
  /\ UNCHANGED <<netvars, revents, ev, spawnvars, efd, trigvars, cryptvars, findvars>>

UpdateRunning ==
  /\ mainPc = "update"
  /\ running_threads' = (trigger_list # <<>> \/ cryptsetup_running)
  /\ mainPc' = "poll"
  /\ UNCHANGED <<netvars, revents, ev, spawnvars, efd, trigvars, cryptvars, findvars>>

(* sighandler: SIGTERM and its like end the process wherever it is.        *)
Killed ==
  /\ Running
  /\ mainPc' = "killed"
  /\ UNCHANGED <<netvars, revents, ev, spawnvars, efd, running_threads, trigvars, cryptvars,
                 findvars>>

(* The process is gone.                                                    *)
Exited == ~Running /\ UNCHANGED vars

Kernel  == KernelEmit \/ ChildExit
Trigger == TriggerNext \/ TriggerScan
Crypt   == CryptStart \/ CryptKey \/ CryptAsk \/ CryptPassphrase \/ CryptFinish \/ CryptNotify
Main    == \/ Poll \/ PollTimeout
           \/ NoNetlink \/ RecvOverrun \/ RecvNoise \/ RecvFiltered \/ RecvBus \/ RecvModalias
           \/ RecvDevname \/ Handle
           \/ Signal \/ Reap \/ ReapDone
           \/ ReadEventfd \/ UpdateRunning

Next == Kernel \/ Trigger \/ SpuriousWakeup \/ Crypt \/ Main \/ Killed \/ Exited

(* Every thread and every child is scheduled, and the operator answers the *)
(* passphrase prompt.                                                      *)
Fairness ==
  WF_vars(KernelEmit) /\ WF_vars(ChildExit) /\ WF_vars(Trigger) /\ WF_vars(Crypt) /\ WF_vars(Main)

Spec     == Init /\ [][Next]_vars
FairSpec == Spec /\ Fairness

-----------------------------------------------------------------------------
(* Main never waits for a wakeup that nobody will send.  While it polls    *)
(* without a timeout because of running_threads, a thread is still at      *)
(* work, or the eventfd tells that the last one has finished; the trigger  *)
(* thread never sleeps on a list that is not empty; and no zombie is       *)
(* forgotten; and recvmsg never blocks on an empty socket (trigger_thread,  *)
(* cryptsetup_thread, the fds[0], fds[1] and fds[2] branches of main).     *)
NoLostWakeup ==
  /\ Running /\ running_threads =>
       \/ efd \/ mainPc = "update"
       \/ trigPc # "wait" \/ cryptPc \notin {"off", "gone"}
  /\ trigPc = "wait" => trigger_list = <<>>
  /\ Running /\ exited # {} => sigchld \/ mainPc = "reap"
  /\ mainPc = "netlink" /\ "netlink" \in revents => netlink # <<>>

(* The program gives up by timeout only when all is quiet: no directory is *)
(* being walked or waits for it, the cryptsetup thread is done with the    *)
(* mutexes and the blkid cache that main destroys next, and no child runs  *)
(* or is queued (the timeout argument of poll in main).                    *)
QuietExit ==
  [][mainPc = "poll" /\ mainPc' \in {"exit", "failed"} =>
       /\ trigger_list = <<>> /\ trigPc # "scan"
       /\ cryptPc \in {"off", "notify", "gone"}
       /\ Alive(mgr) = {} /\ mgr.queue = <<>>]_vars

(* A command waits in the spawn queue only while every slot is taken, and  *)
(* num_running counts the children that are not reaped.                    *)
WorkConserving ==
  /\ mgr.queue # <<>> => mgr.num_running = MaxRunning
  /\ mgr.num_running = Cardinality(Alive(mgr))

(* cryptsetup is started once, when the last of its devices shows up       *)
(* ("Only start cryptsetup once when we found the last device").           *)
CryptOnce ==
  [][cryptPc' = "start" /\ (cryptPc # "start" \/ devnode' # devnode) =>
       /\ cryptPc = "off"
       /\ \A r \in Role : CryptOpt[r] # "unset" => devnode'[r]]_vars

(* Coldplug is complete: when the program ends without a buffer overrun,   *)
(* every device the walk of /class replayed has been looked at, whatever   *)
(* the order of events, handlers and threads.                              *)
ColdplugComplete ==
  mainPc \in {"exit", "failed"} /\ ~overrun =>
    \A d \in (Emits["/class"] \cap Dev) \ Filtered :
      IF HasSearch /\ d \in SearchDev THEN "DEVICE" \in found
      ELSE ScanMedia /\ DevType[d] = "fs" => Content[d] \subseteq found

(* With a finite supply of devices the program ends.                       *)
Termination == <>~Running

(* "it specifies a command without arguments that is executed and the      *)
(* stdout used as key" (option -k EXEC=): unless the program is ended, the *)
(* command does run once the cryptsetup thread waits for its output.       *)
KeyCommandRuns == cryptPc = "key" /\ CryptOpt["key"] = "exec" ~> execDone \/ ~Running
=============================================================================
