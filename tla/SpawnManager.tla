---------------------------- MODULE SpawnManager ----------------------------
(***************************************************************************)
(* The child-process manager of nlplug-findfs: at most max_running         *)
(* children at a time, later commands wait in a FIFO queue.  The manager   *)
(* is a record                                                             *)
(*     [num_running, queue, running]                                       *)
(* and its functions are operators from a manager to a manager; the only   *)
(* caller is the main thread, so each call is one atomic change.           *)
(***************************************************************************)
EXTENDS Integers, Sequences, FiniteSets

CONSTANTS
  NoTask,       \* an unused slot of the pid table
  MaxRunning    \* mgr->max_running: the number of processors online

ASSUME SpawnAssumption == MaxRunning \in Nat \ {0}

(* Pids that may be in use at once: a pid is reused only after waitpid.    *)
Pid == 1..MaxRunning

Manager(Task) ==
  [num_running : Int, queue : Seq(Task), running : [Pid -> Task \cup {NoTask}]]

Alive(m) == {p \in Pid : m.running[p] # NoTask}

spawn_init == [num_running |-> 0, queue |-> <<>>, running |-> [p \in Pid |-> NoTask]]

(* fork and exec; the kernel hands out a pid that is not in use.           *)
spawn_execute(m, t) ==
  LET pid == CHOOSE p \in Pid : m.running[p] = NoTask
  IN  [m EXCEPT !.running[pid] = t, !.num_running = @ + 1]

spawn_command(m, t) ==
  IF m.num_running < MaxRunning
  THEN spawn_execute(m, t)
  ELSE [m EXCEPT !.queue = Append(@, t)]

(* First half of spawn_reap: the slot is given back before the task's done *)
(* callback runs, so a command the callback spawns overtakes the queue.    *)
spawn_release(m, pid) ==
  [m EXCEPT !.running[pid] = NoTask, !.num_running = @ - 1]

(* Faulty variant: nothing is taken from the queue.                        *)
spawn_dequeue_never(m) == m

(* Second half of spawn_reap: one queued command is started.               *)
spawn_dequeue(m) ==
  IF m.queue # <<>> /\ m.num_running < MaxRunning
  THEN spawn_execute([m EXCEPT !.queue = Tail(@)], Head(m.queue))
  ELSE m

spawn_active(m) == m.num_running # 0 \/ m.queue # <<>>
=============================================================================
