------------------------------ MODULE ApkOstream ------------------------------
(***************************************************************************)
(* apk's output files (io.c): the buffered fd stream and how it puts a     *)
(* finished file in place.  The data goes to an unnamed O_TMPFILE inode,   *)
(* linked as "<file>.tmp.<pid>" when the stream is closed, or else to      *)
(* "<file>.tmp" (apk_ostream_to_file) or "<file>.tmp.<pid>"                *)
(* (apk_ostream_to_file_safe) from the start; the last step is a rename.   *)
(* Several processes write the same file; only those that use the "safe"   *)
(* form do so without the database lock.  Writes may fail, and a process   *)
(* may be killed anywhere.                                                 *)
(***************************************************************************)
EXTENDS Integers, Sequences

CONSTANTS
  OsPid,       \* the pids of the writing processes
  OsBuffer,    \* sizeof fos->buffer, in units of data
  OsLen,       \* what each writer writes, in the same unit
  OsSizes,     \* the sizes of one write
  OsMaxOpens,  \* bound on the streams opened
  OsMaxFaults  \* bound on the failing system calls and the processes killed

ASSUME OsAssumption == OsPid \subseteq Nat \ {0} /\ {OsBuffer, OsLen} \subseteq Nat

VARIABLES
  osInode,     \* the contents of the inodes, by number
  osDir,       \* the directory: from names to inodes, 0 where there is none
  osStream,    \* the stream of each process
  osBudget     \* streams, failures and kills so far, and what failing renames left

osVars == <<osInode, osDir, osStream, osBudget>>

\* Names: the file itself, "<file>.tmp" (0) and "<file>.tmp.<id>"; a process tries the ids from
\* its pid upwards.
File == -1
OsNames == {File} \cup 0 .. (OsMaxOpens + CHOOSE p \in OsPid : \A q \in OsPid : q <= p)

OsClosed == [pc |-> "closed", safe |-> FALSE, tmpfile |-> FALSE, tmpid |-> 0, ino |-> 0, id |-> 0,
             off |-> 0, sent |-> 0, bytes |-> 0, rc |-> 0, failed |-> FALSE]

\* The complete data of stream number i; a unit of data knows its stream and its place in it.
OsWhole(i) == [k \in 1 .. OsLen |-> <<i, k>>]

\* The file is as some earlier command, stream number 0, left it.
OsInit ==
  /\ osInode = <<OsWhole(0)>>
  /\ osDir = [n \in OsNames |-> IF n = File THEN 1 ELSE 0]
  /\ osStream = [p \in OsPid |-> OsClosed]
  /\ osBudget = [opens |-> 0, fail |-> 0, kill |-> 0, kept |-> {}]

OsSet(p, r) == osStream' = [osStream EXCEPT ![p] = r]
OsFails ==
  /\ osBudget.fail + osBudget.kill < OsMaxFaults
  /\ osBudget' = [osBudget EXCEPT !.fail = @ + 1]

\* apk_ostream_cancel: the first error stays.
OsCancelled(r) == [r EXCEPT !.rc = -1, !.failed = TRUE]

\* The first unused "<file>.tmp.<id>" from the pid upwards.
OsFree(p) == CHOOSE id \in OsNames :
               /\ id >= p /\ osDir[id] = 0
               /\ \A j \in p .. (id - 1) : osDir[j] # 0

-----------------------------------------------------------------------------
\* __apk_ostream_to_file.  The plain form uses one name, and truncates what it finds there; the
\* mutated form takes "<file>.tmp" for both.
OsOpenTmpShared(p, safe) == 0

OsOpenTmp(p, safe) == IF safe THEN OsFree(p) ELSE 0

OsOpen(p, safe, tmpfile) ==
  LET id == OsOpenTmp(p, safe)
      old == IF tmpfile THEN 0 ELSE osDir[id]
      ino == IF old = 0 THEN Len(osInode) + 1 ELSE old
  IN  /\ osStream[p].pc = "closed"
      /\ osBudget.opens < OsMaxOpens
      /\ safe \/ \A q \in OsPid : osStream[q].pc = "closed" \/ osStream[q].safe
      /\ osInode' = IF old = 0 THEN Append(osInode, <<>>) ELSE [osInode EXCEPT ![old] = <<>>]
      /\ osDir' = IF tmpfile THEN osDir ELSE [osDir EXCEPT ![id] = ino]
      /\ OsSet(p, [OsClosed EXCEPT !.pc = "open", !.safe = safe, !.tmpfile = tmpfile,
                                   !.tmpid = IF tmpfile THEN 0 ELSE id, !.ino = ino,
                                   !.id = osBudget.opens + 1])
      /\ osBudget' = [osBudget EXCEPT !.opens = @ + 1]

\* write(2) of n units, from the oldest one in the buffer on, at the file offset of the stream;
\* a file that another process has truncated gets a hole.
OsPut(r, n) ==
  LET new == [k \in 1 .. n |-> <<r.id, r.sent - r.bytes + k>>]
      was == osInode[r.ino]
  IN  [osInode EXCEPT ![r.ino] =
         [k \in 1 .. (IF r.off + n > Len(was) THEN r.off + n ELSE Len(was)) |->
            IF k > r.off /\ k <= r.off + n THEN new[k - r.off]
            ELSE IF k <= Len(was) THEN was[k] ELSE <<0, 0>>]]

\* fdo_write: flush when the buffer cannot take the data, then write a large piece directly.
OsNeedsFlush(r, n) == n + r.bytes >= OsBuffer
OsDirect(r, n) == OsNeedsFlush(r, n) /\ 2 * n >= OsBuffer

OsOut(r, n) == (IF OsNeedsFlush(r, n) THEN r.bytes ELSE 0) + (IF OsDirect(r, n) THEN n ELSE 0)

OsWrite(p, n) ==
  LET r == osStream[p]
      out == OsOut(r, n)
  IN  /\ r.pc = "open" /\ r.rc = 0
      /\ r.sent + n <= OsLen
      /\ osInode' = OsPut(r, out)
      /\ OsSet(p, [r EXCEPT !.sent = @ + n, !.off = @ + out, !.bytes = @ + n - out])
      /\ UNCHANGED <<osDir, osBudget>>

\* apk_write_fully, of the buffer or of the piece, stops after done units: the stream is cancelled.
OsWriteFails(p, n) ==
  LET r == osStream[p]
  IN  /\ r.pc = "open" /\ r.rc = 0
      /\ r.sent + n <= OsLen
      /\ OsFails
      /\ \E done \in 0 .. (OsOut(r, n) - 1) :
           /\ osInode' = OsPut(r, done)
           /\ OsSet(p, OsCancelled([r EXCEPT !.off = @ + done]))
      /\ UNCHANGED osDir

\* The caller gives up: apk_stream_copy and tee_close cancel the stream when their source fails.
OsCancel(p) ==
  /\ osStream[p].pc = "open" /\ osStream[p].rc = 0
  /\ OsFails
  /\ OsSet(p, OsCancelled(osStream[p]))
  /\ UNCHANGED <<osInode, osDir>>

-----------------------------------------------------------------------------
\* fdo_close, one system call at a time.
OsFlushFailed(r) == OsCancelled(r)

OsFlush(p) ==
  LET r == osStream[p]
      next == IF r.tmpfile THEN "link" ELSE "fd"
  IN  /\ r.pc = "open" /\ (r.sent = OsLen \/ r.rc < 0)
      /\ \/ /\ osInode' = IF r.rc = 0 THEN OsPut(r, r.bytes) ELSE osInode
            /\ OsSet(p, [r EXCEPT !.pc = next, !.bytes = 0])
            /\ UNCHANGED osBudget
         \/ /\ r.rc = 0 /\ r.bytes > 0
            /\ OsFails
            /\ OsSet(p, [OsFlushFailed(r) EXCEPT !.pc = next])
            /\ UNCHANGED osInode
      /\ UNCHANGED osDir

\* linkat of the unnamed inode, cancelled or not; without a link there is nothing to unlink.
OsLink(p) ==
  LET r == osStream[p]
  IN  /\ r.pc = "link"
      /\ \/ /\ osDir' = [osDir EXCEPT ![OsFree(p)] = r.ino]
            /\ OsSet(p, [r EXCEPT !.pc = "fd", !.tmpid = OsFree(p)])
            /\ UNCHANGED osBudget
         \/ /\ OsFails
            /\ OsSet(p, [OsCancelled(r) EXCEPT !.pc = "fd", !.tmpid = File])
            /\ UNCHANGED osDir
      /\ UNCHANGED osInode

OsCloseFd(p) ==
  LET r == osStream[p]
  IN  /\ r.pc = "fd"
      /\ \/ OsSet(p, [r EXCEPT !.pc = "rename"]) /\ UNCHANGED osBudget
         \/ OsFails /\ OsSet(p, [OsCancelled(r) EXCEPT !.pc = "rename"])
      /\ UNCHANGED <<osInode, osDir>>

\* renameat, or unlinkat of a cancelled stream's temporary; the result of the close is r.rc.  A
\* renameat that fails is reported, and its temporary stays.
OsRename(p) ==
  LET r == osStream[p]
  IN  /\ r.pc = "rename"
      /\ osDir' = CASE r.rc = 0 -> [osDir EXCEPT ![File] = osDir[r.tmpid], ![r.tmpid] = 0]
                    [] r.rc < 0 /\ r.tmpid # File -> [osDir EXCEPT ![r.tmpid] = 0]
                    [] OTHER -> osDir
      /\ OsSet(p, [OsClosed EXCEPT !.rc = r.rc, !.failed = r.failed])
      /\ UNCHANGED <<osInode, osBudget>>

OsRenameFails(p) ==
  LET r == osStream[p]
  IN  /\ r.pc = "rename" /\ r.rc = 0
      /\ osBudget.fail + osBudget.kill < OsMaxFaults
      /\ osBudget' = [osBudget EXCEPT !.fail = @ + 1, !.kept = @ \cup {r.tmpid}]
      /\ OsSet(p, OsCancelled(OsClosed))
      /\ UNCHANGED <<osInode, osDir>>

OsKill(p) ==
  /\ osStream[p].pc # "closed"
  /\ osBudget.fail + osBudget.kill < OsMaxFaults
  /\ osBudget' = [osBudget EXCEPT !.kill = @ + 1]
  /\ OsSet(p, [OsClosed EXCEPT !.rc = -1])
  /\ UNCHANGED <<osInode, osDir>>

OsNext ==
  \E p \in OsPid :
    \/ \E safe, tmpfile \in BOOLEAN : OsOpen(p, safe, tmpfile)
    \/ \E n \in OsSizes : OsWrite(p, n) \/ OsWriteFails(p, n)
    \/ OsCancel(p)
    \/ OsFlush(p)
    \/ OsLink(p)
    \/ OsCloseFd(p)
    \/ OsRename(p)
    \/ OsRenameFails(p)
    \/ OsKill(p)

OsSpec == OsInit /\ [][OsNext]_osVars

-----------------------------------------------------------------------------
OsTypeOK ==
  /\ osDir \in [OsNames -> 0 .. Len(osInode)]
  /\ \A p \in OsPid : LET r == osStream[p]
                      IN  /\ r.ino \in 0 .. Len(osInode) /\ r.off \in 0 .. OsLen
                          /\ r.rc \in {0, -1} /\ r.bytes \in 0 .. (OsBuffer - 1)

\* Under its own name the file is always there and always whole, as the earlier command or one
\* stream wrote it from the first byte to the last: whatever fails, whoever else writes it at the
\* same time, wherever a process is killed.
OsFileWhole ==
  osDir[File] # 0 /\ \E i \in 0 .. osBudget.opens : osInode[osDir[File]] = OsWhole(i)

\* A close that returns 0 means that no write, flush, link or close of the stream has failed.
OsErrorReported ==
  \A p \in OsPid : osStream[p].pc = "closed" /\ osStream[p].rc = 0 => ~osStream[p].failed

\* When every stream is closed and no process was killed, no temporary is left behind but the one
\* of a rename that failed.
OsNoLitter ==
  (\A p \in OsPid : osStream[p].pc = "closed") /\ osBudget.kill = 0 =>
    \A n \in OsNames \ ({File} \cup osBudget.kept) : osDir[n] = 0

\* What a file output stream promises: under the name is the old or the new content whole,
\* an error is reported, no temporary file is left.
OsCorrect ==
  osBudget.opens > 0 =>
    OsTypeOK /\ OsFileWhole /\ OsErrorReported /\ OsNoLitter
=============================================================================
