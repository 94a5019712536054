----------------------------- MODULE ApkProcess -----------------------------
(***************************************************************************)
(* Child processes of apk (process.c): package scripts and commit hooks    *)
(* ("script"), uvol with its input ("feed") and the wget that stands in    *)
(* for libfetch ("stream").  apk holds one end of three pipes, the child   *)
(* the others; apk waits in poll() for any of the three, the child blocks  *)
(* in its own read() and write().  A pipe holds PrPipe bytes, a line       *)
(* buffer PrBuf.  A child is a program: a sequence of single byte reads    *)
(* and writes and the status it ends with.  apk logs what the child writes *)
(* line by line.                                                           *)
(***************************************************************************)
EXTENDS Integers, Sequences, SequencesExt, FiniteSets

CONSTANTS
  PrPrograms,   \* [kind, ops, exit, feed, feedFails]: a child and its input
  PrPipe,       \* bytes a pipe holds
  PrBuf,        \* bytes of a line buffer (1022 in apk_process.h)
  PrReadSize,   \* bytes the reader of a "stream" asks for
  PrMaxNoPipe,  \* pipe2() calls that may fail
  PrMaxNoFork   \* fork() and posix_spawnp() calls that may fail

ASSUME PrAssumption ==
  /\ PrPipe \in Nat \ {0} /\ PrBuf \in Nat \ {0} /\ PrReadSize \in Nat \ {0}
  /\ PrMaxNoPipe \in Nat /\ PrMaxNoFork \in Nat
  /\ \A g \in PrPrograms :
       /\ g.kind \in {"script", "feed", "stream"}
       /\ g.kind # "feed" => g.feed = 0
       /\ \A i \in DOMAIN g.ops : g.ops[i].fd \in {"in", "out", "err"}

VARIABLE pr

PrFd == {"in", "out", "err"}
PrLF == "\n"
PrRunning == -1
PrKilled == -2
PrUnborn == -3
PrIdle == [pc |-> "idle"]

-----------------------------------------------------------------------------
(* Lines                                                                   *)

\* sanitize_prefix: a leading "* " (or a lone "*") is dropped.
sanitize_prefix(line) ==
  IF line # << >> /\ Head(line) = "*" /\ (Len(line) > 1 => line[2] = " ")
  THEN SubSeq(line, 3, Len(line)) ELSE line

PrBreaks(text) == {i \in DOMAIN text : text[i] = PrLF}

\* The complete lines of a text, without their line feeds.
PrLines(text) ==
  LET ends == SetToSortSeq(PrBreaks(text), LAMBDA x, y : x < y)
      line(k) == SubSeq(text, IF k = 1 THEN 1 ELSE ends[k - 1] + 1, ends[k] - 1)
  IN  [k \in DOMAIN ends |-> line(k)]

\* What follows the last line feed.
PrRest(text) ==
  LET ends == PrBreaks(text)
  IN  IF ends = {} THEN text
      ELSE SubSeq(text, 1 + (CHOOSE i \in ends : \A j \in ends : j <= i), Len(text))

PrSanitized(lines) == [i \in DOMAIN lines |-> sanitize_prefix(lines[i])]

\* Bytes one read() into the room left in the line buffer takes.
PrTaken(p, fd) ==
  LET room == PrBuf - Len(p.buf[fd])
  IN  IF Len(p.pipe[fd]) < room THEN Len(p.pipe[fd]) ELSE room

\* A mistake PrLogged and PrNoBrokenPipe must notice: a read without a line feed
\* ends the stream.
buf_process_lines(p, fd) ==
  LET n    == PrTaken(p, fd)
      text == p.buf[fd] \o SubSeq(p.pipe[fd], 1, n)
  IN  [p EXCEPT !.pipe[fd] = SubSeq(@, n + 1, Len(@)),
                !.buf[fd]  = PrRest(text),
                !.log[fd]  = @ \o PrSanitized(PrLines(text)),
                !.ours     = IF PrBreaks(text) # {} THEN @ ELSE @ \ {fd}]

\* buf_process: the complete lines read are logged.  A read of nothing ends the
\* stream: the rest is logged and the descriptor closed.  With a full buffer
\* the room is zero, so a line longer than the buffer also reads nothing.
buf_process(p, fd) ==
  LET n    == PrTaken(p, fd)
      text == p.buf[fd] \o SubSeq(p.pipe[fd], 1, n)
      rest == PrRest(text)
      last == IF n = 0 /\ rest # << >> THEN <<sanitize_prefix(rest)>> ELSE << >>
  IN  [p EXCEPT !.pipe[fd] = SubSeq(@, n + 1, Len(@)),
                !.buf[fd]  = IF n > 0 THEN rest ELSE << >>,
                !.log[fd]  = @ \o PrSanitized(PrLines(text)) \o last,
                !.ours     = IF n > 0 THEN @ ELSE @ \ {fd}]

-----------------------------------------------------------------------------
(* Starting a child                                                        *)

\* apk_process_init: three pipes.  Without an input the write end of stdin is
\* closed at once; when a later pipe2() fails, those before it are closed.
apk_process_init(g, failed) ==
  LET p == [pc |-> "spawn", prog |-> g, at |-> 1, status |-> PrRunning,
            ours |-> {"out", "err"} \cup (IF g.kind = "feed" THEN {"in"} ELSE {}),
            theirs |-> PrFd,
            pipe |-> [f \in PrFd |-> << >>], buf |-> [f \in PrFd |-> << >>],
            log |-> [f \in PrFd |-> << >>], wrote |-> [f \in PrFd |-> << >>],
            ready |-> {}, hurt |-> FALSE, fed |-> 0, blob |-> 0, is_eof |-> FALSE,
            got |-> << >>, eof |-> FALSE, ret |-> "none"]
  IN  IF ~failed THEN p
      ELSE [p EXCEPT !.pc = "done", !.ours = {}, !.theirs = {}, !.status = PrUnborn,
                     !.ret = "errno"]

PrStart ==
  /\ pr.pc = "idle"
  /\ \E g \in PrPrograms, failed \in {b \in BOOLEAN : b => PrMaxNoPipe > 0} :
       pr' = apk_process_init(g, failed)

\* apk_process_fork for a script, apk_process_spawn for uvol and wget.  apk
\* closes the child's ends; after a fork() that failed it closes nothing, after
\* a posix_spawnp() that failed it keeps its own ends.
PrSpawn ==
  /\ pr.pc = "spawn"
  /\ \/ pr' = [pr EXCEPT !.pc = IF pr.prog.kind = "stream" THEN "read" ELSE "poll"]
     \/ /\ PrMaxNoFork > 0
        /\ pr' = [pr EXCEPT !.pc = "done", !.status = PrUnborn, !.ret = "error",
                            !.theirs = IF pr.prog.kind = "script" THEN @ ELSE {}]

-----------------------------------------------------------------------------
(* The loop around poll()                                                  *)

PrReadable(fd) == fd \in pr.ours /\ (pr.pipe[fd] # << >> \/ fd \notin pr.theirs)

\* What poll() reports: "in" is POLLOUT alone, "broken" POLLERR.
PrEvents ==
  {fd \in {"out", "err"} : PrReadable(fd)}
  \cup {e \in {"in"} : e \in pr.ours \cap pr.theirs /\ Len(pr.pipe["in"]) < PrPipe}
  \cup {e \in {"broken"} : "in" \in pr.ours \ pr.theirs}

\* A mistake PrTermination must notice: stderr is read once stdout is closed.
PrPollOutFirst ==
  /\ pr.pc = "poll" /\ pr.ours # {}
  /\ LET e == IF "out" \in pr.ours THEN PrEvents \ {"err"} ELSE PrEvents
     IN  /\ e # {}
         /\ pr' = [pr EXCEPT !.ready = e, !.pc = "out"]

PrPoll ==
  /\ pr.pc = "poll" /\ pr.ours # {}
  /\ PrEvents # {}
  /\ pr' = [pr EXCEPT !.ready = PrEvents, !.pc = "out"]

PrHandleOut ==
  /\ pr.pc = "out"
  /\ pr' = [(IF "out" \in pr.ready /\ pr.prog.kind # "stream"
             THEN buf_process(pr, "out") ELSE pr) EXCEPT !.pc = "err"]

PrHandleErr ==
  /\ pr.pc = "err"
  /\ pr' = [(IF "err" \in pr.ready THEN buf_process(pr, "err") ELSE pr) EXCEPT !.pc = "in"]

\* The next piece of the input when the last one is written; its end (or its
\* error) closes stdin, so does a write() nobody will read.
PrFeed(p) ==
  LET left  == p.prog.feed - p.fed
      blob  == IF p.blob # 0 THEN p.blob ELSE IF left < PrReadSize THEN left ELSE PrReadSize
      room  == PrPipe - Len(p.pipe["in"])
      n     == IF blob < room THEN blob ELSE room
      close == [p EXCEPT !.ours = @ \ {"in"}]
  IN  IF blob = 0 THEN [close EXCEPT !.is_eof = ~p.prog.feedFails]
      ELSE IF "in" \notin p.theirs THEN close
      ELSE [p EXCEPT !.fed = @ + n, !.blob = blob - n,
                     !.pipe["in"] = @ \o [i \in 1..n |-> "x"]]

\* stdin, and the return to a reader that stdout is ready for.
PrHandleIn ==
  /\ pr.pc = "in"
  /\ LET p == IF "in" \in pr.ready THEN PrFeed(pr)
              ELSE IF "broken" \in pr.ready THEN [pr EXCEPT !.ours = @ \ {"in"}] ELSE pr
     IN  pr' = [p EXCEPT !.pc = IF pr.prog.kind = "stream" /\ "out" \in pr.ready
                                THEN "copy" ELSE "poll",
                         !.ready = {}]

\* The loop ends when apk holds no descriptor any more.
PrLoopEnds ==
  /\ pr.pc = "poll" /\ pr.ours = {}
  /\ pr' = [pr EXCEPT !.pc = "wait"]

-----------------------------------------------------------------------------
(* A child as an input stream                                              *)

process_read ==
  /\ pr.pc = "read" /\ ~pr.eof
  /\ pr' = [pr EXCEPT !.pc = "poll"]

PrCopy ==
  /\ pr.pc = "copy"
  /\ LET n == IF Len(pr.pipe["out"]) < PrReadSize THEN Len(pr.pipe["out"]) ELSE PrReadSize
     IN  pr' = [pr EXCEPT !.pc = "read", !.eof = (n = 0),
                          !.got = @ \o SubSeq(pr.pipe["out"], 1, n),
                          !.pipe["out"] = SubSeq(@, n + 1, Len(@))]

\* The reader may stop before the end.
process_close ==
  /\ pr.pc = "read"
  /\ pr' = [pr EXCEPT !.pc = "wait", !.ours = {}]

process_translate_status(status) ==
  CASE status = 0 -> "0" [] status = 3 -> "EIO" [] status = 4 -> "ENETUNREACH"
    [] status \in {5, 6} -> "EACCES" [] status = 7 -> "EPROTO"
    [] status = PrKilled -> "EFAULT" [] OTHER -> "APKE_REMOTE_IO"

PrResult(p) ==
  IF p.prog.kind = "stream" THEN process_translate_status(p.status)
  ELSE IF p.status # 0 THEN "-1"
  ELSE IF p.prog.kind = "feed" /\ ~p.is_eof THEN "-2" ELSE "0"

\* apk_process_cleanup: apk's ends are closed, the child is waited for.
apk_process_cleanup ==
  /\ pr.pc = "wait" /\ pr.status # PrRunning
  /\ pr' = [pr EXCEPT !.pc = "done", !.ret = PrResult(pr)]

-----------------------------------------------------------------------------
(* The child (external): its next read or write, or its end.  It inherits  *)
(* apk's ignored SIGPIPE, so a write that nobody reads fails and the child *)
(* goes on or gives up.                                                    *)

PrChild ==
  /\ pr.pc \notin {"idle", "spawn", "done"} /\ pr.status = PrRunning
  /\ IF pr.at > Len(pr.prog.ops)
     THEN pr' = [pr EXCEPT !.status = pr.prog.exit, !.theirs = {}]
     ELSE LET op == pr.prog.ops[pr.at]
          IN  IF op.fd = "in"
              THEN /\ pr.pipe["in"] # << >> \/ "in" \notin pr.ours
                   /\ pr' = [pr EXCEPT !.at = @ + 1,
                                       !.pipe["in"] = SubSeq(@, 2, Len(@))]
              ELSE IF op.fd \notin pr.ours
              THEN \/ pr' = [pr EXCEPT !.hurt = TRUE, !.at = @ + 1]
                   \/ pr' = [pr EXCEPT !.hurt = TRUE, !.status = 1, !.theirs = {}]
              ELSE /\ Len(pr.pipe[op.fd]) < PrPipe
                   /\ pr' = [pr EXCEPT !.at = @ + 1, !.pipe[op.fd] = Append(@, op.byte),
                                       !.wrote[op.fd] = Append(@, op.byte)]

PrInit == pr = PrIdle
PrStep == \/ PrSpawn \/ PrPoll \/ PrHandleOut \/ PrHandleErr \/ PrHandleIn \/ PrLoopEnds
          \/ process_read \/ PrCopy \/ process_close \/ apk_process_cleanup \/ PrChild
PrNext == PrStart \/ PrStep
PrSpec == PrInit /\ [][PrNext]_pr /\ WF_pr(PrStep)

-----------------------------------------------------------------------------
(* Properties                                                              *)

PrBorn == pr.pc # "idle" /\ pr.status # PrUnborn
PrSaid(fd) == PrLines(pr.wrote[fd])
              \o (IF PrRest(pr.wrote[fd]) = << >> THEN << >> ELSE <<PrRest(pr.wrote[fd])>>)
PrFits == \A fd \in {"out", "err"} : \A i \in DOMAIN PrSaid(fd) : Len(PrSaid(fd)[i]) < PrBuf

\* Pipes and line buffers stay within their sizes, apk and the child hold ends
\* of the three pipes only, and no more input is written than there is.
PrTypeOK ==
  pr.pc # "idle" =>
    /\ \A fd \in PrFd : Len(pr.pipe[fd]) <= PrPipe /\ Len(pr.buf[fd]) <= PrBuf
    /\ pr.ours \subseteq PrFd /\ pr.theirs \subseteq PrFd
    /\ pr.fed + pr.blob <= pr.prog.feed /\ pr.ready \subseteq PrFd \cup {"broken"}

\* Every line the script or uvol wrote, the unterminated last one included, is
\* in the log when apk_process_run returns, whatever the order in which poll()
\* and the child took turns, as long as every line is shorter than the buffer.
PrLogged ==
  pr.pc = "done" /\ PrBorn /\ pr.prog.kind # "stream" /\ PrFits =>
    \A fd \in {"out", "err"} : pr.log[fd] = PrSanitized(PrSaid(fd))

\* No write of a child fails: apk keeps reading until the child closes its end,
\* unless a line fills the buffer or the reader of a stream closed it early.
PrNoBrokenPipe ==
  PrBorn /\ pr.hurt /\ PrFits => pr.prog.kind = "stream" /\ "out" \notin pr.ours

\* Success means that the child ended with status 0, that all of its input was
\* written to it, and that a reader which saw the end of the stream has every
\* byte the child wrote (apk_process_cleanup, process_close).
PrZeroMeansDone ==
  pr.pc = "done" /\ pr.ret = "0" =>
    /\ pr.status = 0
    /\ pr.prog.kind = "feed" => pr.fed = pr.prog.feed /\ ~pr.prog.feedFails
    /\ pr.eof => pr.got = pr.wrote["out"]

\* apk and the child never wait for each other forever: every child that is
\* started is waited for and its result returned.
PrTermination == []<>(pr.pc \in {"idle", "done"})

\* What running a child promises: all its output is logged, apk does not die of a broken
\* pipe, and result 0 means the child had all of its input.
PrCorrect ==
  pr.pc # "idle" =>
    PrTypeOK /\ PrLogged /\ PrNoBrokenPipe /\ PrZeroMeansDone
=============================================================================
