------------------------------ MODULE ApkExtract ------------------------------
(***************************************************************************)
(* Reading a version 2 package or index (extract_v2.c) through the gzip    *)
(* multipart stream (io_gunzip.c).  The archive is a sequence of gzip      *)
(* members: signatures, control block, data.  The stream hands every       *)
(* compressed byte to apk_sign_ctx_mpart_cb and tells it where a member    *)
(* ends; the tar parser, fed by the same stream, tells the signing context *)
(* what the members contain.  Verification is right only when the two keep *)
(* in step, wherever the input chunks and the output buffer happen to end. *)
(*                                                                         *)
(* A tar entry is one unit of data and one unit of the compressed member,  *)
(* which also has a head and a tail unit.  The archive may have been       *)
(* damaged in one unit or truncated on its way.                            *)
(***************************************************************************)
EXTENDS Integers, Sequences, SequencesExt

CONSTANTS
  ExArchives,  \* set of archives: sequences of members, sequences of entries; "oldinfo" is a
               \* .PKGINFO without datahash
  ExRequests,  \* set of requests: <<action, hash of the key or "none", --allow-untrusted, whether a
               \* file operation was given>>
  ExChunk,     \* largest piece of input the underlying stream delivers
  ExOut        \* size of the gzip stream's buffer, in entries

ASSUME ExAssumption ==
  /\ {ExChunk, ExOut} \subseteq Nat \ {0}
  /\ ExRequests \subseteq {"VERIFY", "VERIFY_IDENTITY", "VERIFY_AND_GENERATE"}
                   \X {"none", "SHA1", "SHA256"} \X BOOLEAN \X BOOLEAN
  /\ \A a \in ExArchives : \A m \in DOMAIN a :
       \A i \in DOMAIN a[m] : a[m][i] \in {"sign", "pkginfo", "oldinfo", "script", "file",
                                     "desc", "index"}

VARIABLE ex

\* The compressed units of an archive: a member is a head, its entries and a tail.
ExMember(a, m) == << [m |-> m, k |-> "head"] >>
                  \o [i \in DOMAIN a[m] |-> [m |-> m, k |-> a[m][i]]]
                  \o << [m |-> m, k |-> "tail"] >>
ExUnits(a) == FlattenSeq([m \in DOMAIN a |-> ExMember(a, m)])
ExSize(a) == FoldLeft(LAMBDA n, m : n + Len(m) + 2, 0, a)
ExIsEntry(u) == u.k \notin {"head", "tail"}
ExHas(a, e) == \E m \in DOMAIN a : \E i \in DOMAIN a[m] : a[m][i] = e
ExIsPackage(a) == ExHas(a, "pkginfo") \/ ExHas(a, "oldinfo")

ExIdle == [pc |-> "idle"]
ExInit == ex = ExIdle

\* apk_sign_ctx_init and apk_istream_zlib.  The action is VERIFY for an index, VERIFY_IDENTITY
\* for a package named by an index, VERIFY_AND_GENERATE for a package file; a caller that only
\* wants the metadata has no file operation.
ExStart(a, action, key, allow, file, cut, bad) ==
  /\ action = "VERIFY" <=> ~ExIsPackage(a)
  /\ cut = ExSize(a) \/ bad = 0
  /\ ex' = [pc |-> "tar", a |-> a, u |-> ExUnits(a), action |-> action, key |-> key, file |-> file, cut |-> cut,
            bad |-> bad,
            start |-> 0, next |-> 0, avail |-> 0, prev |-> 0, arg |-> <<>>, torn |-> FALSE,
            zeof |-> FALSE, err |-> "ok",
            room |-> ExOut, out |-> <<>>, buf |-> <<>>,
            allow |-> allow, pkey |-> FALSE, sigbad |-> FALSE, control_started |-> FALSE,
            data_started |-> FALSE, has_data_checksum |-> FALSE, control_verified |-> FALSE,
            data_verified |-> FALSE, end_seen |-> FALSE, verify_error |-> "UNTRUSTED",
            alg |-> "SHA1", digest |-> [alg |-> "SHA1", data |-> <<>>], identity |-> <<>>,
            generated |-> <<>>, datahash |-> TRUE, is_package |-> FALSE, is_index |-> FALSE,
            files |-> <<>>, unverified |-> FALSE, result |-> "none"]

\* The numbers of the units of some members.  A package's signature, and its identity, cover
\* the control block, whose .PKGINFO has the hash of the data; an index's signature covers all
\* that follows it.
ExPart(s, from, to) == SelectSeq([n \in 1 .. Len(s.u) |-> n],
                                 LAMBDA n : s.u[n].m >= from /\ s.u[n].m <= to)
ExControl(s) == IF ExHas(s.a, "sign") THEN 2 ELSE 1
ExSigned(s) == ExPart(s, ExControl(s), IF ExHas(s.a, "pkginfo") THEN ExControl(s) ELSE Len(s.a))

\* What was hashed is just this part, undamaged.
ExIntact(s, q, part) == q = part /\ \A k \in DOMAIN q : q[k] # s.bad

(***************************************************************************)
(* apk_sign_ctx_mpart_cb.                                                  *)
(***************************************************************************)
ExOk(s) == [s |-> s, r |-> "ok"]
ExErr(s, e) == [s |-> s, r |-> e]

ExKeyTrust(s) == s.action = "VERIFY_IDENTITY" \/ s.pkey \/ s.allow

\* APK_MPART_DATA with the units q.
ExSpan(from, to) == [k \in 1 .. to - from |-> from + k]
ExDataCb(s, q) ==
  LET t == [s EXCEPT !.digest.data = @ \o q,
                     !.identity = IF s.control_started /\ ~s.data_started
                                    /\ s.action = "VERIFY_AND_GENERATE" THEN @ \o q ELSE @]
  IN IF s.end_seen \/ s.data_verified THEN ExErr(s, "FORMAT_INVALID") ELSE ExOk(t)

ExResetDigest(s) == [s EXCEPT !.identity = <<>>, !.digest = [alg |-> s.alg, data |-> <<>>]]

\* The end of the signatures: the control block is hashed with the signature's algorithm.
ExEndOfSignatures(s, part) ==
  IF part = "END" THEN ExErr(s, "FORMAT_INVALID") ELSE ExOk(ExResetDigest(s))

\* The end of a data block whose hash the control block has.
ExEndOfData(s) ==
  LET hashed == s.digest.alg = "SHA256" /\ s.datahash /\ ExIntact(s, s.digest.data, ExPart(s, Len(s.a), Len(s.a)))
      t == [s EXCEPT !.data_verified = TRUE]
  IN CASE ~hashed -> ExErr(s, "INTEGRITY")
       [] hashed /\ ~s.allow /\ ~s.control_verified -> ExErr(t, "UNTRUSTED")
       [] OTHER -> ExOk(t)

\* What is to be verified ends: the control block of a package, or the whole index.
ExSignature(s, part) ==
  LET signed == ExIntact(s, s.digest.data, ExSigned(s))
      generated == IF s.action = "VERIFY_AND_GENERATE" THEN s.identity ELSE s.generated
      error == CASE s.action = "VERIFY_IDENTITY" ->
                      IF s.digest.alg = "SHA1" /\ signed THEN "ok" ELSE "INTEGRITY"
                 [] s.action = "VERIFY_AND_GENERATE" /\ ~s.has_data_checksum -> "FORMAT"
                 [] s.pkey -> IF signed /\ ~s.sigbad THEN "ok" ELSE "SIGNATURE_INVALID"
                 [] OTHER -> s.verify_error
      passed == error = "ok" \/ (error = "UNTRUSTED" /\ s.allow)
      t == [s EXCEPT !.generated = generated,
                     !.verify_error = IF error \in {"INTEGRITY", "FORMAT"} THEN @ ELSE error,
                     !.control_verified = passed,
                     !.data_verified = passed /\ ~s.has_data_checksum /\ part = "END"]
  IN CASE ~ExKeyTrust(s) -> ExErr(s, "UNTRUSTED")
       [] ExKeyTrust(s) /\ ~passed -> ExErr(t, error)
       [] OTHER -> ExOk(ExResetDigest(t))

\* APK_MPART_BOUNDARY and APK_MPART_END.
ExPartCb(s0, part) ==
  LET s == [s0 EXCEPT !.end_seen = @ \/ part = "END"]
      t == [s EXCEPT !.data_started = TRUE]
  IN CASE \/ s0.end_seen \/ s0.data_verified
          \/ (part = "BOUNDARY" /\ s0.data_started) -> ExErr(s0, "FORMAT_INVALID")
       [] ~s.control_started -> ExEndOfSignatures(s, part)
       [] ~s.has_data_checksum /\ ~s.data_started /\ part # "END" -> ExOk(t)
       [] s.has_data_checksum /\ s.data_started -> ExEndOfData(s)
       [] OTHER -> ExSignature(t, part)

(***************************************************************************)
(* gzi_read, called when the buffer is empty and the tar parser wants an   *)
(* entry.                                                                  *)
(***************************************************************************)
\* The call returns: a short count is data, nothing at all the end of the stream.
ExReturns(s) == [s EXCEPT !.pc = "tar", !.buf = s.out, !.out = <<>>, !.room = ExOut,
                          !.err = IF @ = "ok" /\ s.out = <<>> THEN "eof" ELSE @]
ExFails(s, e) == [s EXCEPT !.pc = "tar", !.out = <<>>, !.room = ExOut,
                           !.err = IF @ \in {"ok", "eof"} THEN e ELSE @]
ExAt(s, pc) == [s EXCEPT !.pc = pc]

\* gzi_boundary_change: what is left of the finished member, then BOUNDARY, or END when the
\* underlying stream is at its end.
\* The mutated form does not look at the result.
ExBoundaryUnchecked(s) ==
  LET d == IF s.arg = <<>> THEN ExOk(s) ELSE ExDataCb(s, s.arg)
      ended == d.s.zeof /\ d.s.next = d.s.avail
      t == [d.s EXCEPT !.arg = <<>>, !.err = IF @ = "ok" /\ ended THEN "eof" ELSE @]
  IN ExOk(ExPartCb(t, IF t.err # "ok" THEN "END" ELSE "BOUNDARY").s)

ExBoundaryChange(s) ==
  LET d == IF s.arg = <<>> THEN ExOk(s) ELSE ExDataCb(s, s.arg)
      ended == d.s.zeof /\ d.s.next = d.s.avail
      t == [d.s EXCEPT !.arg = <<>>, !.err = IF @ = "ok" /\ ended THEN "eof" ELSE @]
  IN IF d.r # "ok" THEN d ELSE ExPartCb(t, IF t.err # "ok" THEN "END" ELSE "BOUNDARY")

\* apk_istream_fill calls gzi_read, unless the stream has ended.
ExFill ==
  /\ ex.pc = "tar" /\ ex.buf = <<>> /\ ex.err = "ok"
  /\ ex' = ExAt(ex, "loop")

\* The top of the loop: a boundary that an earlier read left behind.
ExLoop ==
  /\ ex.pc = "loop"
  /\ LET b == ExBoundaryChange(ex)
     IN ex' = CASE ex.room = 0 -> ExReturns(ex)
                [] ex.room > 0 /\ ex.arg = <<>> -> ExAt(ex, "input")
                [] ex.room > 0 /\ ex.arg # <<>> /\ b.r # "ok" -> ExFails(b.s, b.r)
                [] OTHER -> ExAt(b.s, "input")

\* gzi_read_more: the next piece of input, if there is one.  It is read to the front of the
\* buffer that the piece before is in.  cbarg points into that buffer: where it reaches into
\* what the new piece takes up, it now has the new piece's units.  A unit is larger than
\* APK_ISTREAM_ALIGN_SYNC.
ExOverwritten(s, n) ==
  [k \in DOMAIN s.arg |-> LET at == s.arg[k] - s.start
                          IN IF at <= n THEN s.next + at ELSE s.arg[k]]
ExReadMore(s, n) ==
  LET arg == ExOverwritten(s, n)
  IN IF s.next = s.cut THEN [s EXCEPT !.zeof = TRUE]
     ELSE [s EXCEPT !.avail = s.next + n, !.start = s.next, !.arg = arg,
                    !.torn = @ \/ (arg # s.arg /\ s.u[s.next].m >= ExControl(s))]
ExPieces(s) == IF s.next = s.cut THEN {0} ELSE {n \in 1 .. ExChunk : s.next + n <= s.cut}

\* The input buffer is used up: its bytes are hashed before it is filled again.
ExInput ==
  /\ ex.pc = "input"
  /\ LET d == IF ex.prev # ex.next THEN ExDataCb(ex, ExSpan(ex.prev, ex.next)) ELSE ExOk(ex)
         t == [d.s EXCEPT !.prev = ex.next]
     IN IF ex.next # ex.avail \/ ex.err # "ok" THEN ex' = ExAt(ex, "inflate")
        ELSE \E n \in ExPieces(t) :
               ex' = IF d.r = "ok" THEN ExAt(ExReadMore(t, n), "inflate") ELSE ExFails(d.s, d.r)

\* How far inflate gets: to the end of the member, of the input or of the output.
ExEntries(s, from, to) == SelectSeq(ExSpan(from, to),
                                    LAMBDA k : ExIsEntry(s.u[k]))
ExInflatable(s, n) ==
  /\ n <= s.avail
  /\ \A k \in s.next + 1 .. n - 1 : s.u[k].k # "tail"
  /\ Len(ExEntries(s, s.next, n)) <= s.room
ExInflated(s) == CHOOSE n \in s.next .. s.avail : ExInflatable(s, n) /\ ~ExInflatable(s, n + 1)

\* inflate, with the cases Z_OK, Z_BUF_ERROR and Z_STREAM_END.  At the end of a member the
\* boundary is left to the next read, unless the input is at its end and no data is returned.
ExInflate ==
  /\ ex.pc = "inflate"
  /\ LET n == ExInflated(ex)
         e == ExEntries(ex, ex.next, n)
         t == [ex EXCEPT !.next = n, !.out = @ \o e, !.room = @ - Len(e)]
         ended == n > ex.next /\ ex.u[n].k = "tail"
         u == [t EXCEPT !.arg = ExSpan(t.prev, n), !.prev = n]
     IN CASE n = ex.next -> ex' = ExReturns(ex)
          [] n > ex.next /\ ~ended -> ex' = ExAt(t, "loop")
          [] ended -> \E p \in (IF n = t.avail THEN ExPieces(t) ELSE {0}) :
               LET v == IF n = t.avail THEN ExReadMore(u, p) ELSE u
                   b == ExBoundaryChange(v)
                   last == v.next = v.avail /\ v.room = ExOut
               IN ex' = CASE last /\ b.r # "ok" -> ExFails(b.s, b.r)
                          [] last /\ b.r = "ok" -> ExAt(b.s, "loop")
                          [] ~last /\ v.room # ExOut -> ExReturns(v)
                          [] OTHER -> ExAt(v, "loop")

\* A damaged member that inflate refuses.
ExInflateError ==
  /\ ex.pc = "inflate"
  /\ ex.bad \in ex.next + 1 .. ex.avail
  /\ ex' = ExFails(ex, "FORMAT_INVALID")

(***************************************************************************)
(* apk_extract_v2_entry, for the next entry of the tar archive.            *)
(***************************************************************************)
\* The result.
ExDone(s, r) ==
  LET r1 == IF r \in {"ok", "ECANCELED", "EOF"} /\ ~s.is_package /\ ~s.is_index
              THEN "FORMAT_INVALID" ELSE r
      r2 == IF r1 = "ok" /\ (~s.data_verified \/ ~s.end_seen) THEN "INTEGRITY" ELSE r1
      r3 == IF r2 \in {"ok", "ECANCELED"} /\ s.verify_error # "ok" THEN s.verify_error ELSE r2
  IN [s EXCEPT !.pc = "done", !.result = IF r3 = "UNTRUSTED" /\ s.allow THEN "ok" ELSE r3]

\* apk_sign_ctx_process_file: "skip" is 0, "go" is 1.
ExHidden(k) == k \in {"sign", "pkginfo", "oldinfo", "script"}
ExProcessFile(s, k, n) ==
  LET started == [s EXCEPT !.data_started = TRUE, !.control_started = TRUE]
      usable == ~s.pkey /\ s.action # "VERIFY_IDENTITY" /\ s.key # "none"
  IN CASE s.data_started -> ExErr(s, "go")
       [] ~s.data_started /\ ~ExHidden(k) ->
            (CASE s.has_data_checksum \/ s.action = "VERIFY_IDENTITY" -> ExErr(s, "FORMAT")
               [] ~ExKeyTrust(s) -> ExErr(started, "UNTRUSTED")
               [] OTHER -> ExErr(started, "go"))
       [] ~s.data_started /\ ExHidden(k) /\ s.control_started -> ExErr(s, "go")
       [] ~s.control_started /\ ExHidden(k) /\ k # "sign" ->
            ExErr([s EXCEPT !.control_started = TRUE], "go")
       [] OTHER -> ExErr(IF usable THEN [s EXCEPT !.pkey = TRUE, !.alg = s.key,
                                                  !.sigbad = n = s.bad] ELSE s, "skip")

\* apk_extract_v2_meta, apk_extract_v2_control: the data hash of the control block.
ExPkginfo(s, n) ==
  IF ~s.control_started \/ s.data_started THEN s
  ELSE [s EXCEPT !.has_data_checksum = TRUE, !.alg = "SHA256", !.datahash = n # s.bad]

ExEntry ==
  /\ ex.pc = "tar" /\ ex.buf # <<>>
  /\ LET n == Head(ex.buf)
         k == ex.u[n].k
         p == ExProcessFile([ex EXCEPT !.buf = Tail(@)], k, n)
         s == p.s
         meta == ~s.data_started \/ ~s.has_data_checksum
         pkg == [s EXCEPT !.is_package = TRUE]
         ndx == [s EXCEPT !.is_index = TRUE]
     IN ex' = CASE p.r = "skip" -> s
                [] p.r \notin {"skip", "go"} -> ExDone(s, p.r)
                [] p.r = "go" /\ meta /\ ExHidden(k) ->
                     (CASE s.is_index -> ExDone(pkg, "FORMAT")
                        [] k = "pkginfo" -> ExPkginfo(pkg, n)
                        [] OTHER -> pkg)
                [] p.r = "go" /\ meta /\ ~ExHidden(k) ->
                     (IF s.is_package THEN ExDone(ndx, "FORMAT") ELSE ndx)
                [] p.r = "go" /\ ~meta /\ ~s.file -> ExDone(s, "ECANCELED")
                [] p.r = "go" /\ ~meta /\ s.file /\ ExHidden(k) -> s
                [] OTHER -> [s EXCEPT !.files = Append(@, n),
                                      !.unverified = @ \/ ~s.control_verified]

\* A damaged entry is no tar header any more.
ExBadEntry ==
  /\ ex.pc = "tar" /\ ex.buf # <<>>
  /\ Head(ex.buf) = ex.bad
  /\ ex' = ExDone(ex, "FORMAT")

\* The end of the archive, or an error of the stream.
ExEnd ==
  /\ ex.pc = "tar" /\ ex.buf = <<>> /\ ex.err # "ok"
  /\ ex' = ExDone(ex, IF ex.err = "eof" THEN "ok" ELSE ex.err)

ExBegin ==
  /\ ex.pc = "idle"
  /\ \E a \in ExArchives, q \in ExRequests :
       \E cut \in 1 .. ExSize(a), bad \in 0 .. ExSize(a) :
         ExStart(a, q[1], q[2], q[3], q[4], cut, bad)

ExNext ==
  \/ ExBegin
  \/ ExFill \/ ExLoop \/ ExInput \/ ExInflate \/ ExInflateError
  \/ ExEntry \/ ExBadEntry \/ ExEnd

ExSpec == ExInit /\ [][ExNext]_ex

(***************************************************************************)
(* Properties.                                                             *)
(***************************************************************************)
ExRunning == ex.pc # "idle"
ExIntactArchive == ex.bad = 0 /\ ex.cut = Len(ex.u)

\* The state of a read: the compressed bytes hashed, inflated and delivered are in this order,
\* and the results are the code's.
ExTypeOK ==
  ExRunning =>
    /\ ex.start <= ex.prev /\ ex.prev <= ex.next /\ ex.next <= ex.avail /\ ex.avail <= ex.cut
    /\ ex.room \in 0 .. ExOut /\ ex.room + Len(ex.out) = ExOut
    /\ ex.result \in {"none", "ok", "EOF", "FORMAT", "FORMAT_INVALID", "INTEGRITY", "UNTRUSTED",
                      "SIGNATURE_INVALID", "ECANCELED"}

\* One thing goes wrong, and it is excepted below: at the end of a member gzi_read keeps a pointer
\* to the bytes that are still to be hashed and fills the buffer they are in when the input is
\* used up just there, so that other bytes are hashed (torn: this happened in a member that is
\* verified).  A file that is mapped into memory is one piece and never torn.

\* The multipart stream (gzi_read, gzi_boundary_change) and the tar parser stay in step: what is
\* in the digest are consecutive bytes of the archive, and an entry reaches the parser only when
\* the digest has been restarted at the beginning of its part, never with bytes of a part before.
ExInStep ==
  ExRunning /\ ex.pc = "tar" /\ ~ex.torn =>
    /\ \A k \in 1 .. Len(ex.digest.data) - 1 : ex.digest.data[k + 1] = ex.digest.data[k] + 1
    /\ ex.buf # <<>> /\ ex.err = "ok" /\ ex.has_data_checksum =>
         \A k \in DOMAIN ex.digest.data : ex.u[ex.digest.data[k]].m = ex.u[Head(ex.buf)].m

\* No file of a package with a data hash reaches the installer before its control block, and so
\* the hash that the data will be compared with, has been verified, unless --allow-untrusted.
ExFilesVerified == ExRunning => (ex.unverified => ex.allow)

\* apk_extract_v2 reports success only for what is complete and intact: everything from the
\* control block on is there and undamaged, and the whole data part was hashed, unless nobody
\* wanted the files.  With --allow-untrusted only the data hash protects a package, and nothing
\* an index, from damage.  This holds of a torn member as well.
ExOkMeansIntact ==
  ExRunning /\ ex.result = "ok" /\ ~ex.allow =>
    /\ ex.action = "VERIFY_IDENTITY" \/ ex.key # "none"
    /\ ex.data_verified /\ ex.end_seen /\ ex.cut = Len(ex.u)
    /\ ex.bad = 0 \/ ex.u[ex.bad].m < ExControl(ex)

\* An intact archive is accepted: when its key is trusted, or its identity is what the index
\* says, extraction succeeds (or was cancelled by the caller) with every file delivered once and
\* in order, unless a member was torn.
ExIntactAccepted ==
  ExRunning /\ ex.pc = "done" /\ ~ex.torn /\ ExIntactArchive /\ ~ExHas(ex.a, "oldinfo")
    /\ (ex.action = "VERIFY_IDENTITY" \/ (ex.key # "none" /\ ExHas(ex.a, "sign"))) =>
    /\ ex.result = "ok" \/ (~ex.file /\ ex.result = "ECANCELED")
    /\ ex.file /\ ex.action # "VERIFY" =>
         ex.files = SelectSeq([n \in 1 .. ex.cut |-> n],
                              LAMBDA n : ExIsEntry(ex.u[n]) /\ ~ExHidden(ex.u[n].k))

\* What the v2 extraction promises: the digest covers exactly its member, files are passed
\* on only with a way to verify them, success means the package is intact, and an intact
\* package succeeds.
ExCorrect ==
  ExRunning =>
    ExTypeOK /\ ExInStep /\ ExFilesVerified /\ ExOkMeansIntact /\ ExIntactAccepted
================================================================================
