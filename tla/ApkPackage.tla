------------------------------ MODULE ApkPackage ------------------------------
(***************************************************************************)
(* The life of a v3 package: mkpkg lists a directory tree and then copies  *)
(* the files (app_mkpkg.c), the blocks of the container and its signatures *)
(* (adb.c), adbsign (app_adbsign.c), damage on the way, and the extraction *)
(* (extract_v3.c).  Files may change while mkpkg runs.                     *)
(*                                                                         *)
(* A tree is a sequence of directories in the order of their names, the    *)
(* root first, each with its files in the order of theirs; the sorts of    *)
(* the code are this order.  The contents of an inode are a version and a  *)
(* size; a digest is injective, so it is the contents themselves.          *)
(***************************************************************************)
EXTENDS Integers, SequencesExt

CONSTANTS
  PkTrees,       \* the directory trees packages are made of
  PkCompat,      \* the versions --compat names: 0 before 3.0.0_pre3, 1 before 3.0.0_rc9, 2 later
  PkKeys,        \* the keys
  PkSizes,       \* the sizes a file may get when it changes
  PkMaxSigns,    \* bound on the runs of adbsign
  PkMaxFaults    \* bound on the files changed while mkpkg runs and the damages on the way

VARIABLES
  pkDisk,        \* the tree and what its inodes hold
  pkMk,          \* struct mkpkg_ctx and the locals of mkpkg_main
  pkFile,        \* the package file: a sequence of blocks
  pkEx,          \* struct apk_extract_v3_ctx, and what the consumer was given
  pkBudget       \* changes, signatures and damages so far

pkVars == <<pkDisk, pkMk, pkFile, pkEx, pkBudget>>

PkTree == pkDisk.tree
PkNoTarget == <<"none", <<0, 0>>>>
PkNothing == [ver |-> 0, size |-> 0]

PkIdle == [pc |-> "idle", compat |-> 2, d |-> 1, f |-> 1, files |-> <<>>, links |-> {}, paths |-> <<>>, rc |-> 0]
PkExIdle == [pc |-> "idle", opt |-> 0, i |-> 1, allowed |-> {"ADB"}, trusted |-> FALSE, adb |-> <<>>,
             cur |-> 0, got |-> <<>>, rc |-> 0]
PkUnchanged == [changes |-> 0, signs |-> 0, damage |-> 0]

PkInit ==
  /\ pkDisk = [tree |-> <<>>, data |-> <<>>, clean |-> TRUE]
  /\ pkMk = PkIdle
  /\ pkFile = <<>>
  /\ pkEx = PkExIdle
  /\ pkBudget = PkUnchanged

-----------------------------------------------------------------------------
\* mkpkg.  tree[d] is [parent, default, files]; default is mode 0755 and owner root:root; a file is
\* [kind, ino].  Of the special files only sockets are ignored.
PkStart(tree, data, compat) ==
  /\ pkMk.pc = "idle"
  /\ pkDisk' = [tree |-> tree, data |-> data, clean |-> TRUE]
  /\ pkMk' = [pkMk EXCEPT !.pc = "scan", !.compat = compat]
  /\ UNCHANGED <<pkFile, pkEx, pkBudget>>

PkFiles == {<<d, f>> \in (DOMAIN PkTree) \X (1 .. 9) : f \in DOMAIN PkTree[d].files}
PkAt(at) == PkTree[at[1]].files[at[2]]
PkNumLinks(ino) == LET names == {at \in PkFiles : PkAt(at).ino = ino} IN \E a, b \in names : a # b
PkNumDirents(d) == Len(PkTree[d].files) + Len(SelectSeq(PkTree, LAMBDA x : x.parent = d))

\* mkpkg_process_dirent: the first name of an inode with several gets the data, and is what the
\* later names refer to.  hardlink_target puts the path in front of the name; the path of the root
\* is ".", not empty, and that is no directory of the package.
PkHardlinkTarget(at) == <<IF at[1] = 1 THEN 0 ELSE at[1], at[2]>>
PkLinks(ino) == {l \in pkMk.links : l[1] = ino}
PkTarget(file) ==
  CASE file.kind # "reg" -> <<file.kind, <<0, 0>>>>
    [] PkNumLinks(file.ino) /\ PkLinks(file.ino) # {} -> <<"hard", (CHOOSE l \in PkLinks(file.ino) : TRUE)[2]>>
    [] OTHER -> PkNoTarget

PkDirent ==
  LET at == <<pkMk.d, pkMk.f>>
      file == PkAt(at)
      data == IF file.kind = "reg" THEN pkDisk.data[file.ino] ELSE PkNothing
      listed == [name |-> at, hash |-> data, target |-> PkTarget(file)]
  IN  /\ pkMk.pc = "scan" /\ pkMk.d <= Len(PkTree) /\ pkMk.f <= Len(PkTree[pkMk.d].files)
      /\ pkMk' = [pkMk EXCEPT !.f = @ + 1,
                              !.files = IF file.kind = "sock" THEN @ ELSE Append(@, listed),
                              !.links = IF file.kind = "reg" /\ PkNumLinks(file.ino) /\ PkLinks(file.ino) = {}
                                          THEN @ \cup {<<file.ino, PkHardlinkTarget(at)>>} ELSE @]
      /\ UNCHANGED <<pkDisk, pkFile, pkEx, pkBudget>>

\* The end of mkpkg_process_directory: a directory that its contents imply is left out.
PkPruned(d) ==
  /\ PkTree[d].default /\ pkMk.files = <<>>
  /\ IF d = 1 THEN pkMk.compat > 0 ELSE PkNumDirents(d) > 0 /\ pkMk.compat > 1

PkDirectory ==
  LET d == pkMk.d
  IN  /\ pkMk.pc = "scan" /\ d <= Len(PkTree) /\ pkMk.f > Len(PkTree[d].files)
      /\ pkMk' = [pkMk EXCEPT !.d = @ + 1, !.f = 1, !.files = <<>>,
                              !.paths = IF PkPruned(d) THEN @
                                        ELSE Append(@, [name |-> d, default |-> PkTree[d].default, files |-> pkMk.files])]
      /\ UNCHANGED <<pkDisk, pkFile, pkEx, pkBudget>>

\* The blocks of the container.  A signature is of the whole ADB block.
PkBlock(type, val) == [type |-> type, val |-> val, cut |-> "no"]
PkSigBlocks(keys, adb) == [i \in 1 .. Len(SetToSeq(keys)) |-> PkBlock("SIG", <<SetToSeq(keys)[i], adb>>)]

\* adb_c_adb.
PkWriteAdb(keys) ==
  /\ pkMk.pc = "scan" /\ pkMk.d > Len(PkTree)
  /\ pkFile' = <<PkBlock("ADB", pkMk.paths)>> \o PkSigBlocks(keys, pkMk.paths)
  /\ pkMk' = [pkMk EXCEPT !.pc = "copy", !.d = 1, !.f = 1]
  /\ UNCHANGED <<pkDisk, pkEx, pkBudget>>

\* The loop over paths and files: what has no target and a size gets a data block, whose length is
\* the size found by the scan.  apk_stream_copy cancels the output when the file is shorter now.
PkHasData(file) == file.target = PkNoTarget /\ file.hash.size # 0

PkCopy ==
  LET path == pkMk.paths[pkMk.d]
      file == path.files[pkMk.f]
      now == pkDisk.data[PkAt(file.name).ino]
  IN  /\ pkMk.pc = "copy" /\ pkMk.d <= Len(pkMk.paths)
      /\ IF pkMk.f > Len(path.files)
           THEN pkMk' = [pkMk EXCEPT !.d = @ + 1, !.f = 1] /\ UNCHANGED pkFile
           ELSE /\ pkMk' = [pkMk EXCEPT !.f = @ + 1,
                                        !.rc = IF PkHasData(file) /\ now.size < file.hash.size THEN -1 ELSE @]
                /\ pkFile' = IF PkHasData(file) /\ now.size >= file.hash.size /\ pkMk.rc = 0
                               THEN Append(pkFile, PkBlock("DATA", [at |-> <<pkMk.d, pkMk.f>>, size |-> file.hash.size, ver |-> now.ver]))
                               ELSE pkFile
      /\ UNCHANGED <<pkDisk, pkEx, pkBudget>>

\* apk_ostream_close: a cancelled output leaves no package.
PkClose ==
  /\ pkMk.pc = "copy" /\ pkMk.d > Len(pkMk.paths)
  /\ pkMk' = [pkMk EXCEPT !.pc = IF pkMk.rc = 0 THEN "made" ELSE "failed"]
  /\ pkFile' = IF pkMk.rc = 0 THEN pkFile ELSE <<>>
  /\ UNCHANGED <<pkDisk, pkEx, pkBudget>>

\* Somebody writes to a file.
PkChange(ino, size) ==
  /\ pkMk.pc \in {"scan", "copy"}
  /\ pkBudget.changes + pkBudget.damage < PkMaxFaults
  /\ ino \in DOMAIN pkDisk.data
  /\ pkDisk' = [pkDisk EXCEPT !.data[ino] = [ver |-> @.ver + 1, size |-> size], !.clean = FALSE]
  /\ pkBudget' = [pkBudget EXCEPT !.changes = @ + 1]
  /\ UNCHANGED <<pkMk, pkFile, pkEx>>

-----------------------------------------------------------------------------
\* adb_trust_verify_signature, and the blocks a reader goes through before the data.
PkVerify(block, keys, adb) == block.val[1] \in keys /\ block.val[2] = adb

PkSigned(file, keys) == \E i \in DOMAIN file : file[i].type = "SIG" /\ PkVerify(file[i], keys, file[1].val)

\* adbsign of one file.  signatures_written is not reset between the files of a command, so only
\* the first one gets new signatures.  A package that is not trusted is left as it is.
PkResign(file, reset, first, keys) ==
  LET kept == SelectSeq(file, LAMBDA b : b.type = "SIG" /\ ~reset)
      new == IF first THEN PkSigBlocks(keys, file[1].val) ELSE <<>>
  IN  <<file[1]>> \o kept \o new \o SelectSeq(file, LAMBDA b : b.type = "DATA")

PkAdbsign(allow, trust, reset, first, keys) ==
  /\ pkMk.pc = "made" /\ pkEx.pc = "idle"
  /\ pkBudget.signs < PkMaxSigns
  /\ pkBudget.damage = 0
  /\ pkFile' = IF allow \/ PkSigned(pkFile, trust) THEN PkResign(pkFile, reset, first, keys) ELSE pkFile
  /\ pkBudget' = [pkBudget EXCEPT !.signs = @ + 1]
  /\ UNCHANGED <<pkDisk, pkMk, pkEx>>

-----------------------------------------------------------------------------
\* On the way a package is cut, at the end of a block or within one, or loses a block, or a block
\* is changed: other contents, a listing with another digest, a signature that does not fit.
PkCuts(file) ==
  {SubSeq(file, 1, k) : k \in 0 .. (Len(file) - 1)} \cup
  {Append(SubSeq(file, 1, k - 1), [file[k] EXCEPT !.cut = c]) : k \in DOMAIN file, c \in {"header", "body"}}

PkSpoilt(paths) ==
  {[paths EXCEPT ![d].files[f].hash.ver = @ + 9] : <<d, f>> \in
      {<<d, f>> \in (DOMAIN paths) \X (1 .. 9) : f \in DOMAIN paths[d].files}}

PkAltered(block) ==
  CASE block.type = "ADB" -> {[block EXCEPT !.val = v] : v \in PkSpoilt(block.val)}
    [] block.type = "SIG" -> {[block EXCEPT !.val = <<block.val[1], <<>>>>]}
    [] block.type = "DATA" -> {[block EXCEPT !.val.ver = @ + 9]}

PkDamage ==
  /\ pkMk.pc = "made" /\ pkEx.pc = "idle"
  /\ pkBudget.changes + pkBudget.damage < PkMaxFaults
  /\ pkFile' \in PkCuts(pkFile) \cup {RemoveAt(pkFile, k) : k \in DOMAIN pkFile}
                 \cup UNION {{ReplaceAt(pkFile, k, b) : b \in PkAltered(pkFile[k])} : k \in DOMAIN pkFile}
  /\ pkBudget' = [pkBudget EXCEPT !.damage = @ + 1]
  /\ UNCHANGED <<pkDisk, pkMk, pkEx>>

-----------------------------------------------------------------------------
\* apk_extract_v3.  opt: allow_untrusted, the trusted keys, the identity the index gives (alg, and
\* whether it is that of the package mkpkg made), and whether the consumer wants the files.
PkExtract(opt) ==
  /\ pkMk.pc = "made" /\ pkEx.pc = "idle"
  /\ pkEx' = [PkExIdle EXCEPT !.pc = "stream", !.opt = opt, !.trusted = opt.allow]
  /\ UNCHANGED <<pkDisk, pkMk, pkFile, pkBudget>>

\* __adb_handle_identity: 1 is a match.
PkIdentityLoose(opt, adb) == IF opt.alg = "none" THEN 0 ELSE 1
PkIdentity(opt, adb) ==
  CASE opt.alg = "none" -> 0
    [] opt.mine /\ adb = pkMk.paths -> 1
    [] opt.alg = "sha256_160" -> 0
    [] OTHER -> -1

PkFails(e, rc) == [e EXCEPT !.pc = "failed", !.rc = rc]

\* What there is to deliver, in order: each directory but the root, then its files.
PkItems(paths) ==
  FlattenSeq([d \in DOMAIN paths |->
    (IF paths[d].name = 1 THEN <<>> ELSE <<[at |-> <<d, 0>>, dir |-> TRUE, what |-> paths[d].name]>>)
    \o [f \in DOMAIN paths[d].files |-> [at |-> <<d, f>>, dir |-> FALSE, what |-> paths[d].files[f]]]])

PkNeedsBlock(item) == ~item.dir /\ PkHasData(item.what)
PkGiven(item, data, read) == [at |-> item.at, dir |-> item.dir, what |-> item.what, data |-> data, read |-> read]

\* apk_extract_v3_next_file: deliver what has no data, up to the next file that has.
PkStop(items, cur) ==
  LET later == {k \in (cur + 1) .. Len(items) : PkNeedsBlock(items[k])}
  IN  IF later = {} THEN Len(items) + 1 ELSE CHOOSE k \in later : \A j \in later : k <= j

PkNextFile(e) ==
  LET items == PkItems(e.adb)
      stop == PkStop(items, e.cur)
  IN  [e EXCEPT !.cur = stop,
                !.got = @ \o [k \in 1 .. (stop - e.cur - 1) |-> PkGiven(items[e.cur + k], PkNothing, TRUE)]]

\* __adb_m_stream up to the next block header: the end of the file between two blocks is no error.
PkEnd(e) ==
  LET n == PkNextFile(e)
  IN  CASE ~e.trusted \/ e.allowed = {"ADB"} -> PkFails(e, -2)
        [] ~e.opt.files -> [e EXCEPT !.pc = "ok"]
        [] n.cur <= Len(PkItems(e.adb)) -> PkFails(n, -3)
        [] OTHER -> [n EXCEPT !.pc = "ok"]

PkReadAdb(e, b) ==
  LET r == PkIdentity(e.opt, b.val)
  IN  IF b.cut = "body" \/ r < 0 THEN PkFails(e, -4)
        ELSE [e EXCEPT !.i = @ + 1, !.allowed = {"SIG", "DATA"}, !.adb = b.val, !.trusted = @ \/ r = 1]

PkReadSig(e, b) ==
  IF b.cut = "body" THEN PkFails(e, -5)
    ELSE [e EXCEPT !.i = @ + 1, !.trusted = @ \/ PkVerify(b, e.opt.keys, e.adb)]

\* apk_extract_v3_file for a file with data: the consumer takes it, and its digest is compared, or
\* it leaves it, and nothing is.
PkDataFile(n, b, read) ==
  LET item == PkItems(n.adb)[n.cur]
      data == [ver |-> b.val.ver, size |-> b.val.size]
      next == [n EXCEPT !.i = @ + 1, !.allowed = {"DATA"}, !.got = Append(@, PkGiven(item, data, read))]
  IN  CASE b.val.at # item.at \/ b.val.size # item.what.hash.size -> PkFails(n, -6)
        [] read /\ (b.cut = "body" \/ data # item.what.hash) -> PkFails(n, -7)
        [] OTHER -> next

\* apk_extract_v3_data_block.
PkReadData(e, b, read) ==
  LET n == PkNextFile(e)
  IN  CASE ~e.trusted -> PkFails(e, -2)
        [] ~e.opt.files -> [e EXCEPT !.pc = "ok"]
        [] n.cur > Len(PkItems(e.adb)) -> PkFails(n, -3)
        [] OTHER -> PkDataFile(n, b, read)

\* One round of __adb_m_stream.  An unread block that is cut is noticed only if it is padded.
PkRound(e, read, padded) ==
  LET b == pkFile[e.i]
  IN  CASE e.i > Len(pkFile) -> PkEnd(e)
        [] b.cut = "header" -> PkFails(e, -1)
        [] b.type \notin e.allowed -> PkFails(e, -8)
        [] b.type = "ADB" -> PkReadAdb(e, b)
        [] b.type = "SIG" -> PkReadSig(e, b)
        [] b.type = "DATA" /\ b.cut = "body" /\ ~read /\ padded -> PkFails(e, -9)
        [] OTHER -> PkReadData(e, b, read)

PkStep ==
  /\ pkEx.pc = "stream"
  /\ \E read, padded \in BOOLEAN : pkEx' = PkRound(pkEx, read, padded)
  /\ UNCHANGED <<pkDisk, pkMk, pkFile, pkBudget>>

PkOptions ==
  {[allow |-> a, keys |-> k, alg |-> g, mine |-> m, files |-> f] :
     a \in BOOLEAN, k \in SUBSET PkKeys, g \in {"none", "sha256", "sha256_160"}, m \in BOOLEAN, f \in BOOLEAN}

PkNext ==
  \/ \E t \in PkTrees, compat \in PkCompat : PkStart(t.tree, t.data, compat)
  \/ PkDirent
  \/ PkDirectory
  \/ \E keys \in SUBSET PkKeys : PkWriteAdb(keys)
  \/ PkCopy
  \/ PkClose
  \/ \E ino \in DOMAIN pkDisk.data, size \in PkSizes : PkChange(ino, size)
  \/ \E allow, reset, first \in BOOLEAN, trust, keys \in SUBSET PkKeys :
        pkMk.pc = "made" /\ PkAdbsign(allow, trust, reset, first, keys)
  \/ PkDamage
  \/ pkMk.pc = "made" /\ \E opt \in PkOptions : PkExtract(opt)
  \/ PkStep

PkSpec == PkInit /\ [][PkNext]_pkVars

-----------------------------------------------------------------------------
\* The types of the variables.
PkTypeOK ==
  /\ pkMk.pc \in {"idle", "scan", "copy", "made", "failed"}
  /\ pkEx.pc \in {"idle", "stream", "ok", "failed"}
  /\ pkMk.d \in 1 .. (Len(PkTree) + 1) /\ pkMk.f \in Nat
  /\ \A i \in DOMAIN pkFile : pkFile[i].type \in {"ADB", "SIG", "DATA"}
  /\ pkEx.i \in 1 .. (Len(pkFile) + 1)
  /\ pkEx.allowed \subseteq {"ADB", "SIG", "DATA"}
  /\ pkBudget.changes + pkBudget.damage <= PkMaxFaults /\ pkBudget.signs <= PkMaxSigns

\* The consumer of an extraction is handed nothing before the listing is trusted: without
\* --allow-untrusted, all it ever gets is listed in the ADB block that mkpkg wrote, whatever happened
\* to the package since.
PkTrusted ==
  pkEx.got # <<>> /\ ~pkEx.opt.allow => pkEx.adb = pkMk.paths

\* An extraction that succeeds has handed over every listed directory and file, each once and in the
\* order of the listing, and every content the consumer took has the digest of the listing.  So a
\* package that was cut, has lost a block, or was made while its files changed is never taken for a
\* good one.
PkOkMeansWhole ==
  pkEx.pc = "ok" /\ pkEx.opt.files =>
    /\ [k \in DOMAIN pkEx.got |-> [at |-> pkEx.got[k].at, dir |-> pkEx.got[k].dir, what |-> pkEx.got[k].what]] = PkItems(pkEx.adb)
    /\ \A k \in DOMAIN pkEx.got :
         PkNeedsBlock(pkEx.got[k]) /\ pkEx.got[k].read => pkEx.got[k].data = pkEx.got[k].what.hash

\* A package that mkpkg made of files nobody changed, and that was not damaged, is refused only for
\* lack of trust: no signature by a key of the reader, and an identity that is absent or of another
\* package.  That includes packages adbsign has been through.
PkIntactAccepted ==
  pkEx.pc = "failed" /\ pkDisk.clean /\ pkBudget.damage = 0 =>
    \/ pkEx.opt.alg = "sha256" /\ ~pkEx.opt.mine
    \/ ~pkEx.opt.allow /\ ~PkSigned(pkFile, pkEx.opt.keys) /\ (pkEx.opt.alg = "none" \/ ~pkEx.opt.mine)

\* What the consumer has of a file: its data, or those of the name that a hard link refers to.
PkHave(name) == {k \in DOMAIN pkEx.got : ~pkEx.got[k].dir /\ pkEx.got[k].what.name = name}
PkContents(k) ==
  LET g == pkEx.got[k]
  IN  IF g.what.target[1] = "hard" THEN {pkEx.got[j].data : j \in PkHave(g.what.target[2])} ELSE {g.data}

\* The directories a directory is in, itself included.
PkWithin[d \in DOMAIN PkTree] == IF d = 1 THEN {1} ELSE {d} \cup PkWithin[PkTree[d].parent]

\* A hard link to a file of the top directory: its target reads "./name".
PkDotLink(g) == g.what.target[1] = "hard" /\ g.what.target[2][1] = 0

\* Round trip: what mkpkg packed of an unchanged tree and apk_extract_v3 handed over is the tree.
\* Every file but sockets is there with its kind and contents, and every directory is either handed
\* over or has default attributes and something below it that is.  (Hard links to a file of the top
\* directory are left out.)
PkRoundTrip ==
  pkEx.pc = "ok" /\ pkEx.opt.files /\ pkDisk.clean /\ pkBudget.damage = 0 /\ (\A k \in DOMAIN pkEx.got : pkEx.got[k].read) =>
    /\ \A at \in PkFiles : PkAt(at).kind # "sock" =>
         \E k \in PkHave(at) :
           IF PkAt(at).kind = "reg"
             THEN PkDotLink(pkEx.got[k]) \/ PkContents(k) = {pkDisk.data[PkAt(at).ino]}
             ELSE pkEx.got[k].what.target[1] = PkAt(at).kind
    /\ \A d \in DOMAIN PkTree \ {1} : (\A at \in PkFiles : PkAt(at).kind # "sock") =>
         \E k \in DOMAIN pkEx.got :
           pkEx.got[k].dir /\ (pkEx.got[k].what = d \/ (PkTree[d].default /\ d \in PkWithin[pkEx.got[k].what]))

\* A hard link is handed over after the file it refers to, so that the consumer can link it, even
\* when files changed during mkpkg.
PkLinkOrder ==
  \A k \in DOMAIN pkEx.got :
    ~pkEx.got[k].dir /\ pkEx.got[k].what.target[1] = "hard" /\ ~PkDotLink(pkEx.got[k]) =>
      \E j \in 1 .. (k - 1) : j \in PkHave(pkEx.got[k].what.target[2]) /\ pkEx.got[j].what.target = PkNoTarget

\* What making, signing and extracting a v3 package promise: only signed metadata is used,
\* success means the whole package, an intact package is accepted and gives back the tree,
\* and a hard link comes after its target.
PkCorrect ==
  pkDisk.tree # <<>> =>
    PkTypeOK /\ PkTrusted /\ PkOkMeansWhole /\ PkIntactAccepted /\ PkRoundTrip /\ PkLinkOrder
=============================================================================
