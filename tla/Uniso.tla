-------------------------------- MODULE Uniso --------------------------------
(***************************************************************************)
(* uniso (alpine-conf/uniso.c): unpack an ISO 9660 file system from a      *)
(* stream that can only be read forwards.  Readers wait in a queue ordered *)
(* by their offset; the volume descriptors queue the root directory, a     *)
(* directory queues its entries, a file is copied when the stream gets     *)
(* there.  Sizes and offsets are in blocks of ISOFS_BLOCK_SIZE.            *)
(***************************************************************************)
EXTENDS Integers, Sequences, SequencesExt, FiniteSets

CONSTANTS
  UnImages,  \* set of images [vd, nodes]: the volume descriptors, which begin at UnVd, and the
             \* nodes [dir, isdir, ext, size], dir being the number of the directory (0: a root)
  UnVd,      \* the block of the first volume descriptor
  UnFree     \* the blocks free on the disk, 0 when not known

VARIABLE un

UnLength(img) == Max({img.nodes[n].ext + img.nodes[n].size : n \in DOMAIN img.nodes})
UnChildren(img, d) == SelectSeq([n \in 1 .. Len(img.nodes) |-> n], LAMBDA n : img.nodes[n].dir = d)

UnReader(off, node) == [off |-> off, node |-> node]
UnDescriptors == 0   \* the node of volume_desc_reader

UnInit == un = [pc |-> "idle"]

\* uniso: seekable is a regular file on stdin, splice one that splice works on; the image may
\* have been cut short.
UnStart(img, seekable, splice, cut) ==
  un' = [pc |-> "next", img |-> img, seekable |-> seekable, splice |-> splice, cut |-> cut,
         pos |-> 0, last |-> UnVd, queue |-> <<UnReader(UnVd, UnDescriptors)>>,
         skip_method |-> 0, joliet |-> FALSE, root |-> 0, needed |-> 0, rd |-> UnReader(0, 0), vd |-> 0,
         dropped |-> {}, prev |-> UnReader(0, 0), files |-> << >>, rc |-> 0]

UnDone(u, rc) == [u EXCEPT !.pc = "done", !.rc = rc]

\* read(2) until the bytes are there or the stream ends.
UnRead(u, blocks) == [u EXCEPT !.pos = IF @ >= u.cut THEN @ ELSE Min({@ + blocks, u.cut})]

\* do_skip: lseek, which also goes past the end, then splice, then read.
UnSkip(u, blocks) ==
  IF u.skip_method = 0 /\ u.seekable THEN [u EXCEPT !.pos = @ + blocks]
  ELSE [UnRead(u, blocks) EXCEPT !.skip_method = IF u.splice THEN 1 ELSE 2]

\* queue_reader: ordered by offset, from the end; nothing behind the current position.  The mutated
\* forms queue at the end, and refuse what begins right here.
UnQueueLast(u, rd) ==
  IF rd.off < u.pos THEN [u EXCEPT !.dropped = @ \cup {rd.node}]
  ELSE [u EXCEPT !.last = rd.off, !.queue = Append(@, rd)]
UnQueueReader(u, rd) ==
  LET smaller == {i \in DOMAIN u.queue : u.queue[i].off < rd.off}
      at == IF smaller = {} THEN 1 ELSE Max(smaller) + 1
  IN IF rd.off < u.pos THEN [u EXCEPT !.dropped = @ \cup {rd.node}]
     ELSE IF rd.off >= u.last \/ u.queue = <<>>
       THEN [u EXCEPT !.last = rd.off, !.queue = Append(@, rd)]
     ELSE [u EXCEPT !.queue = InsertAt(@, at, rd)]

\* queue_dirent.
UnQueueDirent(u, n) ==
  LET node == u.img.nodes[n]
      t == [u EXCEPT !.needed = @ + IF node.isdir THEN 0 ELSE node.size]
  IN UnQueueReader(t, UnReader(node.ext, n))

\* What reads a node: volume_desc_reader, or uniso_read_directory or uniso_read_file by the flag of
\* the directory entry.
UnHandler(rd) ==
  CASE rd.node = UnDescriptors -> "volume"
    [] rd.node # UnDescriptors /\ un.img.nodes[rd.node].isdir -> "directory"
    [] OTHER -> "file"

\* The main loop: the next reader, after what lies before it has been skipped.
UnNextReader ==
  /\ un.pc = "next" /\ un.queue # <<>>
  /\ LET rd == Head(un.queue)
         u == [un EXCEPT !.queue = Tail(@), !.rd = rd, !.vd = 1, !.pc = UnHandler(rd)]
     IN un' = IF rd.off > un.pos THEN UnSkip(u, rd.off - un.pos) ELSE u

\* One turn of the loop of uniso_read_volume_descriptor.  At the end of the stream the buffer
\* still holds the previous descriptor; before the first one it holds anything.  Only whether
\* joliet_level is positive matters.
UnVolumeDescriptor ==
  /\ un.pc = "volume"
  /\ LET read == un.pos < un.cut
         u == UnRead(un, 1)
         vd == un.img.vd[IF read THEN un.vd ELSE un.vd - 1]
         t == [u EXCEPT !.vd = IF read THEN @ + 1 ELSE @,
                        !.joliet = @ \/ vd.type = "joliet",
                        !.root = IF vd.type = "joliet" \/ (vd.type = "primary" /\ ~un.joliet)
                                   THEN vd.root ELSE @]
     IN un' = CASE ~read /\ un.vd = 1 -> UnDone(u, -1)
                [] read /\ vd.type = "other" -> UnDone(u, -1)
                [] (read \/ un.vd > 1) /\ vd.type = "end" ->
                     UnQueueDirent([t EXCEPT !.pc = "next"], un.root)
                [] OTHER -> t

\* uniso_read_directory: the result of queue_dirent is not looked at.  What was not read of the
\* directory is whatever malloc returned: the entries found in it are some of the real ones.
UnReadDirectory ==
  /\ un.pc = "directory"
  /\ LET entries == UnChildren(un.img, un.rd.node)
         u == [UnRead(un, un.img.nodes[un.rd.node].size) EXCEPT !.pc = "next"]
         whole == u.pos = un.rd.off + un.img.nodes[un.rd.node].size
     IN \E found \in (IF whole THEN {ToSet(entries)} ELSE SUBSET ToSet(entries)) :
          un' = FoldLeft(UnQueueDirent, u, SelectSeq(entries, LAMBDA n : n \in found))

\* uniso_read_file.  A file whose extent has been read already is linked to the previous file
\* when that has the same extent.
UnReadFile ==
  /\ un.pc = "file"
  /\ LET node == un.img.nodes[un.rd.node]
         store(u, c) == [u EXCEPT !.files = (un.rd.node :> c) @@ @, !.pc = "next"]
         u == [UnRead(un, node.size) EXCEPT !.prev = un.rd]
         copied == [k \in 1 .. u.pos - un.pos |-> un.pos + k - 1]
     IN un' = CASE UnFree > 0 /\ un.needed > UnFree -> UnDone(un, -1)
                [] un.pos > un.rd.off /\ un.rd.off = un.prev.off -> store(un, un.files[un.prev.node])
                [] un.pos > un.rd.off /\ un.rd.off # un.prev.off -> [un EXCEPT !.pc = "next"]
                [] Len(copied) # node.size -> UnDone(store(u, copied), -1)
                [] OTHER -> store(u, copied)

\* Nothing is queued any more; a pipe is read to its end.
UnFinish ==
  /\ un.pc = "next" /\ un.queue = <<>>
  /\ un' = UnDone(IF un.skip_method # 0 THEN [un EXCEPT !.pos = Max({@, un.cut})] ELSE un, 0)

UnBegin ==
  /\ un.pc = "idle"
  /\ \E img \in UnImages, seekable \in BOOLEAN, splice \in BOOLEAN :
       \E cut \in 0 .. UnLength(img) : UnStart(img, seekable, splice, cut)

UnStep == UnNextReader \/ UnVolumeDescriptor \/ UnReadDirectory \/ UnReadFile \/ UnFinish

UnNext == UnBegin \/ UnStep

UnSpec == UnInit /\ [][UnNext]_un /\ WF_un(UnStep)

(***************************************************************************)
(* Properties.                                                             *)
(***************************************************************************)
UnRunning == un.pc # "idle"
UnWhole == un.cut = UnLength(un.img)
UnFiles == {n \in DOMAIN un.img.nodes : ~un.img.nodes[n].isdir}
UnExtent(n) == [k \in 1 .. un.img.nodes[n].size |-> un.img.nodes[n].ext + k - 1]

\* The nodes below a root, by the directory each is in.
UnAncestors(n) ==
  LET up[k \in 0 .. Len(un.img.nodes)] ==
        IF k = 0 THEN {n} ELSE up[k - 1] \cup {un.img.nodes[m].dir : m \in up[k - 1] \ {0}}
  IN up[Len(un.img.nodes)]

\* Everything in an image comes after the directory that names it, and files share an extent
\* only when they are the same: mkisofs and xorriso write such images.
UnLinearImage ==
  \A n \in DOMAIN un.img.nodes :
    /\ un.img.nodes[n].dir # 0 =>
         un.img.nodes[n].ext >= un.img.nodes[un.img.nodes[n].dir].ext
                                + un.img.nodes[un.img.nodes[n].dir].size
    /\ \A m \in UnFiles : un.img.nodes[m].ext = un.img.nodes[n].ext =>
                            un.img.nodes[m].size = un.img.nodes[n].size

\* The queue and the position of the stream.
UnTypeOK ==
  UnRunning =>
    /\ un.pc \in {"next", "volume", "directory", "file", "done"}
    /\ un.pos >= 0 /\ un.rc \in {-1, 0} /\ un.skip_method \in 0 .. 2
    /\ DOMAIN un.files \subseteq UnFiles

\* queue_reader keeps the readers in the order of the stream, so that one pass is enough.
UnQueueSorted ==
  UnRunning => \A i, j \in DOMAIN un.queue : i < j => un.queue[i].off <= un.queue[j].off

\* A file that uniso wrote without reporting an error has the blocks of its extent, whether it
\* was copied from the stream or linked to an earlier file with the same extent.
UnFilesExact ==
  UnRunning /\ UnLinearImage =>
    \A n \in DOMAIN un.files : un.rc = 0 => un.files[n] = UnExtent(n)

\* On a complete image every file of the tree that the last suitable descriptor names (the
\* Joliet one when there is one) is extracted, in one forward pass, unless the disk is too small.
UnAllExtracted ==
  UnRunning /\ un.pc = "done" /\ UnWhole /\ UnLinearImage /\ (UnFree = 0 \/ un.needed <= UnFree) =>
    /\ un.rc = 0 /\ un.dropped = {}
    /\ DOMAIN un.files = {n \in UnFiles : un.root \in UnAncestors(n)}
    /\ un.joliet => \E i \in DOMAIN un.img.vd : un.img.vd[i] = [type |-> "joliet", root |-> un.root]

\* Unless the stream ends among the volume descriptors, uniso ends.
UnTermination ==
  []<>(UnRunning /\ un.cut >= UnVd + Len(un.img.vd) => un.pc = "done")

\* What uniso promises: the queue is sorted by extent, every file gets its own bytes, and
\* none is left out.
UnCorrect ==
  UnRunning =>
    UnTypeOK /\ UnQueueSorted /\ UnFilesExact /\ UnAllExtracted
================================================================================
