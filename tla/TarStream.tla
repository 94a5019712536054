------------------------------ MODULE TarStream ------------------------------
(***************************************************************************)
(* Tar archives on their way into apk: abuild-tar (abuild/abuild-tar.c)    *)
(* copies what tar wrote, with --hash puts the digest of every file into   *)
(* its extended header, with --cut ends it before the end-of-archive       *)
(* records; abuild runs it with one option at a time.  apk's own writer    *)
(* (apk_tar_write_entry) makes scripts.tar; apk_tar_parse reads both, and  *)
(* leaves it to a callback how much of an entry is consumed.               *)
(*                                                                         *)
(* An archive is a sequence of blocks of TrBlock bytes.  A name stands for *)
(* itself; it is long when it does not fit the header's name field.        *)
(***************************************************************************)
EXTENDS Integers, Sequences, SequencesExt

CONSTANTS
  TrBlock,     \* bytes in a block
  TrArchives,  \* set of sequences of entries [type, name, size, long]
  TrReads      \* set of the amounts the callback reads of an entry

ASSUME TrAssumption == TrBlock \in Nat \ {0} /\ TrReads \subseteq Nat

VARIABLE tr

TrBlocks(bytes) == (bytes + TrBlock - 1) \div TrBlock

\* Blocks: headers, the data of an entry, and zeros.  The fields of an extended header are the
\* names whose digest it has, those of a long name record the name.
TrNone == "none"
TrHeader(type, name, size, fields) == [k |-> "header", type |-> type, name |-> name, size |-> size,
                                       fields |-> fields]
TrDataBlock(name, i) == [k |-> "data", name |-> name, i |-> i]
TrZero == [k |-> "zero"]
TrContents(name, size) == [i \in 1 .. TrBlocks(size) |-> TrDataBlock(name, i)]

\* GNU tar in the posix format, with pax options that give every entry an extended header.
TrPaxed(e) == <<TrHeader("x", "pax", 1, {}), TrDataBlock("pax", 1),
                TrHeader(e.type, e.name, e.size, {})>> \o TrContents(e.name, e.size)
TrGnu(es) == FlattenSeq([i \in DOMAIN es |-> TrPaxed(es[i])]) \o <<TrZero, TrZero>>

(***************************************************************************)
(* apk_tar_write_entry: only regular files; a long name is written with    *)
(* its terminating NUL, which the size does not count.  When the name      *)
(* fills its last block the NUL and its padding are a block of zeros.      *)
(***************************************************************************)
TrFillsBlock(e) == e.long > 0 /\ e.long % TrBlock = 0
TrWriteEntry(e) ==
  (IF e.long > 0 THEN <<TrHeader("L", "@LongLink", e.long, {e.name})>>
                      \o TrContents("@LongLink", e.long)
                      \o (IF TrFillsBlock(e) THEN <<TrZero>> ELSE <<>>)
   ELSE <<>>)
  \o <<TrHeader("0", IF e.long > 0 THEN "cut" ELSE e.name, e.size, {})>>
  \o TrContents(e.name, e.size)
TrApk(es) == FlattenSeq([i \in DOMAIN es |-> TrWriteEntry(es[i])]) \o <<TrZero, TrZero>>

TrInit == tr = [pc |-> "idle"]

\* What is read: an archive of abuild or one of apk, cut off after len bytes.
TrReader(in, len) == [in |-> in, len |-> len, pos |-> 0, end |-> FALSE, name |-> TrNone, pax |-> {},
                      got |-> <<>>, result |-> "none"]

TrStart(es, who) ==
  LET b == [pc |-> "hash", es |-> es, who |-> who, in |-> TrGnu(es), at |-> 1, pax |-> <<>>,
            out |-> <<>>]
  IN /\ who = "apk" => \A i \in DOMAIN es : es[i].type = "0"
     /\ who # "apk" => \A i \in DOMAIN es : es[i].long = 0
     /\ tr' = IF who = "apk" THEN [b EXCEPT !.pc = "written", !.out = TrApk(es)] ELSE b

(***************************************************************************)
(* abuild-tar: do_it, for the header at hand.                              *)
(***************************************************************************)
TrHashed(h) == tr.who = "hash" /\ h.type \in {"0", "7", "2"}

\* An extended header is kept back.
TrKeepPax ==
  /\ tr.pc = "hash" /\ tr.at <= Len(tr.in)
  /\ LET h == tr.in[tr.at]
     IN /\ h.k = "header" /\ h.type = "x"
        /\ tr' = [tr EXCEPT !.pax = <<h, tr.in[tr.at + 1]>>, !.at = @ + 2]

\* Every other header is written after its extended header, which gets the digest.
TrCopyEntry ==
  /\ tr.pc = "hash" /\ tr.at <= Len(tr.in)
  /\ LET h == tr.in[tr.at]
         n == TrBlocks(h.size)
         digest == IF TrHashed(h) THEN {h.name} ELSE {}
         pax == IF tr.pax = <<>> THEN <<>>
                ELSE <<[tr.pax[1] EXCEPT !.fields = @ \cup digest]>> \o Tail(tr.pax)
     IN /\ h.k = "header" /\ h.type # "x"
        /\ tr' = [tr EXCEPT !.out = @ \o pax \o SubSeq(tr.in, tr.at, tr.at + n), !.pax = <<>>,
                            !.at = @ + 1 + n]

\* --cut: the first empty record ends the archive.
TrCut ==
  /\ tr.pc = "hash" /\ tr.at <= Len(tr.in)
  /\ tr.who = "cut" /\ tr.in[tr.at].k = "zero"
  /\ tr' = [tr EXCEPT !.pc = "written"]

\* Without --cut an empty record is a header like any other, of no type and of size zero.
TrCopyEmpty ==
  /\ tr.pc = "hash" /\ tr.at <= Len(tr.in)
  /\ tr.who # "cut" /\ tr.in[tr.at].k = "zero"
  /\ tr' = [tr EXCEPT !.out = @ \o tr.pax \o <<TrZero>>, !.pax = <<>>, !.at = @ + 1]

\* The loop has no other end than a header it cannot read: do_it returns 1, and abuild does not
\* look at the status of a command that is not the last one of its pipeline.
TrInputEnds ==
  /\ tr.pc = "hash" /\ tr.at > Len(tr.in)
  /\ tr' = [tr EXCEPT !.pc = "written"]

TrOpen(len) ==
  tr' = [pc |-> "read", es |-> tr.es, who |-> tr.who] @@ TrReader(tr.out, len)

(***************************************************************************)
(* apk_tar_parse: one turn of the loop; the position is in bytes.          *)
(***************************************************************************)
TrLeft == tr.len - tr.pos
TrBlockAt == tr.in[(tr.pos \div TrBlock) + 1]
TrSkipTo(size) == tr.pos + TrBlock + TrBlocks(size) * TrBlock
TrReturn(r) == tr' = [tr EXCEPT !.pc = "done", !.result = r]
TrAtHeader(type) ==
  /\ tr.pc = "read" /\ TrLeft >= TrBlock
  /\ tr.pos % TrBlock = 0 /\ TrBlockAt.k = "header"
  /\ TrBlockAt.type \in type

\* The records of type 'x' and 'L' are read whole; their padding is skipped.
TrExtension ==
  /\ TrAtHeader({"x", "L"})
  /\ LET h == TrBlockAt
         to == TrSkipTo(h.size)
     IN IF to > tr.len THEN TrReturn("EOF")
        ELSE tr' = [tr EXCEPT !.pos = to,
                              !.pax = IF h.type = "x" THEN h.fields ELSE @,
                              !.name = IF h.type = "L" THEN CHOOSE n \in h.fields : TRUE ELSE @]

\* What lies between an entry and the next header.
TrPadding(size) == TrBlocks(size) * TrBlock - size

\* The long name and the extended header are those of one entry.  The mutated form keeps the name.
TrForgetPax(t) == [t EXCEPT !.pax = {}]
TrForget(t) == [t EXCEPT !.name = TrNone, !.pax = {}]

\* An entry: the callback reads what it likes and fails where the archive ends; segment_close
\* skips the rest and does not notice the end of the archive, apk_istream_skip of the padding does.
TrEntry(reads) ==
  /\ TrAtHeader({"0", "1", "2", "5", "7"})
  /\ LET h == TrBlockAt
         from == tr.pos + TrBlock
         used == IF reads < h.size THEN reads ELSE h.size
         closed == from + used + (h.size - used)
         toskip == TrPadding(h.size)
         e == [name |-> IF tr.name = TrNone THEN h.name ELSE tr.name, size |-> h.size,
               type |-> h.type, from |-> from, used |-> used, digest |-> tr.pax]
         t == TrForget([tr EXCEPT !.got = Append(@, e)])
     IN tr' = CASE from + used > tr.len -> [tr EXCEPT !.pc = "done", !.result = "error"]
                [] from + used <= tr.len /\ toskip > 0 /\ closed + toskip > tr.len ->
                     [t EXCEPT !.pc = "done", !.result = "EOF"]
                [] OTHER -> [t EXCEPT !.pos = IF closed > tr.len THEN tr.len ELSE closed + toskip]

\* The callback's error ends the parsing.
TrParserError ==
  /\ TrAtHeader({"0", "1", "2", "5", "7"})
  /\ TrReturn("error")

\* An empty record: the first one is skipped, the second one ends the entries.
TrEmptyRecord ==
  /\ tr.pc = "read" /\ TrLeft >= TrBlock
  /\ tr.pos % TrBlock = 0 /\ TrBlockAt.k # "header"
  /\ LET zero == TrBlockAt.k = "zero"
         rest == SubSeq(tr.in, (tr.pos \div TrBlock) + 2, tr.len \div TrBlock)
     IN CASE ~zero -> TrReturn("FORMAT")
          [] zero /\ ~tr.end -> tr' = [tr EXCEPT !.end = TRUE, !.pos = @ + TrBlock]
          [] OTHER -> TrReturn(IF /\ tr.len % TrBlock = 0
                                    /\ \A i \in DOMAIN rest : rest[i].k = "zero"
                                 THEN "ok" ELSE "EOF")

TrEnd ==
  /\ tr.pc = "read" /\ TrLeft < TrBlock
  /\ TrReturn(IF TrLeft = 0 THEN "ok" ELSE "EOF")

TrBegin ==
  /\ tr.pc = "idle"
  /\ \E es \in TrArchives, who \in {"apk", "hash", "cut"} : TrStart(es, who)

TrNext ==
  \/ TrBegin \/ TrKeepPax \/ TrCopyEntry \/ TrCopyEmpty \/ TrCut \/ TrInputEnds
  \/ tr.pc = "written" /\ \E len \in 0 .. Len(tr.out) * TrBlock : TrOpen(len)
  \/ TrExtension \/ TrEmptyRecord \/ TrEnd \/ TrParserError
  \/ \E reads \in TrReads : TrEntry(reads)

TrSpec == TrInit /\ [][TrNext]_tr

(***************************************************************************)
(* Properties.                                                             *)
(***************************************************************************)
TrReading == tr.pc \in {"read", "done"}
TrComplete == tr.len = Len(tr.in) * TrBlock

\* The reader is always at the beginning of a block of the archive, or at its end.
TrTypeOK ==
  TrReading => /\ tr.pos % TrBlock = 0 \/ tr.pos = tr.len
               /\ tr.pos <= tr.len
               /\ tr.result \in {"none", "ok", "EOF", "FORMAT", "error"}

\* What reaches apk is what was put into the archive, in order and under its own name, with its
\* own contents, and with the digest that abuild-tar computed for it and no other: no name and no
\* extended header is taken over from an entry before.
TrEntriesExact ==
  TrReading =>
    /\ Len(tr.got) <= Len(tr.es)
    /\ \A i \in DOMAIN tr.got :
         /\ tr.got[i].name = tr.es[i].name /\ tr.got[i].size = tr.es[i].size
         /\ tr.got[i].type = tr.es[i].type
         /\ tr.got[i].digest = IF tr.who = "hash" /\ tr.es[i].type \in {"0", "7", "2"}
                                THEN {tr.es[i].name} ELSE {}
         /\ tr.es[i].size > 0 =>
              tr.in[tr.got[i].from \div TrBlock + 1] = TrDataBlock(tr.es[i].name, 1)

\* A complete archive is read to its end without an error, unless the callback reports one, no
\* matter how much the callback read of each entry; one that was cut off inside an entry is
\* not read as if it was complete, unless nobody read that entry and it has no padding.
\* The exception is an archive of apk's own in which two long names fill their last block: the
\* reader does not skip the block of zeros after such a name, takes it for an end-of-archive
\* record, and fails at the second one.
TrCompleteRead ==
  tr.pc = "done" =>
    /\ TrComplete => \/ tr.result \in {"ok", "error"}
                     \/ /\ tr.who = "apk" /\ tr.result = "EOF"
                        /\ Cardinality({i \in DOMAIN tr.es : TrFillsBlock(tr.es[i])}) > 1
    /\ TrComplete /\ tr.result = "ok" => Len(tr.got) = Len(tr.es)
    /\ tr.result = "ok" => \A i \in DOMAIN tr.got :
         /\ tr.got[i].from + tr.got[i].used <= tr.len
         /\ tr.got[i].from + tr.got[i].size <= tr.len \/ tr.got[i].size % TrBlock = 0

\* What the tar reader promises: the callback sees the entries of the archive with their
\* own names and bytes, and a read that ends well has seen them all.
TrCorrect ==
  tr.pc # "idle" =>
    TrTypeOK /\ TrEntriesExact /\ TrCompleteRead
================================================================================
