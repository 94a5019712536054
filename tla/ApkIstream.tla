------------------------------ MODULE ApkIstream ------------------------------
(* The buffered input streams of apk (apk-tools/src/io.c): a file descriptor   *)
(* or blob stream and the segment, verifying and tee streams stacked on it,    *)
(* which share its buffer and call its read directly.  Byte b of the file is   *)
(* the number b.  An operation runs on the top of the stack, one read of the   *)
(* descriptor a step; a read may be short.                                     *)
EXTENDS Integers, FiniteSets, SequencesExt

CONSTANTS IsLen,       \* bytes of the file
          IsBufSize,   \* apk_io_bufsize
          IsSync,      \* APK_ISTREAM_ALIGN_SYNC
          IsTokens,    \* the bytes that are the delimiter
          IsSizes,     \* the sizes the readers ask for
          IsShort,     \* what a short read may return
          IsMaxErr,    \* how many system calls may fail
          IsMaxCalls   \* how many operations the readers start

ASSUME IsBufAssumption == IsBufSize > 2 * IsSync /\ IsSync > 0

VARIABLES isStack,  \* the open streams, the descriptor's first
          isMem,    \* the shared buffer
          isFd,     \* the offset of the descriptor
          isOp,     \* the operation that is running
          isAt,     \* how many bytes the readers have consumed
          isRet,    \* what the last operation returned
          isTee,    \* the file behind a tee: bytes written, and whether it was renamed into place
          isFile    \* whether the file is what its digest says, and the failures and operations left

isVars == <<isStack, isMem, isFd, isOp, isAt, isRet, isTee, isFile>>

Depth == Len(isStack)
Top == isStack[Depth]
NULL == -1

EOF == 1             \* is->err: the end was seen, 0 none, negative an error
EIO == -1
APKE_EOF == -2
APKE_BUFFER_SIZE == -3
ECONNABORTED == -4
APKE_FILE_INTEGRITY == -5

apk_istream_error(s, e) == IF s.err >= 0 /\ e # 0 THEN [s EXCEPT !.err = e] ELSE s
Buffered(s) == s.end - s.ptr
Bytes(from, n) == [i \in 1..n |-> isMem[from + i - 1]]
NoOp == [op |-> "idle", size |-> 0, left |-> 0, got |-> <<>>, ret |-> 0, end |-> 0]

Stream(kind, ptr, end, size, err) ==
    [kind |-> kind, ptr |-> ptr, end |-> end, size |-> size, err |-> err,
     left |-> 0, align |-> 0, len |-> 0, start |-> 0, spent |-> FALSE]

------------------------------------------------------------------------------
(* ops->read of the top for z bytes.  segment_read cuts z to what is left,     *)
(* digest_read and tee_read pass on what their parent read.  Room is how much  *)
(* the read may return at most; with no room it returns what ShortRead says.   *)
Segments == {k \in 2..Depth : isStack[k].kind = "segment"}
Available == IF isStack[1].kind = "fd" THEN IsLen - isFd ELSE 0
Room(z) == Min({z, Available} \cup {isStack[k].left : k \in Segments})
Reads(z) == {r \in IsShort \cup {Room(z)} : r \in 1..Room(z)}

ShortRead ==
    LET stop == Max({1} \cup {k \in Segments : isStack[k].left = 0})
    IN IF \E k \in Segments : k > stop THEN ECONNABORTED ELSE 0

(* The effect of r bytes read on the streams they passed through.              *)
Passed(r) ==
    [k \in 1..Depth |->
        LET s == isStack[k] IN
        CASE s.kind = "segment" -> [s EXCEPT !.left = @ - r, !.align = @ + r]
          [] s.kind = "verify"  -> [s EXCEPT !.left = @ - r, !.len = @ + r]
          [] OTHER              -> s]

Teed == \E k \in 1..Depth : isStack[k].kind = "tee"
TeeWrite(r) == isTee' = IF Teed THEN [isTee EXCEPT !.written = @ + r] ELSE isTee

(* read into the buffer at an offset: r bytes, r > 0.                          *)
ReadInto(at, r, stack) ==
    /\ isFd' = isFd + r
    /\ isMem' = [i \in DOMAIN isMem |-> IF i \in at..(at + r - 1) THEN isFd + (i - at) + 1 ELSE isMem[i]]
    /\ isStack' = stack
    /\ TeeWrite(r)

SetTop(stack, s) == [stack EXCEPT ![Depth] = s]

(* A read that gives nothing: the end, a cut segment, or a failing system call *)
(* of the descriptor or of the tee's file.                                     *)
NoRead(z, r) ==
    \/ /\ Room(z) = 0
       /\ r = ShortRead
       /\ UNCHANGED <<isFd, isTee, isFile>>
    \/ /\ Room(z) > 0
       /\ isFile.errs > 0
       /\ r = EIO
       /\ isFile' = [isFile EXCEPT !.errs = @ - 1]
       /\ \/ UNCHANGED <<isFd, isTee>>
          \/ Teed /\ isFd' = isFd + Room(z) /\ isTee' = [isTee EXCEPT !.failed = TRUE]

------------------------------------------------------------------------------
Return(status, data, at) ==
    /\ isRet' = [status |-> IF isRet.status = "error" THEN "error" ELSE status, data |-> data]
    /\ isAt' = at
    /\ isOp' = NoOp

(* After an error the callers only close, and pass it on                       *)
(* (apk_istream_close_error).                                                  *)
Usable == isOp = NoOp /\ isStack # <<>> /\ ~Top.spent /\ isRet.status # "error"

IsCall(op, n) ==
    /\ Usable
    /\ isFile.calls > 0
    /\ isFile' = [isFile EXCEPT !.calls = @ - 1]
    /\ isOp' = [NoOp EXCEPT !.op = op, !.size = n, !.left = n]
    /\ UNCHANGED <<isStack, isMem, isFd, isAt, isRet, isTee>>

(* apk_istream_read_max, and apk_istream_read, which wants all of it.          *)
Reading == isOp.op \in {"read_max", "read"} /\ Top.err >= 0 /\ isOp.left > 0

IsCopy ==
    /\ Reading
    /\ Top.ptr # Top.end
    /\ LET r == Min({isOp.left, Buffered(Top)}) IN
       /\ isOp' = [isOp EXCEPT !.left = @ - r, !.got = @ \o Bytes(Top.ptr, r), !.ret = r]
       /\ isStack' = SetTop(isStack, [Top EXCEPT !.ptr = @ + r])
    /\ UNCHANGED <<isMem, isFd, isAt, isRet, isTee, isFile>>

(* A large read goes to the caller's memory; the empty buffer keeps step with  *)
(* the file offset modulo IsSync.                                              *)
DirectAt(r) == (Top.ptr + r) % IsSync

IsReadDirect(r) ==
    /\ Reading
    /\ Top.ptr = Top.end /\ Top.err = 0
    /\ isOp.left > Top.size \div 4
    /\ r \in Reads(isOp.left)
    /\ isStack' = SetTop(Passed(r), [Passed(r)[Depth] EXCEPT !.ptr = DirectAt(r), !.end = DirectAt(r)])
    /\ isOp' = [isOp EXCEPT !.left = @ - r, !.got = @ \o [i \in 1..r |-> isFd + i], !.ret = r]
    /\ isFd' = isFd + r
    /\ TeeWrite(r)
    /\ UNCHANGED <<isMem, isAt, isRet, isFile>>

IsReadFill(r) ==
    LET at == Top.ptr % IsSync IN
    /\ Reading
    /\ Top.ptr = Top.end /\ Top.err = 0
    /\ isOp.left <= Top.size \div 4
    /\ r \in Reads(Top.size - at)
    /\ ReadInto(at, r, SetTop(Passed(r), [Passed(r)[Depth] EXCEPT !.ptr = at, !.end = at + r]))
    /\ isOp' = [isOp EXCEPT !.ret = r]
    /\ UNCHANGED <<isAt, isRet, isFile>>

(* A failed fill has rewound the empty buffer.                                 *)
Rewound == IF isOp.left <= Top.size \div 4 THEN [Top EXCEPT !.ptr = @ % IsSync, !.end = Top.ptr % IsSync] ELSE Top

(* The loop ends: everything was read, the end or an error came, or the stream *)
(* had failed before.  r is the result of the last read.                       *)
ReadReturns(r) ==
    LET done == isOp.size - isOp.left
        s == IF Top.err < 0 THEN Top
             ELSE IF r < 0 THEN apk_istream_error(Rewound, r)
             ELSE IF done = 0 /\ Top.err = 0 THEN apk_istream_error(Rewound, EOF) ELSE Top
        short == apk_istream_error(s, APKE_EOF)
    IN IF isOp.op = "read" /\ (r < 0 \/ isOp.left > 0)
            THEN isStack' = SetTop(isStack, short) /\ Return(IF r < 0 THEN "error" ELSE "eof", <<>>, isAt + done)
       ELSE IF r < 0 THEN isStack' = SetTop(isStack, s) /\ Return("error", <<>>, isAt + done)
       ELSE isStack' = SetTop(isStack, s) /\ Return(IF done = 0 THEN "eof" ELSE "data", isOp.got, isAt + done)

IsReadEnds ==
    /\ isOp.op \in {"read_max", "read"}
    /\ \/ /\ Top.err < 0 \/ isOp.left = 0 \/ (Top.ptr = Top.end /\ Top.err # 0)
          /\ ReadReturns(IF Top.err < 0 THEN Top.err ELSE isOp.ret)
          /\ UNCHANGED <<isFd, isTee, isFile>>
       \/ /\ Reading /\ Top.ptr = Top.end /\ Top.err = 0
          /\ \E r \in {0, EIO, ECONNABORTED} : NoRead(isOp.left, r) /\ ReadReturns(r)
    /\ UNCHANGED isMem

------------------------------------------------------------------------------
(* __apk_istream_fill: the rest of the buffer is moved to its front, or a full *)
(* buffer refused.                                                             *)
Token == {i \in Top.ptr..(Top.end - 1) : isMem[i] \in IsTokens}
Wants ==
    \/ isOp.op \in {"peek", "get"} /\ Buffered(Top) < isOp.size
    \/ isOp.op \in {"get_max", "skip", "segskip"} /\ Top.ptr = Top.end
    \/ isOp.op = "get_delim" /\ Token = {}
Full == Top.ptr < IsSync /\ Top.end = Top.size

IsFill(r) ==
    LET front == IF Top.ptr >= IsSync THEN Top.ptr % IsSync ELSE Top.ptr
        used == Buffered(Top)
        moved == [i \in DOMAIN isMem |-> IF i \in front..(front + used - 1) THEN isMem[Top.ptr + (i - front)] ELSE isMem[i]]
        end == front + used
    IN /\ Wants /\ Top.err = 0 /\ ~Full
       /\ \/ /\ r \in Reads(Top.size - end)
             /\ isFd' = isFd + r
             /\ isMem' = [i \in DOMAIN isMem |-> IF i \in end..(end + r - 1) THEN isFd + (i - end) + 1 ELSE moved[i]]
             /\ isStack' = SetTop(Passed(r), [Passed(r)[Depth] EXCEPT !.ptr = front, !.end = end + r])
             /\ TeeWrite(r)
             /\ UNCHANGED isFile
          \/ /\ r \in {0, EIO, ECONNABORTED}
             /\ NoRead(Top.size - end, r)
             /\ isMem' = moved
             /\ isStack' = SetTop(isStack, apk_istream_error([Top EXCEPT !.ptr = front, !.end = end], IF r = 0 THEN EOF ELSE r))
       /\ isOp' = [isOp EXCEPT !.ret = IF isOp.op = "segskip" THEN @ ELSE 1]
       /\ UNCHANGED <<isAt, isRet>>

(* What the last fill returned when it was not 0.                              *)
Stopped == Wants /\ (Top.err # 0 \/ Full)
FillError == IF Top.err # 0 THEN Top.err ELSE APKE_BUFFER_SIZE

IsPeekGet ==
    /\ isOp.op \in {"peek", "get"}
    /\ LET e == IF FillError > 0 THEN APKE_EOF ELSE FillError IN
       IF Stopped \/ Top.err < 0
       THEN /\ isStack' = IF isOp.op = "get" THEN SetTop(isStack, apk_istream_error(Top, e)) ELSE isStack
            /\ Return(IF Top.err > 0 THEN "eof" ELSE "error", <<>>, isAt)
       ELSE /\ ~Wants
            /\ isStack' = IF isOp.op = "get" THEN SetTop(isStack, [Top EXCEPT !.ptr = @ + isOp.size]) ELSE isStack
            /\ Return("data", Bytes(Top.ptr, isOp.size), IF isOp.op = "get" THEN isAt + isOp.size ELSE isAt)
    /\ UNCHANGED <<isMem, isFd, isTee, isFile>>

(* apk_istream_get_max, and apk_istream_skip, which repeats it.                *)
IsGetMax ==
    /\ isOp.op \in {"get_max", "skip"}
    /\ LET k == Min({isOp.left, Buffered(Top)})
           taken == SetTop(isStack, [Top EXCEPT !.ptr = @ + k])
           done == isOp.size - isOp.left
       IN IF Stopped
          THEN isStack' = isStack /\ Return(IF Top.err < 0 THEN "error" ELSE "eof", <<>>, isAt + done)
          ELSE /\ ~Wants
               /\ isStack' = taken
               /\ IF isOp.op = "get_max" THEN Return("data", Bytes(Top.ptr, k), isAt + k)
                  ELSE IF k = isOp.left THEN Return("data", <<>>, isAt + isOp.size)
                  ELSE isOp' = [isOp EXCEPT !.left = @ - k] /\ UNCHANGED <<isAt, isRet>>
    /\ UNCHANGED <<isMem, isFd, isTee, isFile>>

(* apk_istream_get_delim: the block excludes the token, which is consumed.     *)
AfterTokenAt(t) == t
AfterToken(t) == t + 1

IsGetDelim ==
    /\ isOp.op = "get_delim"
    /\ LET t == Min(Token)
           rest == Buffered(Top)
       IN IF Top.err # 0 /\ rest = 0 /\ isOp.ret = 0
          THEN isStack' = isStack /\ Return(IF Top.err < 0 THEN "error" ELSE "eof", <<>>, isAt)
          ELSE IF Token # {}
          THEN /\ isStack' = SetTop(isStack, [Top EXCEPT !.ptr = AfterToken(t)])
               /\ Return("data", Bytes(Top.ptr, t - Top.ptr), isAt + (AfterToken(t) - Top.ptr))
          ELSE /\ Stopped
               /\ IF FillError < 0
                  THEN /\ isStack' = SetTop(isStack, apk_istream_error(Top, FillError))
                       /\ Return("error", <<>>, isAt)
                  ELSE /\ isStack' = SetTop(isStack, [Top EXCEPT !.ptr = 0, !.end = 0])
                       /\ Return("data", Bytes(Top.ptr, rest), isAt + rest)
    /\ UNCHANGED <<isMem, isFd, isTee, isFile>>

------------------------------------------------------------------------------
(* apk_istream_from_fd, apk_istream_from_blob and a stream that is mapped.     *)
IsOpen(kind) ==
    /\ isStack = <<>> /\ isRet.status = "none"
    /\ IF kind = "fd"
       THEN isStack' = <<Stream("fd", 0, 0, IsBufSize, 0)>> /\ UNCHANGED isMem
       ELSE isStack' = <<Stream("blob", 0, IsLen, IsLen, EOF)>> /\ isMem' = [i \in DOMAIN isMem |-> IF i < IsLen THEN i + 1 ELSE 0]
    /\ isFile' \in {[good |-> g, errs |-> IsMaxErr, calls |-> IsMaxCalls] : g \in BOOLEAN}
    /\ UNCHANGED <<isFd, isOp, isAt, isRet, isTee>>

(* apk_istream_segment: takes its bytes from the parent's buffer; unless more  *)
(* is buffered, the parent cannot be used before the segment is closed.  Its   *)
(* callers have just read a header that says how long the segment is.          *)
Unusable(s) == [s EXCEPT !.ptr = NULL, !.end = NULL]
SegmentParent(n) == IF Buffered(Top) > n THEN [Top EXCEPT !.ptr = @ + n] ELSE Unusable(Top)

IsSegment(n) ==
    /\ Usable
    /\ isRet.status = "data"
    /\ Top.kind # "verify" /\ Depth < 3
    /\ LET more == Buffered(Top) > n
           end == IF more THEN Top.ptr + n ELSE Top.end
           s == [Stream("segment", Top.ptr, end, Top.size, 0) EXCEPT
                    !.left = n - (end - Top.ptr), !.align = IF more THEN 0 ELSE Top.end, !.start = isAt, !.len = n]
       IN isStack' = Append(SetTop(isStack, SegmentParent(n)), s)
    /\ UNCHANGED <<isMem, isFd, isOp, isAt, isRet, isTee, isFile>>

(* apk_istream_verify of the segment that holds a file: what is buffered is    *)
(* hashed at once, the rest as it is read; len counts what was hashed.         *)
Hashed == Buffered(Top)

IsVerify ==
    /\ Usable
    /\ Top.kind = "segment" /\ Top.start = isAt
    /\ LET s == [Stream("verify", Top.ptr, Top.end, Top.size, 0) EXCEPT
                    !.left = Top.len - Hashed, !.len = Hashed, !.start = isAt]
       IN isStack' = Append(SetTop(isStack, [Top EXCEPT !.spent = TRUE]), s)
    /\ UNCHANGED <<isMem, isFd, isOp, isAt, isRet, isTee, isFile>>

(* apk_istream_tee of the descriptor's stream: what is buffered is written     *)
(* first.  If that fails an optional tee is left out.                          *)
TeeBuffered == Buffered(Top)

IsTeeOpen ==
    /\ Usable
    /\ isRet.status \in {"none", "data"}
    /\ Depth = 1 /\ Top.kind = "fd" /\ ~isTee.on
    /\ \/ /\ isTee' = [isTee EXCEPT !.on = TRUE, !.base = isAt, !.written = TeeBuffered]
          /\ isStack' = Append(isStack, Stream("tee", Top.ptr, Top.end, Top.size, 0))
          /\ UNCHANGED isFile
       \/ /\ Buffered(Top) > 0 /\ isFile.errs > 0
          /\ isFile' = [isFile EXCEPT !.errs = @ - 1]
          /\ isTee' = [isTee EXCEPT !.on = TRUE, !.failed = TRUE]
          /\ UNCHANGED isStack
    /\ UNCHANGED <<isMem, isFd, isOp, isAt, isRet>>

CloseStatus(e) == IF e < 0 THEN "error" ELSE "closed"
SegmentEnd(s) == Min({IsLen, s.start + s.len} \cup {isStack[k].start + isStack[k].len : k \in Segments})

IsCloseSegment ==
    /\ isOp = NoOp /\ isStack # <<>>
    /\ Top.kind = "segment"
    /\ LET parent == isStack[Depth - 1]
           back == IF parent.ptr = NULL
                   THEN [parent EXCEPT !.ptr = Top.align % IsSync, !.end = Top.align % IsSync] ELSE parent
       IN isStack' = [Front(isStack) EXCEPT ![Depth - 1] = back]
    /\ IF Top.left = 0
       THEN Return(CloseStatus(Top.err), <<>>, SegmentEnd(Top))
       ELSE /\ isOp' = [NoOp EXCEPT !.op = "segskip", !.size = Top.left, !.left = Top.left, !.ret = Top.err,
                                    !.end = Top.start + Top.len]
            /\ UNCHANGED <<isAt, isRet>>
    /\ UNCHANGED <<isMem, isFd, isTee, isFile>>

(* apk_istream_skip of what the segment left; its result is not looked at.     *)
IsSegmentSkip ==
    /\ isOp.op = "segskip"
    /\ LET k == Min({isOp.left, Buffered(Top)})
           end == Min({IsLen, isOp.end} \cup {isStack[j].start + isStack[j].len : j \in Segments})
       IN IF Stopped
          THEN isStack' = isStack /\ Return(CloseStatus(isOp.ret), <<>>, end)
          ELSE /\ ~Wants
               /\ isStack' = SetTop(isStack, [Top EXCEPT !.ptr = @ + k])
               /\ IF k = isOp.left THEN Return(CloseStatus(isOp.ret), <<>>, end)
                  ELSE isOp' = [isOp EXCEPT !.left = @ - k] /\ UNCHANGED <<isAt, isRet>>
    /\ UNCHANGED <<isMem, isFd, isTee, isFile>>

(* digest_close: the digest is compared when exactly size bytes were hashed.   *)
IsCloseVerify ==
    /\ isOp = NoOp /\ isStack # <<>>
    /\ Top.kind = "verify"
    /\ LET s == IF Top.left = 0 /\ ~isFile.good THEN apk_istream_error(Top, APKE_FILE_INTEGRITY) ELSE Top IN
       Return(CloseStatus(s.err), <<>>, isAt)
    /\ isStack' = Front(isStack)
    /\ UNCHANGED <<isMem, isFd, isTee, isFile>>

(* Close of the descriptor's stream, or of the tee with it: a reader's error   *)
(* cancels the copy.                                                           *)
IsClose ==
    /\ isOp = NoOp /\ isStack # <<>>
    /\ Top.kind \in {"fd", "blob", "tee"}
    /\ LET e == IF isStack[1].err < 0 THEN isStack[1].err ELSE Top.err
           ok == e >= 0 /\ (Top.kind = "tee" => ~isTee.failed)
       IN /\ Return(IF ok THEN "closed" ELSE "error", <<>>, isAt)
          /\ isTee' = [isTee EXCEPT !.renamed = ok /\ Top.kind = "tee"]
    /\ isStack' = <<>>
    /\ UNCHANGED <<isMem, isFd, isFile>>

IsInit ==
    /\ isStack = <<>>
    /\ isMem = [i \in 0..(Max({IsBufSize, IsLen}) - 1) |-> 0]
    /\ isFd = 0
    /\ isOp = NoOp
    /\ isAt = 0
    /\ isRet = [status |-> "none", data |-> <<>>]
    /\ isTee = [on |-> FALSE, base |-> 0, written |-> 0, failed |-> FALSE, renamed |-> FALSE]
    /\ isFile = [good |-> TRUE, errs |-> 0, calls |-> 0]

IsStep ==
    \/ IsCopy \/ IsReadEnds \/ IsPeekGet \/ IsGetMax \/ IsGetDelim \/ IsSegmentSkip
    \/ \E r \in 1..IsLen : IsReadDirect(r) \/ IsReadFill(r)
    \/ \E r \in {EIO, ECONNABORTED} \cup 0..IsLen : IsFill(r)

IsNext ==
    \/ \E kind \in {"fd", "blob"} : IsOpen(kind)
    \/ \E n \in IsSizes : IsSegment(n) \/ \E op \in {"read_max", "read", "peek", "get", "get_max", "skip"} : IsCall(op, n)
    \/ IsCall("get_delim", 0)
    \/ IsVerify \/ IsTeeOpen \/ IsCloseSegment \/ IsCloseVerify \/ IsClose
    \/ IsStep

IsSpec == IsInit /\ [][IsNext]_isVars

------------------------------------------------------------------------------
IsTypeOK ==
    /\ isFd \in 0..IsLen /\ isAt \in 0..IsLen
    /\ \A k \in 1..Depth : LET s == isStack[k] IN s.ptr \in -1..s.size /\ s.end \in s.ptr..s.size /\ s.err \in -5..1
    /\ isOp.left \in 0..isOp.size

(* Between operations the buffer of the stream in use holds the bytes that     *)
(* come next, and a parent that kept a part of the shared buffer still finds   *)
(* the bytes behind its segment there: moving data to the front, direct reads  *)
(* and the segment's own reads have not run over it.                           *)
IsBufferExact ==
    isOp = NoOp /\ isRet.status # "error" =>
        \A k \in 1..Depth :
            LET s == isStack[k]
                next == IF k = Depth THEN isAt ELSE isStack[k + 1].start + isStack[k + 1].len
                shares == k < Depth => isStack[k + 1].kind = "segment"
            IN shares /\ ~s.spent /\ s.ptr # NULL =>
                  \A i \in 1..Buffered(s) : isMem[s.ptr + i - 1] = next + i

(* A reader of an undisturbed stream finds byte b at an address congruent to b *)
(* modulo APK_ISTREAM_ALIGN_SYNC, which is what lets adb.c use the buffer in   *)
(* place as aligned records.                                                   *)
IsAligned ==
    isOp = NoOp /\ isStack # <<>> /\ ~Top.spent /\ (\A k \in 1..Depth : isStack[k].err = 0) =>
        Top.ptr % IsSync = isAt % IsSync

(* What the tee copies is what was pulled from the descriptor, and a copy that *)
(* is renamed into place after the reader saw the end is the whole file.       *)
IsTeeExact ==
    /\ Teed /\ ~isTee.failed => isTee.base + isTee.written = isFd
    /\ isTee.renamed => isTee.base + isTee.written = isFd

(* A reader who was handed every byte of a verified file and closes it without *)
(* an error has read the file the digest describes.                            *)
IsVerified ==
    [][isStack # <<>> /\ Top.kind = "verify" /\ Len(isStack') < Len(isStack) /\ isRet'.status = "closed"
          /\ isAt = isStack[Depth - 1].start + isStack[Depth - 1].len
       => isFile.good]_isVars

(* The buffered streams implement the stream of bytes their readers expect.    *)
IsEnds ==
    <<IsLen>> \o SelectSeq([k \in 1..Depth |-> IF isStack[k].kind = "segment" THEN isStack[k].start + isStack[k].len ELSE NULL],
                          LAMBDA e : e # NULL)
           \o (IF isOp.op = "segskip" THEN <<isOp.end>> ELSE <<>>)
Bytestream == INSTANCE ByteStream WITH
    Size <- IsLen, Asked <- IsSizes, Tokens <- IsTokens, pos <- isAt, ends <- IsEnds, block <- isRet.data, status <- isRet.status
IsRefinesByteStream == Bytestream!Spec

\* What the input streams promise: whatever the buffers and the sizes of the reads, readers
\* see the bytes of the source in order, each once (ByteStream); buffers hold what the
\* source says, a segment leaves its parent where it ends, tee copies what went past, and
\* what was read was verified.
IsCorrect ==
    /\ [](IsTypeOK /\ IsBufferExact /\ IsAligned /\ IsTeeExact)
    /\ IsVerified /\ IsRefinesByteStream
================================================================================
