------------------------------ MODULE ByteStream ------------------------------
(* What the readers of an apk_istream rely on (apk-tools/src/apk_io.h): a      *)
(* stream is a position in a sequence of bytes.  A block that is handed out is *)
(* the next bytes of the sequence, nothing is lost or seen twice, the end is   *)
(* reported only to who asked past it, and closing a segment leaves the outer  *)
(* stream behind the segment.  Bytes are numbered 1, 2, 3...                   *)
EXTENDS Integers, Sequences, FiniteSetsExt, Functions

CONSTANTS Size,    \* bytes of the file
          Asked,   \* how many bytes a reader may ask for
          Tokens   \* those that are the delimiter

VARIABLES pos,     \* bytes consumed
          ends,    \* where the segments that are open end, the file first
          block,   \* the bytes the last operation handed out
          status   \* none, data, eof, error or closed

Limit == Min(Range(ends))
Following(k) == [i \in 1..k |-> pos + i]

Init ==
    /\ pos = 0
    /\ ends = <<Size>>
    /\ block = <<>>
    /\ status = "none"

(* Hand out k of the n bytes asked for.                                        *)
Deliver(n, k) ==
    /\ status' = "data"
    /\ k \in 1..n
    /\ pos + k <= Limit
    /\ block' = Following(k)
    /\ pos' = pos + k
    /\ UNCHANGED ends

(* A block up to the next delimiter, which is consumed, or up to the end.      *)
Line ==
    LET next == {p \in (pos + 1)..Limit : p \in Tokens} IN
    /\ status' = "data"
    /\ IF next = {} THEN pos' = Limit /\ block' = Following(Limit - pos)
       ELSE pos' = Min(next) /\ block' = Following(Min(next) - 1 - pos)
    /\ UNCHANGED ends

Peek(n) ==
    /\ status' = "data"
    /\ pos + n <= Limit
    /\ block' = Following(n)
    /\ UNCHANGED <<pos, ends>>

Skip(n) ==
    /\ status' = "data"
    /\ pos + n <= Limit
    /\ pos' = pos + n
    /\ block' = <<>>
    /\ UNCHANGED ends

(* A short read may have consumed what was left.                               *)
EndOfStream(n) ==
    /\ status' = "eof"
    /\ pos + n > Limit
    /\ pos' \in pos..Limit
    /\ block' = <<>>
    /\ UNCHANGED ends

Fail ==
    /\ status' = "error"
    /\ pos' \in pos..Limit
    /\ block' = <<>>
    /\ UNCHANGED ends

OpenSegment(n) ==
    /\ ends' = Append(ends, pos + n)
    /\ UNCHANGED <<pos, block, status>>

(* Closing with an error may leave the outer stream anywhere in the segment.   *)
(* An error stays one.                                                         *)
CloseSegment ==
    /\ Len(ends) > 1
    /\ ends' = SubSeq(ends, 1, Len(ends) - 1)
    /\ block' = <<>>
    /\ \/ status # "error" /\ status' = "closed" /\ pos' = Limit
       \/ status' = "error" /\ pos' \in pos..Limit

(* Closing a stream that only watches, or the last one.                        *)
Close ==
    /\ block' = <<>>
    /\ status' \in {"closed", "error"}
    /\ status = "error" => status' = "error"
    /\ ends' \in {ends, <<Size>>}
    /\ UNCHANGED pos

Next ==
    \/ /\ status # "error"
       /\ \/ \E n \in Asked : (\E k \in 1..n : Deliver(n, k)) \/ Peek(n) \/ Skip(n) \/ EndOfStream(n) \/ OpenSegment(n)
          \/ Line \/ Fail
          \/ Limit = pos /\ EndOfStream(1)
    \/ CloseSegment \/ Close

Spec == Init /\ [][Next]_<<pos, ends, block, status>>
================================================================================
