-------------------------- MODULE AbuildFetchProofs --------------------------
(* Proofs about AbuildFetch for any number of fetches of one file, any length  *)
(* of the file and any number of failures, signals and ESTALE answers.         *)
EXTENDS AbuildFetch, FiniteSetTheorems, TLAPS

\* The part of a process that may touch the .part file.
AfBusy == {"probe", "curl", "wget", "xfer", "rename"}
AfGone == {"open", "done", "killed"}

\* A file that holds the first n chunks, each in its place.
AfFirst(n) == [i \in 1..n |-> i]

\* A process has the lock file open from open to the end, a file while its child runs, and holds the
\* lock of the inode it opened from acquire_lock to release_lock.
AfShape ==
    /\ AfTypeOK
    /\ afData \in [AfFile -> Seq(Nat)]
    /\ \A p \in AfProc :
         /\ afProc[p].fd = 0 <=> afProc[p].pc \in AfGone
         /\ afProc[p].file # 0 <=> afProc[p].pc = "xfer"
         /\ afProc[p].pc \in AfInside \cup {"release"} => afLock[afProc[p].fd] = p
         /\ afProc[p].pc = "trylock" => afProc[p].status # 0

\* As long as nothing failed, nobody unlinks the lock file before the file is fetched, and from then
\* on nobody goes on to fetch it.
AfFaultless ==
    afFaults = 0 =>
      IF afOut = 0
      THEN /\ ~afSplit
           /\ \A p \in AfProc : /\ afProc[p].pc \in {"open", "lock"} \cup AfInside
                                /\ afProc[p].pc # "open" => afProc[p].fd = afLink
      ELSE \A p \in AfProc : afProc[p].pc \notin AfBusy

\* afSplit tells whether two processes have been inside at once.
AfAlone ==
    ~afSplit => \A p, q \in AfProc :
                  afProc[p].pc \in AfInside /\ afProc[q].pc \in AfInside => p = q

\* The .part file is what its only writer has written, and whoever goes without an error leaves the
\* file behind.
AfIntact ==
    /\ afPart # 0 => afPart # afOut /\ \E n \in 0..AfChunks : afData[afPart] = AfFirst(n)
    /\ afOut # 0 => afData[afOut] = AfComplete
    /\ \A p \in AfProc :
         /\ afProc[p].pc = "xfer" =>
              afPart = afProc[p].file /\ afData[afPart] = AfFirst(afProc[p].pos)
         /\ afProc[p].pc = "rename" => afPart # 0 /\ afData[afPart] = AfComplete
         /\ afProc[p].pc \in {"release", "unlink", "close", "done"} /\ afProc[p].status = 0
              => afOut # 0

\* That is so while the lock works.
AfWhole == AfExclusive => AfIntact

\* The inductive invariant.
AfInv == AfShape /\ AfFaultless /\ AfAlone /\ AfWhole

------------------------------------------------------------------------------
(* There is always a name for one more file: fewer are in use than there are.  *)

\* AfUnusedInode is what it is meant to be when a process opens the lock file.
LEMMA UnusedInode ==
    ASSUME AfShape, NEW p \in AfProc, afProc[p].pc = "open", afLink = 0
    PROVE  /\ AfUnusedInode \in AfInode
           /\ \A q \in AfProc : afProc[q].fd # AfUnusedInode
<1>1. IsFiniteSet(AfInode) /\ Cardinality(AfInode) = Cardinality(AfProc) + AfMaxFaults
  <2>1. Cardinality(AfProc) \in Nat /\ AfMaxFaults \in Nat
    BY AfAssumption, FS_CardinalityType, Zenon
  <2>2. 1 \in Int /\ Cardinality(AfProc) + AfMaxFaults \in Int
    BY <2>1
  <2> QED BY <2>1, <2>2, FS_Interval DEF AfInode
<1>2. IsFiniteSet(AfProc \ {p}) /\ Cardinality(AfProc \ {p}) = Cardinality(AfProc) - 1
  BY AfAssumption, FS_RemoveElement, Zenon
<1>3. \E i \in AfInode : \A q \in AfProc : afProc[q].fd # i
  <2> SUFFICES ASSUME \A i \in AfInode : \E q \in AfProc : afProc[q].fd = i PROVE FALSE
    BY Zenon
  <2> DEFINE g == [i \in AfInode |-> CHOOSE q \in AfProc : afProc[q].fd = i]
  <2>1. \A i \in AfInode : g[i] \in AfProc /\ afProc[g[i]].fd = i
    BY Zenon
  <2>2. afProc[p].fd = 0 /\ 0 \notin AfInode
    BY DEF AfShape, AfGone, AfInode
  <2>3. g \in [AfInode -> AfProc \ {p}]
    BY <2>1, <2>2
  <2>4. Cardinality(AfProc \ {p}) < Cardinality(AfInode)
    BY <1>1, <1>2, AfAssumption, FS_CardinalityType
  <2> HIDE DEF g
  <2>5. \E x, y \in AfInode : x # y /\ g[x] = g[y]
    BY <1>1, <1>2, <2>3, <2>4, FS_PigeonHole
  <2> QED BY <2>1, <2>5, Zenon
<1>4. 0 \notin AfInode
  BY DEF AfInode
<1> QED BY <1>3, <1>4, Zenon DEF AfUnusedInode

\* AfUnusedFile is what it is meant to be when a child creates the .part file.
LEMMA UnusedFile ==
    ASSUME AfShape, NEW p \in AfProc, afProc[p].pc \in {"curl", "wget"}, afPart = 0
    PROVE  AfUnusedFile \in AfFile /\ AfUnusedFile \notin {afPart, afOut}
<1>1. IsFiniteSet(AfFile) /\ Cardinality(AfFile) = 2 * Cardinality(AfProc)
  <2>1. Cardinality(AfProc) \in Nat
    BY AfAssumption, FS_CardinalityType, Zenon
  <2>2. 1 \in Int /\ 2 * Cardinality(AfProc) \in Int
    BY <2>1
  <2> QED BY <2>1, <2>2, FS_Interval DEF AfFile
<1>2. IsFiniteSet(AfProc \ {p}) /\ Cardinality(AfProc \ {p}) = Cardinality(AfProc) - 1
  BY AfAssumption, FS_RemoveElement, Zenon
<1> DEFINE T == (AfProc \ {p}) \cup {AfNobody}
<1>3. IsFiniteSet(T) /\ Cardinality(T) = Cardinality(AfProc)
  <2>1. AfNobody \notin AfProc \ {p}
    BY AfAssumption, Zenon
  <2>2. IsFiniteSet(T) /\ Cardinality(T) = Cardinality(AfProc \ {p}) + 1
    BY <1>2, <2>1, FS_AddElement, Zenon
  <2>3. Cardinality(AfProc) \in Nat
    BY AfAssumption, FS_CardinalityType
  <2> QED BY <1>2, <2>2, <2>3
<1>4. Cardinality(T) < Cardinality(AfFile)
  <2>1. Cardinality(AfProc) \in Nat /\ Cardinality(AfProc) # 0
    BY AfAssumption, FS_CardinalityType, FS_EmptySet, Zenon
  <2> QED BY <2>1, <1>1, <1>3
<1>5. 0 \notin AfFile
  BY DEF AfFile
<1>6. \E f \in AfFile : f # afOut /\ \A q \in AfProc : afProc[q].file # f
  <2> SUFFICES ASSUME \A f \in AfFile : f = afOut \/ \E q \in AfProc : afProc[q].file = f
               PROVE  FALSE
    BY Zenon
  <2> DEFINE g == [f \in AfFile |-> IF f = afOut THEN AfNobody
                                    ELSE CHOOSE q \in AfProc : afProc[q].file = f]
  <2>1. \A f \in AfFile : f # afOut => g[f] \in AfProc /\ afProc[g[f]].file = f
    BY Zenon
  <2>2. afProc[p].file = 0
    BY Zenon DEF AfShape
  <2>3. g \in [AfFile -> T]
    BY <2>1, <2>2, <1>5
  <2>4. \A f \in AfFile : f = afOut <=> g[f] = AfNobody
    BY <2>1, AfAssumption, Zenon
  <2> HIDE DEF g, T
  <2>5. \E x, y \in AfFile : x # y /\ g[x] = g[y]
    BY <1>1, <1>3, <1>4, <2>3, FS_PigeonHole
  <2> QED BY <2>1, <2>4, <2>5
<1> QED BY <1>5, <1>6, Zenon DEF AfUnusedFile

------------------------------------------------------------------------------
(* What a child's write does to a file.                                        *)

\* A sequence is a function on the numbers up to its length.
LEMMA SeqIndices ==
    ASSUME NEW S, NEW s \in Seq(S)
    PROVE  Len(s) \in Nat /\ DOMAIN s = 1..Len(s) /\ s \in [1..Len(s) -> S]
  OBVIOUS

\* A function on the numbers up to n is a sequence of that length.
LEMMA SeqOfFunction ==
    ASSUME NEW S, NEW n \in Nat, NEW s \in [1..n -> S]
    PROVE  s \in Seq(S) /\ Len(s) = n
  OBVIOUS

\* A sequence and one more element, as a function.
LEMMA AppendIsFunction ==
    ASSUME NEW S, NEW s \in Seq(S), NEW e \in S
    PROVE  Append(s, e) = [i \in 1..(Len(s) + 1) |-> IF i = Len(s) + 1 THEN e ELSE s[i]]
<1>1. Append(s, e) \in Seq(S) /\ Len(Append(s, e)) = Len(s) + 1
  OBVIOUS
<1>2. Append(s, e) \in [1..(Len(s) + 1) -> S]
  BY <1>1, SeqIndices, Zenon
<1>3. \A i \in 1..(Len(s) + 1) : Append(s, e)[i] = IF i = Len(s) + 1 THEN e ELSE s[i]
  BY SeqIndices
<1> QED BY <1>2, <1>3, Zenon

\* A write gives a sequence of numbers again.
LEMMA PutType ==
    ASSUME NEW s \in Seq(Nat), NEW n \in Nat \ {0}, NEW a \in BOOLEAN
    PROVE  AfPut(s, n, a) \in Seq(Nat)
<1>1. CASE a
  BY <1>1 DEF AfPut
<1>2. CASE ~a
  <2> DEFINE m == IF n > Len(s) THEN n ELSE Len(s)
             t == [i \in 1..m |-> IF i = n THEN n ELSE IF i <= Len(s) THEN s[i] ELSE 0]
  <2>1. Len(s) \in Nat /\ s \in [1..Len(s) -> Nat]
    BY SeqIndices, Zenon
  <2>2. m \in Nat
    BY <2>1, Zenon
  <2>3. t \in [1..m -> Nat]
    BY <2>1, <2>2
  <2>4. t \in Seq(Nat)
    BY <2>2, <2>3, SeqOfFunction, Zenon
  <2> QED BY <1>2, <2>4, Zenon DEF AfPut
<1> QED BY <1>1, <1>2, Zenon

\* The first n chunks, and the next one written behind them.
LEMMA FirstGrows ==
    ASSUME NEW n \in Nat, NEW a \in BOOLEAN
    PROVE  /\ Len(AfFirst(n)) = n
           /\ AfPut(AfFirst(n), n + 1, a) = AfFirst(n + 1)
<1>1. AfFirst(n) \in Seq(Nat) /\ Len(AfFirst(n)) = n
  <2>1. AfFirst(n) \in [1..n -> Nat]
    BY DEF AfFirst
  <2>2. AfFirst(n) \in Seq(Nat)
    BY <2>1, SeqOfFunction, Zenon
  <2>3. DOMAIN AfFirst(n) = 1..n
    BY Zenon DEF AfFirst
  <2> QED BY <2>2, <2>3, SeqIndices
<1>2. CASE a
  <2>1. AfPut(AfFirst(n), n + 1, a) = Append(AfFirst(n), n + 1)
    BY <1>2, Zenon DEF AfPut
  <2>2. Append(AfFirst(n), n + 1) = [i \in 1..(n + 1) |-> IF i = n + 1 THEN n + 1 ELSE AfFirst(n)[i]]
    BY <1>1, AppendIsFunction
  <2>3. \A i \in 1..(n + 1) : i # n + 1 => AfFirst(n)[i] = i
    BY DEF AfFirst
  <2>4. [i \in 1..(n + 1) |-> IF i = n + 1 THEN n + 1 ELSE AfFirst(n)[i]] = AfFirst(n + 1)
    BY <2>3, Zenon DEF AfFirst
  <2> QED BY <1>1, <2>1, <2>2, <2>4, Zenon
<1>3. CASE ~a
  BY <1>1, <1>3 DEF AfPut, AfFirst
<1> QED BY <1>1, <1>2, <1>3, Zenon

\* An empty file, and a complete one.
LEMMA FirstEnds == AfFirst(0) = <<>> /\ AfFirst(AfChunks) = AfComplete
  BY AfAssumption DEF AfFirst, AfComplete

------------------------------------------------------------------------------
(* The lock.                                                                   *)

\* While the lock works, a process that fetches is the only one inside.
LEMMA Sole ==
    ASSUME AfInv, AfExclusive, NEW p \in AfProc, afProc[p].pc \in AfBusy
    PROVE  /\ ~afSplit
           /\ \A q \in AfProc \ {p} : afProc[q].pc \notin AfInside
<1>1. ~afSplit
  BY Zenon DEF AfInv, AfFaultless, AfExclusive
<1> QED BY <1>1, Zenon DEF AfInv, AfAlone, AfBusy, AfInside

\* The initial state.
LEMMA InitInv == AfInit => AfInv
<1> SUFFICES ASSUME AfInit PROVE AfInv
  BY Zenon
<1> USE AfAssumption
<1>1. AfTypeOK
  <2>1. 0 \in 0..AfChunks /\ 0 \in 0..AfMaxFaults
    OBVIOUS
  <2> QED BY <2>1, Zenon DEF AfInit, AfTypeOK, AfRecord, AfPcs
<1>2. AfShape
  BY <1>1 DEF AfInit, AfShape, AfGone, AfInside
<1>3. AfFaultless /\ AfAlone /\ AfWhole
  BY Zenon DEF AfInit, AfFaultless, AfAlone, AfWhole, AfIntact, AfInside
<1> QED BY <1>2, <1>3, Zenon DEF AfInv

\* The properties follow from the invariant.
LEMMA InvCorrect == AfInv => AfCorrect
<1> SUFFICES ASSUME AfInv PROVE AfCorrect
  BY Zenon
<1>1. AfTypeOK
  BY Zenon DEF AfInv, AfShape
<1>2. AfOneWriter
  <2> SUFFICES ASSUME NEW p \in AfProc, NEW q \in AfProc,
                      afProc[p].file # 0, afProc[q].file # 0, p # q
               PROVE  afFaults > 0 /\ afProc[p].fd # afProc[q].fd
    BY Zenon DEF AfOneWriter
  <2>1. afProc[p].pc = "xfer" /\ afProc[q].pc = "xfer"
    BY Zenon DEF AfInv, AfShape
  <2>2. afProc[p].fd # afProc[q].fd
    BY <2>1, Zenon DEF AfInv, AfShape, AfInside
  <2>3. afFaults # 0
    BY <2>1, Sole, Zenon DEF AfExclusive, AfBusy, AfInside
  <2> QED BY <1>1, <2>2, <2>3, AfAssumption DEF AfTypeOK
<1>3. AfOutComplete /\ AfZeroMeansFetched
  BY Zenon DEF AfInv, AfWhole, AfIntact, AfOutComplete, AfZeroMeansFetched
<1> QED BY <1>1, <1>2, <1>3, Zenon DEF AfCorrect

------------------------------------------------------------------------------
(* One lemma per action of AfNext: r is what becomes of the process.           *)

\* A step of p changes the record of p only.
LEMMA OneMoves ==
    ASSUME AfTypeOK, NEW p \in AfProc, NEW r \in AfRecord, afProc' = [afProc EXCEPT ![p] = r]
    PROVE  /\ afProc' \in [AfProc -> AfRecord]
           /\ afProc'[p] = r
           /\ \A q \in AfProc : q # p => afProc'[q] = afProc[q]
  BY Zenon DEF AfTypeOK

\* The lock of an inode is freed or taken.
LEMMA LockType ==
    ASSUME AfTypeOK, NEW i \in AfInode \cup {0}, NEW j \in AfInode, NEW p \in AfProc
    PROVE  /\ AfFreed(i) \in [AfInode -> AfProc \cup {AfNobody}]
           /\ [afLock EXCEPT ![j] = p] \in [AfInode -> AfProc \cup {AfNobody}]
  BY Zenon DEF AfTypeOK, AfFreed

\* What acquire_lock and fetch set of a process are values of those fields.
LEMMA OpenRecord ==
    ASSUME NEW x \in AfRecord, NEW i \in AfInode
    PROVE  [x EXCEPT !.pc = "lock", !.fd = i] \in AfRecord
  BY Zenon DEF AfRecord, AfPcs

\* The same of the .part file that is there or not.
LEMMA ProbeRecord ==
    ASSUME NEW x \in AfRecord, NEW b \in BOOLEAN
    PROVE  [x EXCEPT !.pc = "curl", !.resume = b] \in AfRecord
  BY Zenon DEF AfRecord, AfPcs

\* acquire_lock opens the lock file, or makes it.
LEMMA OpenInv == ASSUME AfInv, NEW p \in AfProc, AfOpen(p) PROVE AfInv'
<1> DEFINE i == IF afLink = 0 THEN AfUnusedInode ELSE afLink
<1> DEFINE r == [afProc[p] EXCEPT !.pc = "lock", !.fd = i]
<1>1. AfTypeOK /\ afProc[p] \in AfRecord
  BY Zenon DEF AfInv, AfShape, AfTypeOK
<1>2. /\ afProc[p].pc = "open"
      /\ afLink' = i
      /\ afProc' = [afProc EXCEPT ![p] = r]
      /\ UNCHANGED <<afLock, afPart, afOut, afData, afFaults, afSplit>>
  BY <1>1, Zenon DEF AfOpen, AfTypeOK
<1>3. i \in AfInode /\ r \in AfRecord
  <2>1. i \in AfInode
    BY <1>1, <1>2, UnusedInode, Zenon DEF AfInv, AfTypeOK
  <2> QED BY <1>1, <2>1, OpenRecord, Zenon
<1> HIDE DEF r
<1>4. /\ afProc' \in [AfProc -> AfRecord] /\ afProc'[p] = r
      /\ \A q \in AfProc : q # p => afProc'[q] = afProc[q]
  BY <1>1, <1>2, <1>3, OneMoves, Zenon
<1>5. AfShape'
  <2>1. AfTypeOK'
    BY <1>1, <1>2, <1>4, <1>3, Zenon DEF AfTypeOK
  <2> QED BY <1>1, <1>2, <1>4, <2>1, <1>3 DEF AfInv, AfShape, AfTypeOK, AfRecord, AfGone, AfInside, r, AfInode
<1>6. AfFaultless'
  BY <1>1, <1>2, <1>4, <1>3 DEF AfInv, AfShape, AfTypeOK, AfRecord, AfFaultless, AfGone, AfInside, AfBusy, r, i
<1>7. AfAlone'
  BY <1>1, <1>2, <1>4 DEF AfInv, AfAlone, AfInside, r
<1>8. AfWhole'
  <2> SUFFICES ASSUME AfExclusive' PROVE AfIntact'
    BY Zenon DEF AfWhole
  <2>1. AfExclusive /\ AfIntact
    BY <1>1, <1>2, Zenon DEF AfInv, AfWhole, AfExclusive, AfTypeOK
  <2> QED BY <1>1, <1>2, <1>4, <2>1 DEF AfIntact, AfRecord, r
<1> QED BY <1>5, <1>6, <1>7, <1>8, Zenon DEF AfInv

\* lockf gives the lock of the inode that was opened.
LEMMA AcquireInv == ASSUME AfInv, NEW p \in AfProc, AfAcquire(p) PROVE AfInv'
<1> DEFINE r == [afProc[p] EXCEPT !.pc = "check"]
<1>1. AfTypeOK /\ afProc[p] \in AfRecord
  BY DEF AfInv, AfShape, AfTypeOK
<1>2. /\ afProc[p].pc = "lock" /\ afLock[afProc[p].fd] = AfNobody
      /\ afLock' = [afLock EXCEPT ![afProc[p].fd] = p]
      /\ afSplit' = (afSplit \/ \E q \in AfProc \ {p} : afProc[q].pc \in AfInside)
      /\ afProc' = [afProc EXCEPT ![p] = r]
      /\ UNCHANGED <<afLink, afPart, afOut, afData, afFaults>>
  BY <1>1, Zenon DEF AfAcquire, AfGoto, AfTypeOK
<1>3. afProc[p].fd \in AfInode /\ r \in AfRecord
  BY <1>1, <1>2, ZenonT(30) DEF AfInv, AfShape, AfGone, AfRecord, AfPcs
<1> HIDE DEF r
<1>4. /\ afProc' \in [AfProc -> AfRecord] /\ afProc'[p] = r
      /\ \A q \in AfProc : q # p => afProc'[q] = afProc[q]
  BY <1>1, <1>2, <1>3, OneMoves, Zenon
<1>5. AfShape'
  <2>1. AfTypeOK'
    BY <1>1, <1>2, <1>4, <1>3, Zenon DEF AfTypeOK
  <2> QED BY <1>1, <1>2, <1>4, <2>1, <1>3, AfAssumption DEF AfInv, AfShape, AfTypeOK, AfRecord, AfGone, AfInside, r
<1>6. AfFaultless'
  BY <1>1, <1>2, <1>4, AfAssumption DEF AfInv, AfShape, AfTypeOK, AfRecord, AfFaultless, AfGone, AfInside, AfBusy, r
<1>7. AfAlone'
  BY <1>1, <1>2, <1>4, ZenonT(30) DEF AfInv, AfAlone, AfInside, r
<1>8. AfWhole'
  <2> SUFFICES ASSUME AfExclusive' PROVE AfIntact'
    BY DEF AfWhole
  <2>1. AfExclusive /\ AfIntact
    BY <1>1, <1>2, Zenon DEF AfInv, AfWhole, AfExclusive, AfTypeOK
  <2> QED BY <1>1, <1>2, <1>4, <2>1 DEF AfIntact, AfRecord, r
<1> QED BY <1>5, <1>6, <1>7, <1>8 DEF AfInv

\* lockf fails with ESTALE and the lock file is opened again.
LEMMA EstaleInv == ASSUME AfInv, NEW p \in AfProc, AfEstale(p) PROVE AfInv'
<1> DEFINE r == [afProc[p] EXCEPT !.pc = "open", !.fd = 0]
<1>1. AfTypeOK /\ afProc[p] \in AfRecord
  BY DEF AfInv, AfShape, AfTypeOK
<1>2. /\ afProc[p].pc = "lock"
      /\ afFaults < AfMaxFaults /\ afFaults' = afFaults + 1
      /\ afProc' = [afProc EXCEPT ![p] = r]
      /\ UNCHANGED <<afLink, afLock, afPart, afOut, afData, afSplit>>
  BY <1>1, Zenon DEF AfEstale, AfFaultHappens, AfTypeOK
<1>3. r \in AfRecord
  BY <1>1, ZenonT(30) DEF AfRecord, AfPcs
<1> HIDE DEF r
<1>4. /\ afProc' \in [AfProc -> AfRecord] /\ afProc'[p] = r
      /\ \A q \in AfProc : q # p => afProc'[q] = afProc[q]
  BY <1>1, <1>2, <1>3, OneMoves, Zenon
<1>5. AfShape'
  <2>1. AfTypeOK'
    BY <1>1, <1>2, <1>4, AfAssumption DEF AfTypeOK
  <2> QED BY <1>1, <1>2, <1>4, <2>1 DEF AfInv, AfShape, AfTypeOK, AfRecord, AfGone, AfInside, r
<1>6. AfFaultless'
  BY <1>1, <1>2, <1>4, AfAssumption DEF AfInv, AfShape, AfTypeOK, AfRecord, AfFaultless, AfGone, AfInside, AfBusy, r
<1>7. AfAlone'
  BY <1>1, <1>2, <1>4 DEF AfInv, AfAlone, AfInside, r
<1>8. AfWhole'
  <2> SUFFICES ASSUME AfExclusive' PROVE AfIntact'
    BY DEF AfWhole
  <2>1. AfExclusive /\ AfIntact
    BY <1>1, <1>2, AfAssumption DEF AfInv, AfWhole, AfExclusive, AfTypeOK
  <2> QED BY <1>1, <1>2, <1>4, <2>1 DEF AfIntact, AfRecord, r
<1> QED BY <1>5, <1>6, <1>7, <1>8 DEF AfInv

\* fetch finds the file there, or goes on.
LEMMA CheckInv == ASSUME AfInv, NEW p \in AfProc, AfCheck(p) PROVE AfInv'
<1> DEFINE r == [afProc[p] EXCEPT !.pc = IF afOut # 0 THEN "release" ELSE "probe"]
<1>1. AfTypeOK /\ afProc[p] \in AfRecord
  BY DEF AfInv, AfShape, AfTypeOK
<1>2. /\ afProc[p].pc = "check"
      /\ afProc' = [afProc EXCEPT ![p] = r]
      /\ UNCHANGED <<afLink, afLock, afPart, afOut, afData, afFaults, afSplit>>
  BY <1>1, Zenon DEF AfCheck, AfGoto, AfTypeOK
<1>3. r \in AfRecord
  BY <1>1 DEF AfRecord, AfPcs
<1> HIDE DEF r
<1>4. /\ afProc' \in [AfProc -> AfRecord] /\ afProc'[p] = r
      /\ \A q \in AfProc : q # p => afProc'[q] = afProc[q]
  BY <1>1, <1>2, <1>3, OneMoves, Zenon
<1>5. AfShape'
  <2>1. AfTypeOK'
    BY <1>1, <1>2, <1>4, Zenon DEF AfTypeOK
  <2> QED BY <1>1, <1>2, <1>4, <2>1 DEF AfInv, AfShape, AfTypeOK, AfRecord, AfGone, AfInside, r
<1>6. AfFaultless'
  BY <1>1, <1>2, <1>4 DEF AfInv, AfShape, AfTypeOK, AfRecord, AfFaultless, AfGone, AfInside, AfBusy, r
<1>7. AfAlone'
  BY <1>1, <1>2, <1>4 DEF AfInv, AfAlone, AfInside, r
<1>8. AfWhole'
  <2> SUFFICES ASSUME AfExclusive' PROVE AfIntact'
    BY DEF AfWhole
  <2>1. AfExclusive /\ AfIntact
    BY <1>1, <1>2, Zenon DEF AfInv, AfWhole, AfExclusive, AfTypeOK
  <2> QED BY <1>1, <1>2, <1>4, <2>1 DEF AfIntact, AfRecord, r
<1> QED BY <1>5, <1>6, <1>7, <1>8 DEF AfInv

\* fetch looks for a .part file to resume.
LEMMA ProbeInv == ASSUME AfInv, NEW p \in AfProc, AfProbe(p) PROVE AfInv'
<1> DEFINE r == [afProc[p] EXCEPT !.pc = "curl", !.resume = afPart # 0]
<1>1. AfTypeOK /\ afProc[p] \in AfRecord
  BY DEF AfInv, AfShape, AfTypeOK
<1>2. /\ afProc[p].pc = "probe"
      /\ afProc' = [afProc EXCEPT ![p] = r]
      /\ UNCHANGED <<afLink, afLock, afPart, afOut, afData, afFaults, afSplit>>
  BY <1>1, Zenon DEF AfProbe, AfTypeOK
<1>3. r \in AfRecord
  <2>1. (afPart # 0) \in BOOLEAN
    BY Zenon
  <2> QED BY <1>1, <2>1, ProbeRecord, Zenon
<1> HIDE DEF r
<1>4. /\ afProc' \in [AfProc -> AfRecord] /\ afProc'[p] = r
      /\ \A q \in AfProc : q # p => afProc'[q] = afProc[q]
  BY <1>1, <1>2, <1>3, OneMoves, Zenon
<1>5. AfShape'
  <2>1. AfTypeOK'
    BY <1>1, <1>2, <1>4, Zenon DEF AfTypeOK
  <2> QED BY <1>1, <1>2, <1>4, <2>1, SMTT(30) DEF AfInv, AfShape, AfTypeOK, AfRecord, AfGone, AfInside, r
<1>6. AfFaultless'
  BY <1>1, <1>2, <1>4 DEF AfInv, AfShape, AfTypeOK, AfRecord, AfFaultless, AfGone, AfInside, AfBusy, r
<1>7. AfAlone'
  BY <1>1, <1>2, <1>4 DEF AfInv, AfAlone, AfInside, r
<1>8. AfWhole'
  <2> SUFFICES ASSUME AfExclusive' PROVE AfIntact'
    BY DEF AfWhole
  <2>1. AfExclusive /\ AfIntact
    BY <1>1, <1>2, Zenon DEF AfInv, AfWhole, AfExclusive, AfTypeOK
  <2> QED BY <1>1, <1>2, <1>4, <2>1 DEF AfIntact, AfRecord, r
<1> QED BY <1>5, <1>6, <1>7, <1>8 DEF AfInv

\* curl or wget cannot be started.
LEMMA ExecFailsInv == ASSUME AfInv, NEW p \in AfProc, AfExecFails(p) PROVE AfInv'
<1> DEFINE n == IF afProc[p].pc = "curl" THEN "wget" ELSE "release"
           st == IF afProc[p].pc = "wget" THEN 201 ELSE afProc[p].status
<1> DEFINE r == [afProc[p] EXCEPT !.pc = n, !.status = st]
<1>1. AfTypeOK /\ afProc[p] \in AfRecord
  BY DEF AfInv, AfShape, AfTypeOK
<1>2. /\ afProc[p].pc \in {"curl", "wget"}
      /\ afFaults < AfMaxFaults /\ afFaults' = afFaults + 1
      /\ afProc' = [afProc EXCEPT ![p] = r]
      /\ UNCHANGED <<afLink, afLock, afPart, afOut, afData, afSplit>>
  BY <1>1, ZenonT(30) DEF AfExecFails, AfFaultHappens, AfTypeOK
<1>3. r \in AfRecord
  <2>1. {"wget", "release"} \subseteq AfPcs
    BY Zenon DEF AfPcs
  <2>2. n \in AfPcs /\ st \in {0, 1, 33, 201}
    BY <1>1, <2>1 DEF AfRecord
  <2> HIDE DEF n, st
  <2> QED BY <1>1, <2>2, ZenonT(30) DEF AfRecord
<1> HIDE DEF r
<1>4. /\ afProc' \in [AfProc -> AfRecord] /\ afProc'[p] = r
      /\ \A q \in AfProc : q # p => afProc'[q] = afProc[q]
  BY <1>1, <1>2, <1>3, OneMoves, Zenon
<1>5. AfShape'
  <2>1. AfTypeOK'
    BY <1>1, <1>2, <1>4, AfAssumption DEF AfTypeOK
  <2> QED BY <1>1, <1>2, <1>4, <2>1 DEF AfInv, AfShape, AfTypeOK, AfRecord, AfGone, AfInside, r
<1>6. AfFaultless'
  BY <1>1, <1>2, <1>4, AfAssumption DEF AfInv, AfShape, AfTypeOK, AfRecord, AfFaultless, AfGone, AfInside, AfBusy, r
<1>7. AfAlone'
  BY <1>1, <1>2, <1>4 DEF AfInv, AfAlone, AfInside, r
<1>8. AfWhole'
  <2> SUFFICES ASSUME AfExclusive' PROVE AfIntact'
    BY DEF AfWhole
  <2>1. AfExclusive /\ AfIntact
    BY <1>1, <1>2, AfAssumption DEF AfInv, AfWhole, AfExclusive, AfTypeOK
  <2> QED BY <1>1, <1>2, <1>4, <2>1 DEF AfIntact, AfRecord, r
<1> QED BY <1>5, <1>6, <1>7, <1>8 DEF AfInv

\* The child opens the .part file.
LEMMA ExecInv == ASSUME AfInv, NEW p \in AfProc, AfExec(p) PROVE AfInv'
<1> DEFINE f == IF afPart = 0 THEN AfUnusedFile ELSE afPart
           start == IF afProc[p].resume /\ afPart # 0 THEN Len(afData[f]) ELSE 0
<1> DEFINE r == [afProc[p] EXCEPT !.pc = "xfer", !.tool = afProc[p].pc, !.file = f,
                               !.append = afProc[p].resume, !.pos = start]
<1>1. AfTypeOK /\ afProc[p] \in AfRecord
  BY DEF AfInv, AfShape, AfTypeOK
<1>2. /\ afProc[p].pc \in {"curl", "wget"} /\ start <= AfChunks
      /\ afPart' = f
      /\ afData' = [afData EXCEPT ![f] = IF start = 0 THEN <<>> ELSE @]
      /\ afProc' = [afProc EXCEPT ![p] = r]
      /\ UNCHANGED <<afLink, afLock, afOut, afFaults, afSplit>>
  BY <1>1, Zenon DEF AfExec, AfTypeOK
<1>3. f \in AfFile /\ start \in 0..AfChunks /\ r \in AfRecord
  <2>1. f \in AfFile
    BY <1>1, <1>2, UnusedFile, Zenon DEF AfInv, AfTypeOK
  <2>2. Len(afData[f]) \in Nat
    BY <2>1, SeqIndices, Zenon DEF AfInv, AfShape
  <2>3. start \in 0..AfChunks
    BY <1>2, <2>2, AfAssumption
  <2>4. "xfer" \in AfPcs
    BY Zenon DEF AfPcs
  <2> HIDE DEF f, start
  <2> QED BY <1>1, <1>2, <2>1, <2>3, <2>4, ZenonT(30) DEF AfRecord
<1>f. f # 0 /\ (AfExclusive => f # afOut)
  BY <1>1, <1>2, <1>3, UnusedFile, Zenon DEF AfInv, AfWhole, AfIntact, AfFile
<1>d. /\ afData' \in [AfFile -> Seq(Nat)] /\ afData'[f] = (IF start = 0 THEN <<>> ELSE afData[f])
      /\ \A g \in AfFile : g # f => afData'[g] = afData[g]
  <2> HIDE DEF f, start
  <2>1. <<>> \in Seq(Nat)
    OBVIOUS
  <2> QED BY <1>2, <1>3, <2>1, Zenon DEF AfInv, AfShape
<1>s. AfExclusive => (IF start = 0 THEN <<>> ELSE afData[f]) = AfFirst(start)
  <2>1. CASE start = 0
    BY <2>1, FirstEnds, Zenon
  <2>2. CASE start # 0 /\ AfExclusive
    <3>1. f = afPart /\ afPart # 0 /\ start = Len(afData[afPart])
      BY <2>2, Zenon
    <3>2. PICK n \in 0..AfChunks : afData[afPart] = AfFirst(n)
      BY <2>2, <3>1, Zenon DEF AfInv, AfWhole, AfIntact
    <3>3. start = n
      <4>1. n \in Nat /\ TRUE \in BOOLEAN
        BY AfAssumption
      <4>2. Len(AfFirst(n)) = n
        BY <4>1, FirstGrows, Zenon
      <4> QED BY <3>1, <3>2, <4>2, Zenon
    <3> QED BY <2>2, <3>1, <3>2, <3>3, Zenon
  <2> QED BY <2>1, <2>2, Zenon
<1> HIDE DEF f, start
<1> HIDE DEF r
<1>4. /\ afProc' \in [AfProc -> AfRecord] /\ afProc'[p] = r
      /\ \A q \in AfProc : q # p => afProc'[q] = afProc[q]
  BY <1>1, <1>2, <1>3, OneMoves, Zenon
<1>5. AfShape'
  <2>1. AfTypeOK'
    BY <1>1, <1>2, <1>4, <1>3, <1>d, Zenon DEF AfTypeOK
  <2> QED BY <1>1, <1>2, <1>4, <2>1, <1>3, <1>f, <1>d DEF AfInv, AfShape, AfTypeOK, AfRecord, AfGone, AfInside, r
<1>6. AfFaultless'
  BY <1>1, <1>2, <1>4 DEF AfInv, AfShape, AfTypeOK, AfRecord, AfFaultless, AfGone, AfInside, AfBusy, r
<1>7. AfAlone'
  BY <1>1, <1>2, <1>4 DEF AfInv, AfAlone, AfInside, r
<1>8. AfWhole'
  <2> SUFFICES ASSUME AfExclusive' PROVE AfIntact'
    BY DEF AfWhole
  <2>1. AfExclusive /\ AfIntact
    BY <1>1, <1>2, Zenon DEF AfInv, AfWhole, AfExclusive, AfTypeOK
  <2>2. \A q \in AfProc : q # p => afProc[q].pc \notin AfInside
    BY <1>2, <2>1, Sole, Zenon DEF AfBusy
  <2>3. afPart' # afOut' /\ afData'[afPart'] = AfFirst(start)
    BY <1>2, <1>f, <1>d, <1>s, <2>1, Zenon
  <2>4. afOut' # 0 => afData'[afOut'] = AfComplete
    BY <1>1, <1>2, <1>f, <1>d, <2>1, Zenon DEF AfIntact, AfTypeOK
  <2>5. \A q \in AfProc : q # p => afProc'[q].pc \notin {"xfer", "rename"}
    BY <1>4, <2>2, Zenon DEF AfInside
  <2>6. afProc'[p].pc = "xfer" /\ afProc'[p].file = f /\ afProc'[p].pos = start
    BY <1>1, <1>4 DEF AfRecord, r
  <2> QED BY <1>2, <1>3, <1>4, <2>1, <2>3, <2>4, <2>5, <2>6, Zenon DEF AfIntact
<1> QED BY <1>5, <1>6, <1>7, <1>8 DEF AfInv

\* The child writes a chunk.
LEMMA WriteInv == ASSUME AfInv, NEW p \in AfProc, AfWrite(p) PROVE AfInv'
<1> DEFINE f == afProc[p].file
           n == afProc[p].pos + 1
<1> DEFINE r == [afProc[p] EXCEPT !.pos = n]
<1>1. AfTypeOK /\ afProc[p] \in AfRecord
  BY DEF AfInv, AfShape, AfTypeOK
<1>2. /\ afProc[p].pc = "xfer" /\ afProc[p].pos < AfChunks
      /\ afData' = [afData EXCEPT ![f] = AfPut(afData[f], n, afProc[p].append)]
      /\ afProc' = [afProc EXCEPT ![p] = r]
      /\ UNCHANGED <<afLink, afLock, afPart, afOut, afFaults, afSplit>>
  BY <1>1, Zenon DEF AfWrite, AfTypeOK
<1>3. f \in AfFile /\ n \in 1..AfChunks /\ r \in AfRecord
  <2>1. f \in AfFile
    BY <1>1, <1>2, Zenon DEF AfInv, AfShape, AfRecord
  <2>2. n \in 1..AfChunks /\ n \in 0..AfChunks
    BY <1>1, <1>2, AfAssumption DEF AfRecord
  <2> HIDE DEF f, n
  <2> QED BY <1>1, <2>1, <2>2 DEF AfRecord
<1>d. /\ afData' \in [AfFile -> Seq(Nat)] /\ afData'[f] = AfPut(afData[f], n, afProc[p].append)
      /\ \A g \in AfFile : g # f => afData'[g] = afData[g]
  <2> HIDE DEF f, n
  <2>1. afData[f] \in Seq(Nat) /\ n \in Nat \ {0} /\ afProc[p].append \in BOOLEAN
    BY <1>1, <1>3, AfAssumption DEF AfInv, AfShape, AfRecord
  <2>2. AfPut(afData[f], n, afProc[p].append) \in Seq(Nat)
    BY <2>1, PutType, Zenon
  <2> QED BY <1>2, <1>3, <2>2, Zenon DEF AfInv, AfShape
<1> HIDE DEF r
<1>4. /\ afProc' \in [AfProc -> AfRecord] /\ afProc'[p] = r
      /\ \A q \in AfProc : q # p => afProc'[q] = afProc[q]
  BY <1>1, <1>2, <1>3, OneMoves, Zenon
<1>5. AfShape'
  <2>1. AfTypeOK'
    BY <1>1, <1>2, <1>4, <1>3, <1>d, Zenon DEF AfTypeOK
  <2> QED BY <1>1, <1>2, <1>4, <2>1, <1>3, <1>d DEF AfInv, AfShape, AfTypeOK, AfRecord, AfGone, AfInside, r
<1>6. AfFaultless'
  BY <1>1, <1>2, <1>4 DEF AfInv, AfShape, AfTypeOK, AfRecord, AfFaultless, AfGone, AfInside, AfBusy, r
<1>7. AfAlone'
  BY <1>1, <1>2, <1>4 DEF AfInv, AfAlone, AfInside, r
<1>8. AfWhole'
  <2> SUFFICES ASSUME AfExclusive' PROVE AfIntact'
    BY DEF AfWhole
  <2>1. AfExclusive /\ AfIntact
    BY <1>1, <1>2, Zenon DEF AfInv, AfWhole, AfExclusive, AfTypeOK
  <2>2. \A q \in AfProc : q # p => afProc[q].pc \notin AfInside
    BY <1>2, <2>1, Sole, Zenon DEF AfBusy
  <2>3. afPart = f /\ afPart # 0 /\ afPart # afOut /\ afData[f] = AfFirst(afProc[p].pos)
    BY <1>2, <2>1, Zenon DEF AfInv, AfShape, AfIntact
  <2>4. afData'[f] = AfFirst(n)
    <3>1. afProc[p].pos \in Nat /\ afProc[p].append \in BOOLEAN
      BY <1>1, AfAssumption DEF AfRecord
    <3> QED BY <1>d, <2>3, <3>1, FirstGrows, Zenon
  <2>5. afOut' # 0 => afData'[afOut'] = AfComplete
    BY <1>1, <1>2, <1>d, <2>1, <2>3, Zenon DEF AfIntact, AfTypeOK
  <2>6. \A q \in AfProc : q # p => afProc'[q].pc \notin {"xfer", "rename"}
    BY <1>4, <2>2 DEF AfInside
  <2>7. afProc'[p].pc = "xfer" /\ afProc'[p].file = f /\ afProc'[p].pos = n
    BY <1>1, <1>2, <1>4 DEF AfRecord, r
  <2>8. n \in 0..AfChunks
    BY <1>3, AfAssumption
  <2> HIDE DEF f, n
  <2> QED BY <1>2, <1>4, <2>1, <2>3, <2>4, <2>5, <2>6, <2>7, <2>8 DEF AfIntact
<1> QED BY <1>5, <1>6, <1>7, <1>8 DEF AfInv

\* The child ends well.
LEMMA SucceedInv == ASSUME AfInv, NEW p \in AfProc, AfSucceed(p) PROVE AfInv'
<1> DEFINE r == [afProc[p] EXCEPT !.pc = "rename", !.file = 0, !.status = 0]
<1>1. AfTypeOK /\ afProc[p] \in AfRecord
  BY DEF AfInv, AfShape, AfTypeOK
<1>2. /\ afProc[p].pc = "xfer" /\ afProc[p].pos = AfChunks
      /\ afProc' = [afProc EXCEPT ![p] = r]
      /\ UNCHANGED <<afLink, afLock, afPart, afOut, afData, afFaults, afSplit>>
  BY <1>1, Zenon DEF AfSucceed, AfTypeOK
<1>3. r \in AfRecord
  BY <1>1, ZenonT(30) DEF AfRecord, AfPcs
<1> HIDE DEF r
<1>4. /\ afProc' \in [AfProc -> AfRecord] /\ afProc'[p] = r
      /\ \A q \in AfProc : q # p => afProc'[q] = afProc[q]
  BY <1>1, <1>2, <1>3, OneMoves, Zenon
<1>5. AfShape'
  <2>1. AfTypeOK'
    BY <1>1, <1>2, <1>4, Zenon DEF AfTypeOK
  <2> QED BY <1>1, <1>2, <1>4, <2>1, SMTT(30) DEF AfInv, AfShape, AfTypeOK, AfRecord, AfGone, AfInside, r
<1>6. AfFaultless'
  BY <1>1, <1>2, <1>4 DEF AfInv, AfShape, AfTypeOK, AfRecord, AfFaultless, AfGone, AfInside, AfBusy, r
<1>7. AfAlone'
  BY <1>1, <1>2, <1>4 DEF AfInv, AfAlone, AfInside, r
<1>8. AfWhole'
  <2> SUFFICES ASSUME AfExclusive' PROVE AfIntact'
    BY DEF AfWhole
  <2>1. AfExclusive /\ AfIntact
    BY <1>1, <1>2, Zenon DEF AfInv, AfWhole, AfExclusive, AfTypeOK
  <2>2. afPart # 0 /\ afData[afPart] = AfComplete
    BY <1>1, <1>2, <2>1, FirstEnds, Zenon DEF AfInv, AfShape, AfIntact
  <2> QED BY <1>1, <1>2, <1>4, <2>1, <2>2 DEF AfIntact, r
<1> QED BY <1>5, <1>6, <1>7, <1>8 DEF AfInv

\* The child fails.
LEMMA FailInv == ASSUME AfInv, NEW p \in AfProc, AfFail(p) PROVE AfInv'
<1> DEFINE r == [afProc[p] EXCEPT !.pc = "release", !.file = 0, !.status = 1]
<1>1. AfTypeOK /\ afProc[p] \in AfRecord
  BY DEF AfInv, AfShape, AfTypeOK
<1>2. /\ afProc[p].pc = "xfer"
      /\ afFaults < AfMaxFaults /\ afFaults' = afFaults + 1
      /\ afProc' = [afProc EXCEPT ![p] = r]
      /\ UNCHANGED <<afLink, afLock, afPart, afOut, afData, afSplit>>
  BY <1>1, Zenon DEF AfFail, AfFaultHappens, AfTypeOK
<1>3. r \in AfRecord
  BY <1>1, ZenonT(30) DEF AfRecord, AfPcs
<1> HIDE DEF r
<1>4. /\ afProc' \in [AfProc -> AfRecord] /\ afProc'[p] = r
      /\ \A q \in AfProc : q # p => afProc'[q] = afProc[q]
  BY <1>1, <1>2, <1>3, OneMoves, Zenon
<1>5. AfShape'
  <2>1. AfTypeOK'
    BY <1>1, <1>2, <1>4, AfAssumption DEF AfTypeOK
  <2> QED BY <1>1, <1>2, <1>4, <2>1, SMTT(30) DEF AfInv, AfShape, AfTypeOK, AfRecord, AfGone, AfInside, r
<1>6. AfFaultless'
  BY <1>1, <1>2, <1>4, AfAssumption DEF AfInv, AfShape, AfTypeOK, AfRecord, AfFaultless, AfGone, AfInside, AfBusy, r
<1>7. AfAlone'
  BY <1>1, <1>2, <1>4 DEF AfInv, AfAlone, AfInside, r
<1>8. AfWhole'
  <2> SUFFICES ASSUME AfExclusive' PROVE AfIntact'
    BY DEF AfWhole
  <2>1. AfExclusive /\ AfIntact
    BY <1>1, <1>2, AfAssumption DEF AfInv, AfWhole, AfExclusive, AfTypeOK
  <2> QED BY <1>1, <1>2, <1>4, <2>1 DEF AfIntact, AfRecord, r
<1> QED BY <1>5, <1>6, <1>7, <1>8 DEF AfInv

\* curl cannot resume, and starts afresh.
LEMMA RangeErrorInv == ASSUME AfInv, NEW p \in AfProc, AfRangeError(p) PROVE AfInv'
<1> DEFINE r == [afProc[p] EXCEPT !.pc = "curl", !.file = 0, !.resume = FALSE]
<1>1. AfTypeOK /\ afProc[p] \in AfRecord
  BY DEF AfInv, AfShape, AfTypeOK
<1>2. /\ afProc[p].pc = "xfer"
      /\ afPart' = 0
      /\ afProc' = [afProc EXCEPT ![p] = r]
      /\ UNCHANGED <<afLink, afLock, afOut, afData, afFaults, afSplit>>
  BY <1>1, Zenon DEF AfRangeError, AfTypeOK
<1>3. r \in AfRecord
  BY <1>1, ZenonT(30) DEF AfRecord, AfPcs
<1> HIDE DEF r
<1>4. /\ afProc' \in [AfProc -> AfRecord] /\ afProc'[p] = r
      /\ \A q \in AfProc : q # p => afProc'[q] = afProc[q]
  BY <1>1, <1>2, <1>3, OneMoves, Zenon
<1>5. AfShape'
  <2>1. AfTypeOK'
    BY <1>1, <1>2, <1>4, Zenon DEF AfTypeOK
  <2> QED BY <1>1, <1>2, <1>4, <2>1, SMTT(30) DEF AfInv, AfShape, AfTypeOK, AfRecord, AfGone, AfInside, r
<1>6. AfFaultless'
  BY <1>1, <1>2, <1>4 DEF AfInv, AfShape, AfTypeOK, AfRecord, AfFaultless, AfGone, AfInside, AfBusy, r
<1>7. AfAlone'
  BY <1>1, <1>2, <1>4 DEF AfInv, AfAlone, AfInside, r
<1>8. AfWhole'
  <2> SUFFICES ASSUME AfExclusive' PROVE AfIntact'
    BY DEF AfWhole
  <2>1. AfExclusive /\ AfIntact
    BY <1>1, <1>2, Zenon DEF AfInv, AfWhole, AfExclusive, AfTypeOK
  <2>2. \A q \in AfProc : q # p => afProc[q].pc \notin AfInside
    BY <1>2, <2>1, Sole, Zenon DEF AfBusy
  <2> QED BY <1>1, <1>2, <1>4, <2>1, <2>2 DEF AfIntact, AfInside, r
<1> QED BY <1>5, <1>6, <1>7, <1>8 DEF AfInv

\* The .part file gets its final name.
LEMMA RenameInv == ASSUME AfInv, NEW p \in AfProc, AfRename(p) PROVE AfInv'
<1> DEFINE r == [afProc[p] EXCEPT !.pc = "release"]
<1>1. AfTypeOK /\ afProc[p] \in AfRecord
  BY DEF AfInv, AfShape, AfTypeOK
<1>2. /\ afProc[p].pc = "rename"
      /\ afOut' = IF afPart = 0 THEN afOut ELSE afPart
      /\ afPart' = 0
      /\ afProc' = [afProc EXCEPT ![p] = r]
      /\ UNCHANGED <<afLink, afLock, afData, afFaults, afSplit>>
  BY <1>1, Zenon DEF AfRename, AfGoto, AfTypeOK
<1>3. r \in AfRecord
  BY <1>1 DEF AfRecord, AfPcs
<1> HIDE DEF r
<1>4. /\ afProc' \in [AfProc -> AfRecord] /\ afProc'[p] = r
      /\ \A q \in AfProc : q # p => afProc'[q] = afProc[q]
  BY <1>1, <1>2, <1>3, OneMoves, Zenon
<1>5. AfShape'
  <2>1. AfTypeOK'
    BY <1>1, <1>2, <1>4, Zenon DEF AfTypeOK
  <2> QED BY <1>1, <1>2, <1>4, <2>1, SMTT(30) DEF AfInv, AfShape, AfTypeOK, AfRecord, AfGone, AfInside, r
<1>6. AfFaultless'
  <2>0. AfExclusive => afPart # 0
    BY <1>2, Zenon DEF AfInv, AfWhole, AfIntact
  <2> SUFFICES ASSUME afFaults = 0 PROVE \A q \in AfProc : afProc'[q].pc \notin AfBusy
    BY <1>1, <1>2, <2>0, Zenon DEF AfFaultless, AfExclusive
  <2>1. \A q \in AfProc : q # p => afProc[q].pc \notin AfInside
    BY <1>2, Sole, Zenon DEF AfBusy, AfExclusive
  <2> QED BY <1>1, <1>4, <2>1 DEF AfBusy, AfInside, AfRecord, r
<1>7. AfAlone'
  BY <1>1, <1>2, <1>4, Zenon DEF AfInv, AfAlone, AfInside, r
<1>8. AfWhole'
  <2> SUFFICES ASSUME AfExclusive' PROVE AfIntact'
    BY DEF AfWhole
  <2>1. AfExclusive /\ AfIntact
    BY <1>1, <1>2, Zenon DEF AfInv, AfWhole, AfExclusive, AfTypeOK
  <2>2. \A q \in AfProc : q # p => afProc[q].pc \notin AfInside
    BY <1>2, <2>1, Sole, Zenon DEF AfBusy
  <2> QED BY <1>1, <1>2, <1>4, <2>1, <2>2 DEF AfIntact, AfInside, r
<1> QED BY <1>5, <1>6, <1>7, <1>8 DEF AfInv

\* release_lock.
LEMMA ReleaseInv == ASSUME AfInv, NEW p \in AfProc, AfRelease(p) PROVE AfInv'
<1> DEFINE r == [afProc[p] EXCEPT !.pc = IF afProc[p].status = 0 THEN "unlink" ELSE "trylock"]
<1>1. AfTypeOK /\ afProc[p] \in AfRecord
  BY DEF AfInv, AfShape, AfTypeOK
<1>2. /\ afProc[p].pc = "release"
      /\ afLock' = AfFreed(afProc[p].fd)
      /\ afProc' = [afProc EXCEPT ![p] = r]
      /\ UNCHANGED <<afLink, afPart, afOut, afData, afFaults, afSplit>>
  BY <1>1, Zenon DEF AfRelease, AfGoto, AfTypeOK
<1>3. afProc[p].fd \in AfInode /\ r \in AfRecord
  BY <1>1, <1>2 DEF AfInv, AfShape, AfGone, AfRecord, AfPcs
<1> HIDE DEF r
<1>4. /\ afProc' \in [AfProc -> AfRecord] /\ afProc'[p] = r
      /\ \A q \in AfProc : q # p => afProc'[q] = afProc[q]
  BY <1>1, <1>2, <1>3, OneMoves, Zenon
<1>5. AfShape'
  <2>1. AfTypeOK'
    BY <1>1, <1>2, <1>4, <1>3, LockType, Zenon DEF AfTypeOK
  <2> QED BY <1>1, <1>2, <1>4, <2>1, <1>3 DEF AfInv, AfShape, AfTypeOK, AfRecord, AfGone, AfInside, r, AfFreed
<1>6. AfFaultless'
  BY <1>1, <1>2, <1>4 DEF AfInv, AfShape, AfTypeOK, AfRecord, AfFaultless, AfGone, AfInside, AfBusy, r
<1>7. AfAlone'
  BY <1>1, <1>2, <1>4 DEF AfInv, AfAlone, AfInside, r
<1>8. AfWhole'
  <2> SUFFICES ASSUME AfExclusive' PROVE AfIntact'
    BY DEF AfWhole
  <2>1. AfExclusive /\ AfIntact
    BY <1>1, <1>2, Zenon DEF AfInv, AfWhole, AfExclusive, AfTypeOK
  <2> QED BY <1>1, <1>2, <1>4, <2>1 DEF AfIntact, AfRecord, r
<1> QED BY <1>5, <1>6, <1>7, <1>8 DEF AfInv

\* The lock is tried again.
LEMMA TryLockInv == ASSUME AfInv, NEW p \in AfProc, AfTryLock(p) PROVE AfInv'
<1> DEFINE r == [afProc[p] EXCEPT !.pc = IF afLock[afProc[p].fd] = AfNobody THEN "unlink" ELSE "close"]
<1>1. AfTypeOK /\ afProc[p] \in AfRecord
  BY DEF AfInv, AfShape, AfTypeOK
<1>2. /\ afProc[p].pc = "trylock"
      /\ IF afLock[afProc[p].fd] = AfNobody
         THEN afLock' = [afLock EXCEPT ![afProc[p].fd] = p] ELSE afLock' = afLock
      /\ afProc' = [afProc EXCEPT ![p] = r]
      /\ UNCHANGED <<afLink, afPart, afOut, afData, afFaults, afSplit>>
  BY <1>1, Zenon DEF AfTryLock, AfGoto, AfTypeOK
<1>3. afProc[p].fd \in AfInode /\ r \in AfRecord
  <2>1. {"unlink", "close"} \subseteq AfPcs
    BY Zenon DEF AfPcs
  <2>2. afProc[p].fd \in AfInode
    BY <1>1, <1>2, Zenon DEF AfInv, AfShape, AfGone, AfRecord
  <2> QED BY <1>1, <2>1, <2>2 DEF AfRecord
<1> HIDE DEF r
<1>4. /\ afProc' \in [AfProc -> AfRecord] /\ afProc'[p] = r
      /\ \A q \in AfProc : q # p => afProc'[q] = afProc[q]
  BY <1>1, <1>2, <1>3, OneMoves, Zenon
<1>5. AfShape'
  <2>1. AfTypeOK'
    BY <1>1, <1>2, <1>4, <1>3, LockType DEF AfTypeOK
  <2>2. /\ r.fd = afProc[p].fd /\ r.file = afProc[p].file /\ r.pc \in {"unlink", "close"}
    BY <1>1, SMTT(30) DEF AfRecord, r
  <2>3. /\ afProc[p].fd # 0 /\ afProc[p].file = 0
    BY <1>1, <1>2, Zenon DEF AfInv, AfShape, AfGone
  <2>4. /\ r.fd = 0 <=> r.pc \in AfGone
        /\ r.file # 0 <=> r.pc = "xfer"
        /\ r.pc \notin AfInside \cup {"release"} /\ r.pc # "trylock"
    BY <2>2, <2>3 DEF AfGone, AfInside
  <2>5. ASSUME NEW q \in AfProc, afLock[afProc[q].fd] = q, afProc[q].fd \in AfInode
        PROVE  afLock'[afProc[q].fd] = q
    BY <1>1, <1>2, <1>3, <2>5, AfAssumption, SMTT(30) DEF AfTypeOK
  <2>6. ASSUME NEW q \in AfProc, q # p
        PROVE  /\ afProc[q].fd = 0 <=> afProc[q].pc \in AfGone
               /\ afProc[q].file # 0 <=> afProc[q].pc = "xfer"
               /\ afProc[q].pc \in AfInside \cup {"release"} => afLock'[afProc[q].fd] = q
               /\ afProc[q].pc = "trylock" => afProc[q].status # 0
    <3>1. afProc[q] \in AfRecord
      BY <1>1, Zenon DEF AfTypeOK
    <3>2. afProc[q].pc \in AfInside \cup {"release"} => afProc[q].fd \in AfInode
      BY <3>1, SMTT(30) DEF AfInv, AfShape, AfRecord, AfInside, AfGone
    <3> QED BY <3>2, <2>5, Zenon DEF AfInv, AfShape
  <2>7. afData' \in [AfFile -> Seq(Nat)]
    BY <1>2, Zenon DEF AfInv, AfShape
  <2> QED BY <1>4, <2>1, <2>4, <2>6, <2>7, Zenon DEF AfShape
<1>6. AfFaultless'
  BY <1>1, <1>2, <1>4 DEF AfInv, AfShape, AfTypeOK, AfRecord, AfFaultless, AfGone, AfInside, AfBusy, r
<1>7. AfAlone'
  BY <1>1, <1>2, <1>4 DEF AfInv, AfAlone, AfInside, r
<1>8. AfWhole'
  <2> SUFFICES ASSUME AfExclusive' PROVE AfIntact'
    BY DEF AfWhole
  <2>1. AfExclusive /\ AfIntact
    BY <1>1, <1>2, Zenon DEF AfInv, AfWhole, AfExclusive, AfTypeOK
  <2>2. afProc[p].status # 0
    BY <1>2, Zenon DEF AfInv, AfShape
  <2> QED BY <1>1, <1>2, <1>4, <2>1, <2>2, SMTT(30) DEF AfIntact, AfRecord, r
<1> QED BY <1>5, <1>6, <1>7, <1>8 DEF AfInv

\* fetch_done unlinks the lock file.
LEMMA UnlinkInv == ASSUME AfInv, NEW p \in AfProc, AfUnlink(p) PROVE AfInv'
<1> DEFINE r == [afProc[p] EXCEPT !.pc = "close"]
<1>1. AfTypeOK /\ afProc[p] \in AfRecord
  BY DEF AfInv, AfShape, AfTypeOK
<1>2. /\ afProc[p].pc = "unlink"
      /\ afLink' = 0
      /\ afProc' = [afProc EXCEPT ![p] = r]
      /\ UNCHANGED <<afLock, afPart, afOut, afData, afFaults, afSplit>>
  BY <1>1, Zenon DEF AfUnlink, AfGoto, AfTypeOK
<1>3. r \in AfRecord
  BY <1>1 DEF AfRecord, AfPcs
<1> HIDE DEF r
<1>4. /\ afProc' \in [AfProc -> AfRecord] /\ afProc'[p] = r
      /\ \A q \in AfProc : q # p => afProc'[q] = afProc[q]
  BY <1>1, <1>2, <1>3, OneMoves, Zenon
<1>5. AfShape'
  <2>1. AfTypeOK'
    BY <1>1, <1>2, <1>4, Zenon DEF AfTypeOK
  <2> QED BY <1>1, <1>2, <1>4, <2>1 DEF AfInv, AfShape, AfTypeOK, AfRecord, AfGone, AfInside, r
<1>6. AfFaultless'
  BY <1>1, <1>2, <1>4 DEF AfInv, AfShape, AfTypeOK, AfRecord, AfFaultless, AfGone, AfInside, AfBusy, r
<1>7. AfAlone'
  BY <1>1, <1>2, <1>4 DEF AfInv, AfAlone, AfInside, r
<1>8. AfWhole'
  <2> SUFFICES ASSUME AfExclusive' PROVE AfIntact'
    BY DEF AfWhole
  <2>1. AfExclusive /\ AfIntact
    BY <1>1, <1>2, Zenon DEF AfInv, AfWhole, AfExclusive, AfTypeOK
  <2> QED BY <1>1, <1>2, <1>4, <2>1 DEF AfIntact, AfRecord, r
<1> QED BY <1>5, <1>6, <1>7, <1>8 DEF AfInv

\* The lock file is closed.
LEMMA CloseInv == ASSUME AfInv, NEW p \in AfProc, AfClose(p) PROVE AfInv'
<1> DEFINE r == [afProc[p] EXCEPT !.pc = "done", !.fd = 0]
<1>1. AfTypeOK /\ afProc[p] \in AfRecord
  BY DEF AfInv, AfShape, AfTypeOK
<1>2. /\ afProc[p].pc = "close"
      /\ afLock' = IF afLock[afProc[p].fd] = p THEN AfFreed(afProc[p].fd) ELSE afLock
      /\ afProc' = [afProc EXCEPT ![p] = r]
      /\ UNCHANGED <<afLink, afPart, afOut, afData, afFaults, afSplit>>
  BY <1>1, Zenon DEF AfClose, AfTypeOK
<1>3. afProc[p].fd \in AfInode /\ r \in AfRecord
  <2>1. "done" \in AfPcs
    BY Zenon DEF AfPcs
  <2>2. afProc[p].fd \in AfInode
    BY <1>1, <1>2, Zenon DEF AfInv, AfShape, AfGone, AfRecord
  <2> QED BY <1>1, <2>1, <2>2, ZenonT(30) DEF AfRecord
<1> HIDE DEF r
<1>4. /\ afProc' \in [AfProc -> AfRecord] /\ afProc'[p] = r
      /\ \A q \in AfProc : q # p => afProc'[q] = afProc[q]
  BY <1>1, <1>2, <1>3, OneMoves, Zenon
<1>5. AfShape'
  <2>1. AfTypeOK'
    BY <1>1, <1>2, <1>4, <1>3, LockType, Zenon DEF AfTypeOK
  <2> QED BY <1>1, <1>2, <1>4, <2>1, <1>3 DEF AfInv, AfShape, AfTypeOK, AfRecord, AfGone, AfInside, r, AfFreed
<1>6. AfFaultless'
  BY <1>1, <1>2, <1>4 DEF AfInv, AfShape, AfTypeOK, AfRecord, AfFaultless, AfGone, AfInside, AfBusy, r
<1>7. AfAlone'
  BY <1>1, <1>2, <1>4 DEF AfInv, AfAlone, AfInside, r
<1>8. AfWhole'
  <2> SUFFICES ASSUME AfExclusive' PROVE AfIntact'
    BY DEF AfWhole
  <2>1. AfExclusive /\ AfIntact
    BY <1>1, <1>2, Zenon DEF AfInv, AfWhole, AfExclusive, AfTypeOK
  <2> QED BY <1>1, <1>2, <1>4, <2>1 DEF AfIntact, AfRecord, r
<1> QED BY <1>5, <1>6, <1>7, <1>8 DEF AfInv

\* sighandler.
LEMMA SignalInv == ASSUME AfInv, NEW p \in AfProc, AfSignal(p) PROVE AfInv'
<1> DEFINE r == [afProc[p] EXCEPT !.pc = "killed", !.fd = 0, !.file = 0]
<1>1. AfTypeOK /\ afProc[p] \in AfRecord
  BY DEF AfInv, AfShape, AfTypeOK
<1>2. /\ afProc[p].pc \notin {"open", "done", "killed"}
      /\ afFaults < AfMaxFaults /\ afFaults' = afFaults + 1
      /\ afLink' = 0
      /\ afLock' = IF afLock[afProc[p].fd] = p THEN AfFreed(afProc[p].fd) ELSE afLock
      /\ afProc' = [afProc EXCEPT ![p] = r]
      /\ UNCHANGED <<afPart, afOut, afData, afSplit>>
  BY <1>1, Zenon DEF AfSignal, AfFaultHappens, AfTypeOK
<1>3. afProc[p].fd \in AfInode /\ r \in AfRecord
  <2>1. "killed" \in AfPcs
    BY Zenon DEF AfPcs
  <2>2. afProc[p].fd \in AfInode
    BY <1>1, <1>2, Zenon DEF AfInv, AfShape, AfGone, AfRecord
  <2> QED BY <1>1, <2>1, <2>2, ZenonT(30) DEF AfRecord
<1> HIDE DEF r
<1>4. /\ afProc' \in [AfProc -> AfRecord] /\ afProc'[p] = r
      /\ \A q \in AfProc : q # p => afProc'[q] = afProc[q]
  BY <1>1, <1>2, <1>3, OneMoves, Zenon
<1>5. AfShape'
  <2>1. AfTypeOK'
    BY <1>1, <1>2, <1>4, <1>3, LockType, AfAssumption DEF AfTypeOK
  <2> QED BY <1>1, <1>2, <1>4, <2>1, <1>3 DEF AfInv, AfShape, AfTypeOK, AfRecord, AfGone, AfInside, r, AfFreed
<1>6. AfFaultless'
  BY <1>1, <1>2, <1>4, AfAssumption DEF AfInv, AfShape, AfTypeOK, AfRecord, AfFaultless, AfGone, AfInside, AfBusy, r
<1>7. AfAlone'
  BY <1>1, <1>2, <1>4 DEF AfInv, AfAlone, AfInside, r
<1>8. AfWhole'
  <2> SUFFICES ASSUME AfExclusive' PROVE AfIntact'
    BY DEF AfWhole
  <2>1. AfExclusive /\ AfIntact
    BY <1>1, <1>2, AfAssumption DEF AfInv, AfWhole, AfExclusive, AfTypeOK
  <2> QED BY <1>1, <1>2, <1>4, <2>1 DEF AfIntact, AfRecord, r
<1> QED BY <1>5, <1>6, <1>7, <1>8 DEF AfInv

------------------------------------------------------------------------------
\* Every step of a fetch or of what may befall it keeps the invariant.
LEMMA NextInv == AfInv /\ [AfNext]_afVars => AfInv'
<1> SUFFICES ASSUME AfInv, [AfNext]_afVars PROVE AfInv'
  BY Zenon
<1>1. CASE UNCHANGED afVars
  BY <1>1 DEF AfInv, AfShape, AfTypeOK, AfFaultless, AfAlone, AfWhole, AfIntact, AfExclusive, afVars
<1>2. ASSUME NEW p \in AfProc, AfStep(p) PROVE AfInv'
  BY <1>2, OpenInv, AcquireInv, CheckInv, ProbeInv, ExecInv, WriteInv, SucceedInv, RenameInv,
     ReleaseInv, TryLockInv, UnlinkInv, CloseInv, Zenon DEF AfStep
<1>3. ASSUME NEW p \in AfProc, AfFault(p) PROVE AfInv'
  BY <1>3, EstaleInv, ExecFailsInv, FailInv, RangeErrorInv, SignalInv, Zenon DEF AfFault
<1> QED BY <1>1, <1>2, <1>3, Zenon DEF AfNext

\* What abuild-fetch promises of DISTFILES holds for any number of fetches, failures and signals: the
\* lock keeps two writers of one file apart unless a fault split it, a file with its final name is
\* whole while the lock works, and exit status 0 then means that the file is there.
THEOREM FetchSafety == AfSpec => []AfCorrect
  BY InitInv, NextInv, InvCorrect, PTL DEF AfSpec
=============================================================================
