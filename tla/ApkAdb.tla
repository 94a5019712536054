------------------------------- MODULE ApkAdb -------------------------------
(***************************************************************************)
(* The values of the ADB format: how adb.c writes integers, blobs, objects *)
(* and arrays into a growing buffer in which equal data is stored once,    *)
(* and how it reads, copies, sorts and searches them.                      *)
(*                                                                         *)
(* The buffer is a sequence of cells.  A value (adb_val_t) is a type and   *)
(* an offset or a small integer, a word of two cells.  Where the code has  *)
(* widths of 1, 2, 4 and 8 bytes the model has 1 cell, a word and two      *)
(* words; AdBase is the number of values of a cell that is part of an      *)
(* integer.                                                                *)
(***************************************************************************)
EXTENDS Integers, SequencesExt

CONSTANTS
  AdBase,       \* integers below it are stored in the value itself
  AdShort,      \* the longest blob whose length fits one cell
  AdNumFields,  \* ADBI_*_MAX: one more than the number of fields of an object
  AdNumCompare, \* num_compare of the schema of the objects
  AdFirstAlloc, \* the first allocation, 8192 in the code
  AdClients     \* what is done with a database: sequences of the calls below

ASSUME AdAssumption ==
  /\ AdBase \in Nat \ {0} /\ AdFirstAlloc \in Nat \ {0}
  /\ AdFirstAlloc % 4 = 0
  /\ \A c \in AdClients : \A k \in DOMAIN c :
       c[k].call = "blob" => Len(c[k].data) < AdBase * AdBase

\* [todo: the calls to come, db: the buffer being written, src: the one before it, arr: the array
\* under construction, made and from: the values that writing to db and src has returned, with what
\* they mean and whether they hold a raw blob; found: the last array that was sorted]
VARIABLE ad

AdSpecial == 0
AdInt == 1
AdInt32 == 2
AdInt64 == 3
AdBlob8 == 4
AdBlob16 == 5
AdArray == 6
AdObject == 7
AdNull == <<AdSpecial, 0>>

AdWord == 2
AdHdr == <<0, 0, 0, 0>>

\* struct adb, after adb_w_init_dynamic: cells, allocation, whether a write went beyond it, the
\* entries of the cache.
AdEmpty == [mem |-> AdHdr, alloc |-> AdFirstAlloc, over |-> FALSE, cache |-> <<>>]
AdBlank == [val |-> AdNull, means |-> <<"null", 0>>, raw |-> FALSE]
AdInit == ad = [todo |-> <<>>, db |-> AdEmpty, src |-> AdEmpty, arr |-> <<>>, made |-> <<>>, from |-> <<>>,
                found |-> <<>>, patched |-> FALSE]

-----------------------------------------------------------------------------
\* adb_w_raw.  The padding is written before the buffer grows.
AdPadding(n, align) == (align - (n % align)) % align
AdRoom(n, alloc) ==
  LET grow[a \in Nat] == IF n > a THEN grow[2 * a] ELSE a
  IN  grow[alloc]

AdWRaw(db, cells, align) ==
  LET at == Len(db.mem) + AdPadding(Len(db.mem), align)
      end == at + Len(cells)
  IN  [offs |-> at,
       db |-> [db EXCEPT !.mem = @ \o [k \in 1 .. (at - Len(@)) |-> 0] \o cells,
                         !.over = @ \/ at > db.alloc,
                         !.alloc = AdRoom(end, @)]]

\* adb_w_data: data that is in the buffer already, and aligned, is not written again.  A hit that is
\* not aligned loses its entry to the new copy.
AdCells(db, offs, len) == SubSeq(db.mem, offs + 1, offs + len)
AdHash(cells) == FoldSeq(LAMBDA c, h : (h + c) % 3, 0, cells)
AdHits(db, cells) ==
  {k \in DOMAIN db.cache : db.cache[k].hash = AdHash(cells) /\ db.cache[k].len = Len(cells)
                           /\ AdCells(db, db.cache[k].offs, Len(cells)) = cells}

AdWData(db, cells, align) ==
  LET hits == AdHits(db, cells)
      hit == CHOOSE k \in hits : \A j \in hits : k <= j
      new == AdWRaw(db, cells, align)
      entry == [hash |-> AdHash(cells), len |-> Len(cells), offs |-> new.offs]
  IN  CASE hits = {} -> [new EXCEPT !.db.cache = Append(@, entry)]
        [] hits # {} /\ db.cache[hit].offs % align # 0 -> [new EXCEPT !.db.cache[hit] = entry]
        [] OTHER -> [offs |-> db.cache[hit].offs, db |-> db]

AdVal(type, w) == [val |-> <<type, w.offs>>, db |-> w.db]

\* adb_w_blob_vec; raw is adb_w_blob_raw, which goes around the cache.
AdLength(n) == IF n > AdShort THEN <<n \div AdBase, n % AdBase>> ELSE <<n>>
AdWBlobCached(db, b, raw) ==
  LET cells == AdLength(Len(b)) \o b
  IN  IF b = <<>> THEN [val |-> AdNull, db |-> db]
        ELSE AdVal(IF Len(b) > AdShort THEN AdBlob16 ELSE AdBlob8, AdWData(db, cells, Len(AdLength(Len(b)))))
AdWBlob(db, b, raw) ==
  LET align == Len(AdLength(Len(b)))
      cells == AdLength(Len(b)) \o b
      type == IF Len(b) > AdShort THEN AdBlob16 ELSE AdBlob8
  IN  CASE b = <<>> -> [val |-> AdNull, db |-> db]
        [] raw -> AdVal(type, AdWRaw(db, cells, align))
        [] OTHER -> AdVal(type, AdWData(db, cells, align))

\* adb_w_int.
AdWInt(db, n) ==
  CASE n >= AdBase * AdBase -> AdVal(AdInt64, AdWData(db, <<0, n \div (AdBase * AdBase), (n \div AdBase) % AdBase, n % AdBase>>, AdWord))
    [] n >= AdBase /\ n < AdBase * AdBase -> AdVal(AdInt32, AdWData(db, <<n \div AdBase, n % AdBase>>, AdWord))
    [] OTHER -> [val |-> <<AdInt, n>>, db |-> db]

\* __adb_w_obj: trailing nulls are cut off; the first word is the number of entries.
AdTrim(vals) == LET last == {k \in DOMAIN vals : vals[k] # AdNull}
                IN  IF last = {} THEN <<>> ELSE SubSeq(vals, 1, CHOOSE k \in last : \A j \in last : j <= k)
AdWords(vals) == FlattenSeq(<<<<0, Len(vals) + 1>>>> \o vals)

AdWObj(db, vals, type) ==
  IF AdTrim(vals) = <<>> THEN [val |-> AdNull, db |-> db]
    ELSE AdVal(type, AdWData(db, AdWords(AdTrim(vals)), AdWord))

-----------------------------------------------------------------------------
\* The read interface.  adb_r_deref gives nothing beyond the end of the buffer.
AdDeref(db, v, offs, n) ==
  LET at == v[2] + offs
  IN  IF at + n > Len(db.mem) THEN <<>> ELSE AdCells(db, at, n)

AdNumber(cells) == FoldLeft(LAMBDA n, c : n * AdBase + c, 0, cells)

AdRInt(db, v) ==
  CASE v[1] = AdInt -> v[2]
    [] v[1] = AdInt32 -> AdNumber(AdDeref(db, v, 0, AdWord))
    [] v[1] = AdInt64 -> AdNumber(AdDeref(db, v, 0, 2 * AdWord))
    [] OTHER -> 0

AdRBlob(db, v) ==
  LET head == IF v[1] = AdBlob8 THEN 1 ELSE 2
  IN  IF v[1] \in {AdBlob8, AdBlob16} THEN AdDeref(db, v, head, AdNumber(AdDeref(db, v, 0, head))) ELSE <<>>

\* adb_r_obj: the fields from ADBI_FIRST on; adb_ro_val reads a field beyond them as null.
AdRObj(db, v) ==
  LET num == AdDeref(db, v, 0, AdWord)
      cells == AdDeref(db, v, AdWord, (num[2] - 1) * AdWord)
  IN  IF v[1] \in {AdArray, AdObject} /\ num # <<>>
        THEN [k \in 1 .. (num[2] - 1) |-> <<cells[2 * k - 1], cells[2 * k]>>] ELSE <<>>
AdRoVal(vals, i) == IF i > Len(vals) THEN AdNull ELSE vals[i]

\* What a value means to its reader.
RECURSIVE AdMeaning(_, _)
AdMeaning(db, v) ==
  CASE v = AdNull -> <<"null", 0>>
    [] v[1] \in {AdInt, AdInt32, AdInt64} -> <<"int", AdRInt(db, v)>>
    [] v[1] \in {AdBlob8, AdBlob16} -> <<"blob", AdRBlob(db, v)>>
    [] OTHER -> LET o == AdRObj(db, v) IN <<"obj", [k \in DOMAIN o |-> AdMeaning(db, o[k])]>>

-----------------------------------------------------------------------------
\* adb_w_copy into db of a value of src.
RECURSIVE AdWCopy(_, _, _), AdWCopyAll(_, _, _, _)
AdWCopyAll(db, src, vals, done) ==
  IF vals = <<>> THEN [vals |-> done, db |-> db]
    ELSE LET c == AdWCopy(db, src, vals[1]) IN AdWCopyAll(c.db, src, Tail(vals), Append(done, c.val))
AdWCopy(db, src, v) ==
  CASE v[1] \in {AdSpecial, AdInt} -> [val |-> v, db |-> db]
    [] v[1] = AdInt32 -> AdVal(v[1], AdWData(db, AdDeref(src, v, 0, AdWord), AdWord))
    [] v[1] = AdInt64 -> AdVal(v[1], AdWData(db, AdDeref(src, v, 0, 2 * AdWord), 2 * AdWord))
    [] v[1] \in {AdBlob8, AdBlob16} ->
         LET head == IF v[1] = AdBlob8 THEN 1 ELSE 2
         IN  AdVal(v[1], AdWData(db, AdDeref(src, v, 0, head + AdNumber(AdDeref(src, v, 0, head))), head))
    [] OTHER -> LET c == AdWCopyAll(db, src, AdRObj(src, v), <<>>)
                IN  AdVal(v[1], AdWData(c.db, AdWords(c.vals), AdWord))

-----------------------------------------------------------------------------
\* The comparisons.  A field is a blob or a number; apk_blob_sort compares bytes, then lengths.
AdSign(n) == IF n < 0 THEN -1 ELSE IF n > 0 THEN 1 ELSE 0
AdFirstNonZero(c) ==
  LET nz == {i \in DOMAIN c : c[i] # 0}
  IN  IF nz = {} THEN 0 ELSE c[CHOOSE i \in nz : \A j \in nz : i <= j]
AdBlobSort(a, b) ==
  LET common == IF Len(a) < Len(b) THEN Len(a) ELSE Len(b)
  IN  AdFirstNonZero([k \in 1 .. (common + 1) |->
        IF k <= common THEN AdSign(a[k] - b[k]) ELSE AdSign(Len(a) - Len(b))])

AdIsBlobField(i) == i = 1
AdRoCmp(db, t, o, i) ==
  IF AdIsBlobField(i) THEN AdBlobSort(AdRBlob(db, AdRoVal(t, i)), AdRBlob(db, AdRoVal(o, i)))
    ELSE AdSign(AdRInt(db, AdRoVal(t, i)) - AdRInt(db, AdRoVal(o, i)))

\* adb_ro_cmpobj.  In every mode the first field that differs decides; the modes differ in which
\* fields are looked at: all, those set in the template, or those before the first not set.
AdLooked(set, all, mode) ==
  LET compared == {i \in set : i <= AdNumCompare \/ i = 1}
  IN  CASE mode = "exact" -> all
        [] mode = "template" -> compared
        [] mode = "index" -> {i \in compared : 1 .. i \subseteq set}
AdFields(t, o, mode) ==
  LET all == 1 .. (IF Len(t) < Len(o) THEN Len(o) ELSE Len(t))
  IN  AdLooked({i \in all : AdRoVal(t, i) # AdNull}, all, mode)

AdRoCmpobj(db, t, o, mode) ==
  AdFirstNonZero([i \in AdFields(t, o, mode) |-> AdRoCmp(db, t, o, i)])

\* adb_wa_sort, and adb_wa_sort_unique, which drops a value equal to the one before it.
AdWaSort(db, arr) == SortSeq(arr, LAMBDA a, b : AdRoCmpobj(db, AdRObj(db, a), AdRObj(db, b), "exact") < 0)
AdUnique(s) ==
  LET keep == SelectSeq([k \in DOMAIN s |-> k], LAMBDA k : k = 1 \/ s[k] # s[k - 1])
  IN  [k \in DOMAIN keep |-> s[keep[k]]]

\* adb_ra_find: a binary search for the first candidate, then a scan.
AdLowerBound(db, arr, t) ==
  LET cmp(m) == AdRoCmpobj(db, t, AdRObj(db, arr[m]), "index")
      search[l \in 1 .. (Len(arr) + 1), r \in 1 .. (Len(arr) + 1)] ==
        LET m == (l + r) \div 2
        IN  IF l >= r THEN r ELSE IF cmp(m) <= 0 THEN search[l, m] ELSE search[m + 1, r]
  IN  search[1, Len(arr) + 1]

AdRaFind(db, arr, cur, t) ==
  LET cmp(k, mode) == AdRoCmpobj(db, t, AdRObj(db, arr[k]), mode)
      scan[k \in 1 .. (Len(arr) + 1)] ==
        IF k > Len(arr) THEN -1
          ELSE IF cmp(k, "template") = 0 THEN k
          ELSE IF cmp(k, "index") # 0 THEN -1 ELSE scan[k + 1]
  IN  scan[IF cur = 0 THEN AdLowerBound(db, arr, t) ELSE cur + 1]

-----------------------------------------------------------------------------
\* The calls.  Each value returned is recorded with what it stands for; a call names a value by the
\* number of the call that returned it, 0 being none.
AdMade(w, means, raw) ==
  [ad EXCEPT !.todo = Tail(@), !.db = w.db, !.made = Append(@, [val |-> w.val, means |-> means, raw |-> raw])]
AdRaw(entries) == \E k \in DOMAIN entries : entries[k].raw
AdValue(made, k) == IF k = 0 THEN AdBlank ELSE made[k]

AdWriteBlob(c) ==
  /\ c.call = "blob"
  /\ ad' = AdMade(AdWBlob(ad.db, c.data, c.raw), IF c.data = <<>> THEN <<"null", 0>> ELSE <<"blob", c.data>>, c.raw)

AdWriteInt(c) ==
  /\ c.call = "int"
  /\ ad' = AdMade(AdWInt(ad.db, c.data), <<"int", c.data>>, FALSE)

\* An object is filled by adb_wo_val, with values of the kind the schema has for each field, written
\* by adb_w_obj and appended to the array (adb_wa_append_obj), unless it is null.
AdMeans(entries) ==
  LET vals == AdTrim([k \in DOMAIN entries |-> entries[k].val])
  IN  IF vals = <<>> THEN <<"null", 0>> ELSE <<"obj", [k \in DOMAIN vals |-> entries[k].means]>>

AdAppendObj(c) ==
  /\ c.call = "object"
  /\ LET obj == [i \in 1 .. (AdNumFields - 1) |-> AdValue(ad.made, c.fields[i])]
         w == AdWObj(ad.db, [i \in DOMAIN obj |-> obj[i].val], AdObject)
         a == AdMade(w, AdMeans(obj), AdRaw(obj))
     IN  ad' = [a EXCEPT !.arr = IF w.val = AdNull THEN @ ELSE Append(@, Last(a.made))]

\* adb_w_arr: pre_commit sorts the array.
AdEntry(v) == CHOOSE e \in ToSet(ad.arr) : e.val = v
AdCommitted(vals) ==
  [AdMade(AdWObj(ad.db, vals, AdArray), AdMeans([k \in DOMAIN vals |-> AdEntry(vals[k])]), AdRaw(ad.arr))
     EXCEPT !.arr = <<>>, !.found = vals]
AdSorted(vals, unique) == IF unique THEN AdUnique(vals) ELSE vals
AdCommitArr(c) ==
  /\ c.call = "array"
  /\ ad' = AdCommitted(AdSorted(AdWaSort(ad.db, [k \in DOMAIN ad.arr |-> ad.arr[k].val]), c.unique))

\* mkpkg overwrites the unique id, a raw blob, when everything has been written.
AdPatch(c) ==
  /\ c.call = "patch"
  /\ LET e == ad.made[c.value]
         at == e.val[2] + Len(AdLength(Len(e.means[2]))) + 1
     IN  ad' = [ad EXCEPT !.todo = Tail(@), !.patched = TRUE, !.db.mem[at] = @ + 1]

\* The buffer is complete, and another is begun that copies from it.
AdNewDb(c) ==
  /\ c.call = "new"
  /\ ad' = [ad EXCEPT !.todo = Tail(@), !.db = AdEmpty, !.src = ad.db, !.made = <<>>, !.from = ad.made,
                       !.arr = <<>>, !.found = <<>>]

AdCopy(c) ==
  /\ c.call = "copy"
  /\ LET e == ad.from[c.value] IN ad' = AdMade(AdWCopy(ad.db, ad.src, e.val), e.means, FALSE)

AdBegin ==
  /\ ad.todo = <<>> /\ ad.made = <<>>
  /\ \E c \in AdClients : ad' = [ad EXCEPT !.todo = c]

AdCall(c) ==
  AdWriteBlob(c) \/ AdWriteInt(c) \/ AdAppendObj(c) \/ AdCommitArr(c) \/ AdPatch(c) \/ AdNewDb(c) \/ AdCopy(c)

AdNext == AdBegin \/ (ad.todo # <<>> /\ AdCall(Head(ad.todo)))
AdSpec == AdInit /\ [][AdNext]_ad

-----------------------------------------------------------------------------
\* The types.
AdTypeOK ==
  /\ \A d \in {ad.db, ad.src} :
       /\ \A k \in DOMAIN d.mem : d.mem[k] \in Nat
       /\ \A k \in DOMAIN d.cache : d.cache[k].offs + d.cache[k].len <= Len(d.mem)

\* Everything that was written reads back as what it was, however much has been written, shared,
\* sorted or copied since, and also after mkpkg has overwritten the one blob that is meant to change.
AdReadsBack ==
  \A e \in ToSet(ad.made) : (ad.patched => ~e.raw) => AdMeaning(ad.db, e.val) = e.means

\* Objects are stored once: adb_w_data gives equal words the same offset, which adb_wa_sort_unique
\* relies on when it compares values instead of what they refer to.  So are integers of one word.
\* (Longer ones are not, as adb_w_copy aligns them more than adb_w_int, nor are blobs, whose entry in
\* the cache a word of the same bytes may take.)
AdStoredOnce ==
  \A e, f \in ToSet(ad.made) :
    e.val[1] = f.val[1] /\ e.val[1] \in {AdInt32, AdObject}
      /\ (LET words(x) == IF x.val[1] = AdObject THEN AdWords(AdRObj(ad.db, x.val)) ELSE <<AdRInt(ad.db, x.val)>>
          IN  words(e) = words(f))
    => e.val = f.val

\* adb_w_raw writes the padding before it makes room for it.  That stays within the allocation,
\* because every size the allocation takes is a multiple of every alignment.
AdInBounds == ~ad.db.over /\ Len(ad.db.mem) <= ad.db.alloc

\* Searching a sorted array with adb_ra_find, from the start and then from each hit, finds exactly
\* the items that match the template, for any template: the order of the exact sort is good enough
\* for the binary search by the leading fields.
AdTemplates ==
  {<<a, b>> : a \in {e.val : e \in {x \in ToSet(ad.made) : x.val = AdNull \/ x.val[1] \in {AdBlob8, AdBlob16}}} \cup {AdNull},
              b \in {e.val : e \in {x \in ToSet(ad.made) : x.val = AdNull \/ x.val[1] \in {AdInt, AdInt32, AdInt64}}} \cup {AdNull}}

AdFindExact ==
  ad.patched \/ ad.found = <<>> \/ \A t \in AdTemplates :
    LET hits[cur \in 0 .. Len(ad.found)] ==
          LET k == AdRaFind(ad.db, ad.found, cur, t) IN IF k = -1 THEN {} ELSE {k} \cup hits[k]
    IN  hits[0] = {k \in DOMAIN ad.found : AdRoCmpobj(ad.db, t, AdRObj(ad.db, ad.found[k]), "template") = 0}

\* What the ADB writer promises: values read back as written, equal data is stored once,
\* offsets stay inside, and a search finds what is there.
AdCorrect ==
  ad.todo # <<>> \/ ad.made # <<>> =>
    AdTypeOK /\ AdReadsBack /\ AdStoredOnce /\ AdInBounds /\ AdFindExact
=============================================================================
