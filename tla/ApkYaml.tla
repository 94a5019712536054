------------------------------ MODULE ApkYaml ------------------------------
(***************************************************************************)
(* The textual form of a v3 file: apk adbdump walks a database and calls a *)
(* serializer (YAML or JSON), apk adbgen parses the YAML and rebuilds the  *)
(* database through a serializer of its own.                               *)
(*                                                                         *)
(* A string is a sequence of characters, of which only those that matter   *)
(* to the syntax are told apart; a key of the schema is one character.  A  *)
(* database is a function for an object, a sequence for an array.  The two *)
(* dumps, YAML and JSON, are made side by side; their layout is kept for   *)
(* YAML, where it is the syntax, and left out for JSON.                    *)
(***************************************************************************)
EXTENDS Integers, SequencesExt

CONSTANTS
  YmDocs,      \* the packages dumped: [db: the database, signed: a signature block follows]
  YmLong,      \* the length from which need_quoting asks for a block, 80 in the code
  YmMaxBlock,  \* the size of mblockdata
  YmMaxNesting \* the levels of the array started, 64 in the code

\* [pc, doc, todo: the calls of dump_item that are pending, dt and js: the two serializers, rd: the parser]
VARIABLE ym

\* Part of schema_package and what it refers to: the fields of the objects, the items of the arrays.
YmObjects ==
  [package |-> << <<"info", "pkginfo">>, <<"paths", "dirs">>, <<"scripts", "scripts">>, <<"triggers", "strings">> >>,
   pkginfo |-> << <<"name", "string">>, <<"description", "string">> >>,
   dir     |-> << <<"name", "string">>, <<"files", "files">> >>,
   file    |-> << <<"name", "string">>, <<"size", "number">> >>,
   scripts |-> << <<"trigger", "mstring">>, <<"pre-install", "mstring">> >>]
YmArrays == [dirs |-> "dir", files |-> "file", strings |-> "string"]

YmKind(type) == IF type \in DOMAIN YmObjects THEN "object" ELSE IF type \in DOMAIN YmArrays THEN "array" ELSE "scalar"
YmFields(type) == {YmObjects[type][k][1] : k \in DOMAIN YmObjects[type]}
YmFieldNumber(type, f) == CHOOSE k \in DOMAIN YmObjects[type] : YmObjects[type][k][1] = f
YmChild(type, key) ==
  IF YmKind(type) = "array" THEN YmArrays[type] ELSE YmObjects[type][YmFieldNumber(type, key)][2]

YmHas(s, t) == \E k \in 1 .. Len(s) : IsPrefix(t, SubSeq(s, k, Len(s)))
\* apk_blob_split: what is before and after the first occurrence.
YmSplit(s, t) ==
  LET at == CHOOSE k \in 1 .. Len(s) : /\ IsPrefix(t, SubSeq(s, k, Len(s)))
                                       /\ \A j \in 1 .. (k - 1) : ~IsPrefix(t, SubSeq(s, j, Len(s)))
  IN  <<SubSeq(s, 1, at - 1), SubSeq(s, at + Len(t), Len(s))>>

-----------------------------------------------------------------------------
\* serialize_yaml.c: text is the lines written, line the one being written.
YmPad(n) == [k \in 1 .. n |-> " "]
YmInArray(dt) == dt.flags # <<>> /\ Last(dt.flags) = "array"
YmPut(dt, chars) == [dt EXCEPT !.line = @ \o chars]

ser_yaml_indent(dt, item, continue) ==
  CASE ~dt.line_started -> [YmPut(dt, YmPad(2 * dt.indent) \o (IF item /\ YmInArray(dt) THEN <<"-", " ">> ELSE <<>>))
                              EXCEPT !.line_started = TRUE]
    [] dt.line_started /\ dt.key_printed /\ continue -> YmPut(dt, <<" ">>)
    [] OTHER -> dt

ser_yaml_newline(dt) == [dt EXCEPT !.text = Append(@, dt.line), !.line = <<>>, !.line_started = FALSE, !.key_printed = FALSE]
ser_yaml_start_indent(dt, flags) ==
  [dt EXCEPT !.indent = IF dt.flags # <<>> THEN @ + 1 ELSE @, !.flags = Append(@, flags)]
ser_yaml_start_object(dt) == ser_yaml_start_indent(ser_yaml_indent(dt, TRUE, FALSE), "object")
ser_yaml_start_schema(dt) == ser_yaml_newline(YmPut(ser_yaml_start_object(dt), <<"#%SCHEMA">>))
ser_yaml_start_array(dt) ==
  ser_yaml_start_indent(ser_yaml_newline(YmPut(ser_yaml_indent(dt, TRUE, TRUE), <<"#", " ", "n">>)), "array")
ser_yaml_comment(dt) == ser_yaml_newline(YmPut(ser_yaml_indent(dt, FALSE, TRUE), <<"#", " ", "c">>))
ser_yaml_outdent(dt) == [dt EXCEPT !.flags = Front(@), !.indent = IF Len(dt.flags) > 1 THEN @ - 1 ELSE @]
ser_yaml_end(dt) == ser_yaml_outdent(IF dt.line_started THEN ser_yaml_comment(dt) ELSE dt)
ser_yaml_key(dt, key) ==
  [YmPut(ser_yaml_indent(IF dt.key_printed THEN ser_yaml_newline(dt) ELSE dt, TRUE, TRUE), <<key, ":">>)
     EXCEPT !.key_printed = TRUE]
ser_yaml_numeric(dt, digits) == ser_yaml_newline(YmPut(ser_yaml_indent(dt, TRUE, TRUE), digits))

\* Of the characters told apart, the ones that YAML gives a meaning at the start of a scalar.
YmIndicators == {"-", ":", "#", "|", "'", "\""}
need_quoting_comment(b, multiline) ==
  LET block == Len(b) >= YmLong \/ multiline \/ \E k \in DOMAIN b : b[k] \in {"\n", "'"}
      single == \/ b[1] \in YmIndicators
                \/ \E k \in DOMAIN b : b[k] = "#" \/ (k > 1 /\ b[k] = " " /\ b[k - 1] = ":")
  IN  CASE b = <<>> -> "none" [] b # <<>> /\ block -> "block" [] b # <<>> /\ ~block /\ single -> "single" [] OTHER -> "none"
need_quoting(b, multiline) ==
  LET block == \/ Len(b) >= YmLong \/ multiline
               \/ \E k \in DOMAIN b : b[k] \in {"\n", "'"} \/ (k > 1 /\ b[k] = "#" /\ b[k - 1] = " ")
      single == \/ b[1] \in YmIndicators
                \/ \E k \in DOMAIN b : b[k] = "#" \/ (k > 1 /\ b[k] = " " /\ b[k - 1] = ":")
  IN  CASE b = <<>> -> "none" [] b # <<>> /\ block -> "block" [] b # <<>> /\ ~block /\ single -> "single" [] OTHER -> "none"

\* apk_blob_foreach_token: the tokens that are not empty.
YmTokens(s, sep) ==
  LET cut == <<0>> \o SelectSeq([k \in DOMAIN s |-> k], LAMBDA k : s[k] = sep) \o <<Len(s) + 1>>
      pieces == [k \in 1 .. (Len(cut) - 1) |-> SubSeq(s, cut[k] + 1, cut[k + 1] - 1)]
  IN  SelectSeq(pieces, LAMBDA p : p # <<>>)

YmBlockLines(dt, lines) ==
  FoldLeft(LAMBDA d, l : ser_yaml_newline(YmPut(ser_yaml_indent(d, FALSE, TRUE), l)), [dt EXCEPT !.indent = @ + 1], lines)
YmBlock(dt, s) == [YmBlockLines(ser_yaml_newline(YmPut(dt, <<"|">>)), YmTokens(s, "\n")) EXCEPT !.indent = @ - 1]
YmScalar(dt, s, style) ==
  CASE style = "none" -> ser_yaml_newline(YmPut(dt, s))
    [] style = "single" -> ser_yaml_newline(YmPut(dt, <<"'">> \o s \o <<"'">>))
    [] OTHER -> YmBlock(dt, s)
ser_yaml_string(dt, s, multiline) == YmScalar(ser_yaml_indent(dt, TRUE, TRUE), s, need_quoting(s, multiline))

-----------------------------------------------------------------------------
\* serialize_json.c, without its blanks and line breaks.
YmEmit(js, chars) == [js EXCEPT !.out = @ \o chars]
ser_json_indent(js, item) ==
  [YmEmit(js, IF ~js.key_printed /\ item /\ js.need_separator THEN <<",">> ELSE <<>>) EXCEPT !.key_printed = FALSE]
ser_json_start_indent(js, open, close) ==
  [YmEmit(js, <<open>>) EXCEPT !.end = Append(@, close), !.need_separator = FALSE]
ser_json_start(js, open, close) ==
  ser_json_start_indent(IF js.end # <<>> THEN ser_json_indent(js, TRUE) ELSE js, open, close)
ser_json_end(js) ==
  [YmEmit(ser_json_indent(js, FALSE), <<Last(js.end)>>) EXCEPT !.end = Front(@), !.need_separator = TRUE]
ser_json_key(js, key) ==
  [YmEmit(ser_json_indent(js, TRUE), <<"\"", key, "\"", ":">>) EXCEPT !.key_printed = TRUE, !.need_separator = TRUE]

YmEsc == [c \in {"\"", "\n", "\\"} |-> IF c = "\n" THEN "n" ELSE c]
\* The run of plain characters since done is copied when an escape interrupts it, and at the end.
YmEscape(acc, s, k) ==
  IF s[k] \in DOMAIN YmEsc
    THEN [out |-> acc.out \o SubSeq(s, acc.done + 1, k - 1) \o <<"\\", YmEsc[s[k]]>>, done |-> k]
    ELSE acc
YmRest(acc, s) == acc.out \o SubSeq(s, acc.done + 1, Len(s))
YmEscaped(s) ==
  YmRest(FoldLeft(LAMBDA acc, k : YmEscape(acc, s, k), [out |-> <<>>, done |-> 0], [k \in DOMAIN s |-> k]), s)
ser_json_string(js, s) ==
  [YmEmit(ser_json_indent(js, TRUE), <<"\"">> \o YmEscaped(s) \o <<"\"">>) EXCEPT !.need_separator = TRUE]
ser_json_numeric(js, digits) == [YmEmit(ser_json_indent(js, TRUE), digits) EXCEPT !.need_separator = TRUE]

-----------------------------------------------------------------------------
\* dump_item and dump_object, with their recursion on the list todo.
YmWork(key, type, node) == [key |-> key, type |-> type, node |-> node]
YmEnd == YmWork("", "end", <<>>)
YmFieldWork(type, node) ==
  LET set == SelectSeq(YmObjects[type], LAMBDA f : f[1] \in DOMAIN node)
  IN  [k \in DOMAIN set |-> YmWork(set[k][1], set[k][2], node[set[k][1]])]
YmItemWork(type, node) == [k \in DOMAIN node |-> YmWork("", YmArrays[type], node[k])]

YmDumpYaml(dt, w) ==
  CASE w.type = "end" -> ser_yaml_end(dt)
    [] YmKind(w.type) = "array" -> ser_yaml_start_array(dt)
    [] YmKind(w.type) = "object" -> ser_yaml_start_object(dt)
    [] w.type \in {"string", "mstring"} -> ser_yaml_string(dt, w.node, w.type = "mstring")
    [] w.type = "number" -> ser_yaml_numeric(dt, w.node)
YmDumpJson(js, w) ==
  CASE w.type = "end" -> ser_json_end(js)
    [] YmKind(w.type) = "array" -> ser_json_start(js, "[", "]")
    [] YmKind(w.type) = "object" -> ser_json_start(js, "{", "}")
    [] w.type \in {"string", "mstring"} -> ser_json_string(js, w.node)
    [] w.type = "number" -> ser_json_numeric(js, w.node)
YmMore(w) ==
  CASE w.type # "end" /\ YmKind(w.type) = "array" -> Append(YmItemWork(w.type, w.node), YmEnd)
    [] w.type # "end" /\ YmKind(w.type) = "object" -> Append(YmFieldWork(w.type, w.node), YmEnd)
    [] OTHER -> <<>>

-----------------------------------------------------------------------------
\* app_adbgen.c, the serializer that builds a database: objs are the objects under construction.
\* Every call returns its error, and the parser stops at the first.
\* The limits on nested objects (32), databases (2) and values (100000) are not modelled: along a path of
\* any schema there are fewer.
YmBuilder == [objs |-> <<>>, curkey |-> <<>>, root |-> <<>>, bad |-> FALSE, err |-> ""]
YmTop(db) == Last(db.objs)
YmFail(db, err) == [db EXCEPT !.err = err]
YmPush(db, type) == [db EXCEPT !.objs = Append(@, [type |-> type, val |-> <<>>]), !.curkey = Append(@, "")]

ser_adb_start_object(db) ==
  CASE db.err # "" -> db
    [] db.err = "" /\ db.objs = <<>> -> YmPush(db, "package")
    [] db.err = "" /\ db.objs # <<>> /\ Last(db.curkey) = "" /\ YmKind(YmTop(db).type) = "object" -> YmFail(db, "schema")
    [] OTHER -> IF YmKind(YmChild(YmTop(db).type, Last(db.curkey))) = "scalar" THEN YmFail(db, "crash")
                  ELSE YmPush(db, YmChild(YmTop(db).type, Last(db.curkey)))

ser_adb_key(db, key) ==
  CASE db.err # "" -> db
    [] db.err = "" /\ YmKind(YmTop(db).type) = "object" /\ Len(key) = 1 /\ key[1] \in YmFields(YmTop(db).type) ->
         [db EXCEPT !.curkey[Len(db.curkey)] = key[1]]
    [] OTHER -> YmFail(db, "schema")

\* adb_wo_val and adb_wa_append; an empty value is ADB_NULL and is not stored.
YmWithout(val, key) == [f \in DOMAIN val \ {key} |-> val[f]]
YmWith(val, key, v) == [f \in DOMAIN val \cup {key} |-> IF f = key THEN v ELSE val[f]]
YmStored(top, key, v) ==
  CASE YmKind(top.type) = "array" -> IF v = <<>> THEN top.val ELSE Append(top.val, v)
    [] OTHER -> IF v = <<>> THEN YmWithout(top.val, key) ELSE YmWith(top.val, key, v)
YmStore(db, v) ==
  [db EXCEPT !.objs[Len(db.objs)].val = YmStored(YmTop(db), Last(db.curkey), v), !.curkey[Len(db.curkey)] = ""]

\* adb_w_fromstring: a text that is not a number, or a scalar for an object or an array, is an error value.
YmFromstring(db, type, s) ==
  IF YmKind(type) # "scalar" \/ (type = "number" /\ s # <<"n">>) THEN [YmStore(db, <<>>) EXCEPT !.bad = TRUE]
    ELSE YmStore(db, s)
ser_adb_string(db, s) ==
  CASE db.err # "" -> db
    [] db.err = "" /\ YmKind(YmTop(db).type) = "object" /\ Last(db.curkey) = "" -> YmFail(db, "crash")
    [] OTHER -> YmFromstring(db, YmChild(YmTop(db).type, Last(db.curkey)), s)

YmPop(db) == [db EXCEPT !.objs = Front(@), !.curkey = Front(@)]
ser_adb_end(db) ==
  CASE db.err # "" -> db
    [] db.err = "" /\ Len(db.objs) = 1 -> [YmPop(db) EXCEPT !.root = YmTop(db).val]
    [] OTHER -> YmStore(YmPop(db), YmTop(db).val)

-----------------------------------------------------------------------------
\* adb_walk_yaml.
YmParser == [at |-> 1, nesting |-> 0, multi |-> 0, item |-> FALSE, block |-> <<>>, db |-> YmBuilder,
             started |-> [k \in 0 .. YmMaxNesting |-> k = 0]]

\* The two-blank steps in front of a line; inside a block, no more than belong to the block.
YmLeading(l) == CHOOSE n \in 0 .. Len(l) : /\ \A k \in 1 .. n : l[k] = " "
                                           /\ n = Len(l) \/ l[n + 1] # " "
YmIndentOf(l, multi) ==
  IF multi > 0 /\ YmLeading(l) \div 2 > multi THEN multi ELSE YmLeading(l) \div 2
YmFrom(l, n) == SubSeq(l, n + 1, Len(l))

\* The end of a level: the block it was, if one is being read, and the object or array it started.
YmBlockData(b) == IF b # <<>> /\ Last(b) = "\n" THEN Front(b) ELSE b
YmFlush(r) ==
  IF r.multi = 0 THEN r
    ELSE [r EXCEPT !.multi = 0, !.block = <<>>,
                   !.db = IF Len(r.block) > YmMaxBlock THEN YmFail(@, "E2BIG") ELSE ser_adb_string(@, YmBlockData(r.block))]
YmClose(r) == [r EXCEPT !.db = IF r.started[r.nesting] THEN ser_adb_end(@) ELSE @, !.nesting = @ - 1]
YmUnnest(r, i) == FoldLeft(LAMBDA q, k : YmClose(YmFlush(q)), r, [k \in 1 .. (r.nesting - i) |-> k])

YmStartLevel(r) ==
  IF r.started[r.nesting] THEN r ELSE [r EXCEPT !.db = ser_adb_start_object(@), !.started[r.nesting] = TRUE]
YmDeeper(r) == [r EXCEPT !.nesting = @ + 1, !.started[r.nesting + 1] = FALSE]

YmIsItem(l) == IsPrefix(<<"-", " ">>, l)
YmDash(r, l) == IF YmIsItem(l) THEN [YmStartLevel(r) EXCEPT !.item = TRUE] ELSE r
YmAfterDash(l) == IF YmIsItem(l) THEN YmFrom(l, 2) ELSE l

YmUncommented(l) == IF YmHas(l, <<" ", "#">>) THEN YmSplit(l, <<" ", "#">>)[1] ELSE l
YmParts(l) ==
  CASE YmHas(l, <<":", " ">>) -> [key |-> YmSplit(l, <<":", " ">>)[1], scalar |-> YmSplit(l, <<":", " ">>)[2], start |-> FALSE]
    [] ~YmHas(l, <<":", " ">>) /\ Last(l) = ":" -> [key |-> Front(l), scalar |-> <<>>, start |-> TRUE]
    [] OTHER -> [key |-> <<>>, scalar |-> l, start |-> FALSE]

YmKeyed(r, key) == [r EXCEPT !.db = ser_adb_key(@, key)]
YmKeyObject(r) == YmStartLevel(IF r.item THEN YmDeeper(r) ELSE r)
YmKeyPart(r, p) ==
  CASE p.key = <<>> -> r
    [] p.key # <<>> /\ p.start -> YmDeeper(YmKeyed(YmKeyObject(r), p.key))
    [] OTHER -> YmKeyed(YmKeyObject(r), p.key)

YmOpenBlock(r) == [YmDeeper(r) EXCEPT !.multi = r.nesting + 1]
YmUnquote(db, s) ==
  CASE s[1] # "'" -> ser_adb_string(db, s)
    [] s[1] = "'" /\ (Len(s) < 2 \/ Last(s) # "'") -> IF db.err = "" THEN YmFail(db, "format") ELSE db
    [] OTHER -> ser_adb_string(db, SubSeq(s, 2, Len(s) - 1))
YmScalarPart(r, s) ==
  CASE s = <<>> -> r
    [] s # <<>> /\ s[1] = "|" -> YmOpenBlock(r)
    [] OTHER -> [r EXCEPT !.db = YmUnquote(@, s)]

YmContent(r, l) ==
  IF l = <<>> THEN r
    ELSE [YmScalarPart(YmKeyPart(r, YmParts(l)), YmParts(l).scalar) EXCEPT !.item = FALSE]

\* One turn of the loop, once the levels above the line's are closed and its dash is seen.
YmLine(r, l) ==
  CASE r.multi > 0 -> [r EXCEPT !.block = @ \o l \o <<"\n">>, !.item = FALSE]
    [] r.multi = 0 /\ l # <<>> /\ l[1] = "#" -> r
    [] OTHER -> YmContent(r, YmUncommented(l))
YmIndented(r, l, i) == YmLine(YmDash(YmUnnest(r, i), YmFrom(l, 2 * i)), YmAfterDash(YmFrom(l, 2 * i)))
YmRead(r, l) == [YmIndented(r, l, YmIndentOf(l, r.multi)) EXCEPT !.at = @ + 1]

-----------------------------------------------------------------------------
YmYaml == [text |-> <<>>, line |-> <<>>, line_started |-> FALSE, key_printed |-> FALSE, indent |-> 0, flags |-> <<>>]
YmJsonState == [out |-> <<>>, key_printed |-> FALSE, need_separator |-> FALSE, end |-> <<>>]
YmInit == ym = [pc |-> "idle", doc |-> [db |-> <<>>, signed |-> FALSE], todo |-> <<>>, dt |-> YmYaml, js |-> YmJsonState,
                rd |-> YmParser]

\* adb_walk_block for the ADB block: the schema, a comment, the fields of the root.
YmDumpStart(doc) ==
  /\ ym.pc = "idle"
  /\ ym' = [ym EXCEPT !.pc = "dump", !.doc = doc, !.todo = Append(YmFieldWork("package", doc.db), YmEnd),
                      !.dt = ser_yaml_comment(ser_yaml_start_schema(@)), !.js = ser_json_start(@, "{", "}")]

YmKeyCall(dt, w) == IF w.key # "" THEN ser_yaml_key(dt, w.key) ELSE dt
YmKeyCallJson(js, w) == IF w.key # "" THEN ser_json_key(js, w.key) ELSE js
YmDumpItem ==
  /\ ym.pc = "dump" /\ ym.todo # <<>>
  /\ LET w == Head(ym.todo)
     IN  ym' = [ym EXCEPT !.dt = YmDumpYaml(YmKeyCall(@, w), w), !.js = YmDumpJson(YmKeyCallJson(@, w), w),
                          !.todo = YmMore(w) \o Tail(@)]

\* adb_walk_block for the signature block, and the end of the dump.  adb_walk_yaml reads the schema line.
YmDumpEnd ==
  /\ ym.pc = "dump" /\ ym.todo = <<>>
  /\ ym' = [ym EXCEPT !.pc = "parse", !.dt = IF ym.doc.signed THEN ser_yaml_comment(@) ELSE @,
                      !.rd.at = 2, !.rd.db = ser_adb_start_object(@)]

\* A line of the text, or the empty one after its last newline.
YmParse ==
  /\ ym.pc = "parse" /\ ym.rd.db.err = "" /\ ym.rd.at <= Len(ym.dt.text) + 1
  /\ ym' = [ym EXCEPT !.rd = YmRead(@, IF @.at <= Len(ym.dt.text) THEN ym.dt.text[@.at] ELSE <<>>)]

YmFinish ==
  /\ ym.pc = "parse" /\ (ym.rd.db.err # "" \/ ym.rd.at > Len(ym.dt.text) + 1)
  /\ ym' = [ym EXCEPT !.pc = "done", !.rd.db = ser_adb_end(@)]

YmNext ==
  \/ ym.pc = "idle" /\ \E doc \in YmDocs : YmDumpStart(doc)
  \/ YmDumpItem
  \/ YmDumpEnd
  \/ YmParse
  \/ YmFinish

YmSpec == YmInit /\ [][YmNext]_ym

-----------------------------------------------------------------------------
\* What the text keeps of a string: a block loses its empty lines and its last newline.
YmKept(s, multiline) ==
  IF need_quoting(s, multiline) # "block" THEN s
    ELSE LET ls == YmTokens(s, "\n")
         IN  FlattenSeq([k \in DOMAIN ls |-> IF k < Len(ls) THEN Append(ls[k], "\n") ELSE ls[k]])

RECURSIVE YmNormal(_, _)
YmNormal(type, node) ==
  CASE YmKind(type) = "object" ->
         LET kept == {f \in DOMAIN node : YmNormal(YmChild(type, f), node[f]) # <<>>}
         IN  [f \in kept |-> YmNormal(YmChild(type, f), node[f])]
    [] YmKind(type) = "array" ->
         LET all == [k \in DOMAIN node |-> YmNormal(YmArrays[type], node[k])]
         IN  SelectSeq(all, LAMBDA n : n # <<>>)
    [] OTHER -> YmKept(node, type = "mstring")

RECURSIVE YmStrings(_, _, _)
YmStrings(type, node, item) ==
  CASE YmKind(type) = "object" -> UNION {YmStrings(YmChild(type, f), node[f], FALSE) : f \in DOMAIN node}
    [] YmKind(type) = "array" -> UNION {YmStrings(YmArrays[type], node[k], TRUE) : k \in DOMAIN node}
    [] OTHER -> {[s |-> node, multiline |-> type = "mstring", item |-> item, style |-> need_quoting(node, type = "mstring")]}

\* The strings that the text can carry: the parser takes an array's item that holds a key separator
\* for an object, and a dash in front of a block's line for an item.
YmCarried(x) ==
  /\ x.item /\ x.style # "block" => ~YmHas(x.s, <<":", " ">>)
  /\ x.item /\ x.style = "none" => Last(x.s) # ":"
  /\ x.style = "block" => \A k \in DOMAIN YmTokens(x.s, "\n") : ~YmIsItem(YmTokens(x.s, "\n")[k])
YmFits(x) == x.style = "block" => Len(YmKept(x.s, x.multiline)) + 1 <= YmMaxBlock

\* apk adbgen turns what apk adbdump printed back into the same database (apk-adbgen.8.scd: "takes in
\* apk-adbdump(8) output and convert it back to the corresponding binary format"), but for the empty
\* lines of a block; when a block is larger than its buffer it fails, and never writes a database cut short.
YmRoundTrip ==
  LET strings == YmStrings("package", ym.doc.db, FALSE)
  IN  ym.pc = "done" /\ (\A x \in strings : YmCarried(x)) =>
        IF \A x \in strings : YmFits(x)
          THEN /\ ym.rd.db.err = "" /\ ~ym.rd.db.bad
               /\ ym.rd.db.root = YmNormal("package", ym.doc.db)
          ELSE ym.rd.db.err = "E2BIG" /\ ym.rd.db.root = <<>>

\* The parser's idea of which levels it started agrees with the objects adbgen has under construction:
\* no text makes adb_walk_yaml end an object it did not start, or leave one open behind a closed level.
YmBalanced ==
  ym.pc = "parse" /\ ym.rd.db.err = "" =>
    Len(ym.rd.db.objs) = 1 + Len(SelectSeq([k \in 1 .. ym.rd.nesting |-> k], LAMBDA k : ym.rd.started[k]))

RECURSIVE YmJsonOf(_, _)
YmCommas(parts) == FlattenSeq([k \in DOMAIN parts |-> IF k > 1 THEN <<",">> \o parts[k] ELSE parts[k]])
YmQuoted(s) == <<"\"">> \o FlattenSeq([k \in DOMAIN s |-> IF s[k] \in DOMAIN YmEsc THEN <<"\\", YmEsc[s[k]]>> ELSE <<s[k]>>]) \o <<"\"">>
YmJsonOf(type, node) ==
  CASE YmKind(type) = "object" ->
         LET set == YmFieldWork(type, node)
         IN  <<"{">> \o YmCommas([k \in DOMAIN set |-> <<"\"", set[k].key, "\"", ":">> \o YmJsonOf(set[k].type, set[k].node)]) \o <<"}">>
    [] YmKind(type) = "array" -> <<"[">> \o YmCommas([k \in DOMAIN node |-> YmJsonOf(YmArrays[type], node[k])]) \o <<"]">>
    [] type = "number" -> node
    [] OTHER -> YmQuoted(node)

\* The JSON that the calls of dump_item make the serializer print, one separator flag and one key flag
\* for all levels, is the JSON of the database: separators between siblings only, every brace closed.
YmJsonWellFormed == ym.pc = "parse" => ym.js.out = YmJsonOf("package", ym.doc.db)

\* A database dumped as YAML comes back as it was, every object opened is closed, and the
\* JSON is well formed.
YmCorrect ==
  ym.pc # "idle" =>
    YmRoundTrip /\ YmBalanced /\ YmJsonWellFormed
=============================================================================
