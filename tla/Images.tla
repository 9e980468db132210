------------------------------- MODULE Images -------------------------------
(* Images (crates/exs-abi/src/image): the records in which a value crosses. *)
(* An image is its length, the offset of its root record and its records by *)
(* offset.  Offsets count bytes; the header is at 0, so 0 is no record.  A  *)
(* record holds the words, the number, the text or the trace of its payload *)
(* and not its bytes.                                                       *)
EXTENDS ExsValues, TLC

CONSTANT InvalidTexts \* texts that are not valid UTF-8

HeaderSize == 8
NoOffset == -1
Record(kind, argument) ==
    [kind |-> kind, argument |-> argument, words |-> <<>>, number |-> 0, text |-> "", chars |-> 0,
     trace |-> <<>>]
NumberRecord(kind, n) == [Record(kind, 0) EXCEPT !.number = n]
StringRecord(t) ==
    [Record("string", ByteLength(t)) EXCEPT !.text = t, !.chars = CharCount(t)]
BytesRecord(t) == [Record("bytes", ByteLength(t)) EXCEPT !.text = t]
WordsRecord(kind, argument, words) == [Record(kind, argument) EXCEPT !.words = words]
ErrorRecord(fatal, words, trace) ==
    [WordsRecord("error", fatal, words) EXCEPT !.trace = trace]

Padded(n) == ((n + 7) \div 8) * 8
RecordSize(r) ==
    8 + CASE r.kind = "string" -> 8 + Padded(r.argument)
          [] r.kind = "bytes" -> Padded(r.argument)
          [] r.kind \in {"int", "float"} -> 8
          [] OTHER -> Padded(4 * Len(r.words)) + 8 * Len(r.trace)

\* --- Writing --------------------------------------------------------------------------------
\* The image so far; `at` is the record or `words` are the offsets written last.
NewWriter == [records |-> <<>>, length |-> HeaderSize, size |-> 0, problem |-> "", at |-> 0,
              words |-> <<>>]
Stopped(w, problem) == [w EXCEPT !.problem = problem]
AppendRecord(w, r) ==
    [w EXCEPT !.records = (w.length :> r) @@ @, !.at = w.length, !.length = @ + RecordSize(r)]
FinishedImage(w) == [length |-> w.length, root |-> w.at, records |-> w.records]

Account(w, count, limits) ==
    LET size == w.size + count
    IN [w EXCEPT !.size = size, !.problem = IF size > limits.payload THEN "payload" ELSE @]
AccountAndAppend(w, count, limits, r) ==
    With(Account(w, count, limits), LAMBDA a : IF a.problem = "" THEN AppendRecord(a, r) ELSE a)
WriteText(w, t, limits) == AccountAndAppend(w, TextSize(t), limits, StringRecord(t))
WriteScalar(w, v, limits) ==
    CASE v.tag \in {"none", "unit"} -> AccountAndAppend(w, 1, limits, Record(v.tag, 0))
      [] v.tag = "bool" -> AccountAndAppend(w, 1, limits, Record("bool", v.number))
      [] v.tag = "int" ->
           AccountAndAppend(w, IntLength(v.number), limits, NumberRecord("int", v.number))
      [] v.tag = "float" -> AccountAndAppend(w, 9, limits, NumberRecord("float", v.number))
      [] v.tag = "string" -> WriteText(w, v.texts[1], limits)
      [] OTHER -> AccountAndAppend(w, TextSize(v.texts[1]), limits, BytesRecord(v.texts[1]))

\* What a composite consists of, in the order it is written: texts, values, words that are no
\* offsets and sizes that only count.
Item(of, text, part, number) == [of |-> of, text |-> text, part |-> part, number |-> number]
TextItem(t) == Item("text", t, NoneTree, 0)
PartItem(v) == Item("part", "", v, 0)
WordItem(word) == Item("word", "", NoneTree, word)
SizeItem(size) == Item("size", "", NoneTree, size)
RECURSIVE TextItems(_), PartItems(_), Entries(_, _), SizeItems(_)
TextItems(ts) == IF ts = <<>> THEN <<>> ELSE <<TextItem(Head(ts))>> \o TextItems(Tail(ts))
PartItems(vs) == IF vs = <<>> THEN <<>> ELSE <<PartItem(Head(vs))>> \o PartItems(Tail(vs))
SizeItems(frames) ==
    IF frames = <<>> THEN <<>> ELSE <<SizeItem(FrameSize(Head(frames)))>> \o SizeItems(Tail(frames))
Entries(ts, vs) ==
    IF ts = <<>> THEN <<>>
    ELSE <<TextItem(Head(ts)), PartItem(Head(vs))>> \o Entries(Tail(ts), Tail(vs))
ErrorItems(v) ==
    TextItems(v.texts) \o <<PartItem(v.parts[1]), SizeItem(OriginSize(v.origin)), WordItem(v.origin)>>
    \o SizeItems(v.trace)
    \o (IF Len(v.parts) = 2 THEN <<PartItem(v.parts[2])>> ELSE <<SizeItem(1), WordItem(0)>>)
    \o <<WordItem(Len(v.trace))>>
Items(v) == CASE v.tag = "object" -> Entries(v.texts, v.parts)
              [] v.tag = "typed" -> TextItems(<<v.texts[1]>>) \o Entries(Tail(v.texts), v.parts)
              [] v.tag = "error" -> ErrorItems(v)
              [] OTHER -> TextItems(v.texts) \o PartItems(v.parts)

\* Writes the records of a value, the parts of a composite before its own.
RECURSIVE WriteValue(_, _, _, _), WriteItems(_, _, _, _, _)
WriteItems(w, items, depth, limits, words) ==
    IF items = <<>> THEN [w EXCEPT !.words = words]
    ELSE With(CASE Head(items).of = "text" -> WriteText(w, Head(items).text, limits)
                [] Head(items).of = "part" -> WriteValue(w, Head(items).part, depth + 1, limits)
                [] Head(items).of = "word" -> [w EXCEPT !.at = Head(items).number]
                [] OTHER -> Account(w, Head(items).number, limits),
              LAMBDA a : IF a.problem # "" THEN a
                         ELSE WriteItems(a, Tail(items), depth, limits,
                                         IF Head(items).of = "size" THEN words ELSE Append(words, a.at)))
WriteValue(w, v, depth, limits) ==
    IF depth > limits.nesting THEN Stopped(w, "nesting")
    ELSE IF v.tag \notin Composites THEN WriteScalar(w, v, limits)
    ELSE IF EntryCount(v) > limits.entries THEN Stopped(w, "entries")
    ELSE With(Account(w, HeadSize(v.tag, EntryCount(v)), limits), LAMBDA a :
         IF a.problem # "" THEN a
         ELSE With(WriteItems(a, Items(v), depth, limits, <<>>), LAMBDA b :
              IF b.problem # "" THEN b
              ELSE AppendRecord(b, IF v.tag = "error" THEN ErrorRecord(v.number, b.words, v.trace)
                                   ELSE WordsRecord(v.tag, Len(v.parts), b.words))))
HostWrite(v, limits) == WriteValue(NewWriter, v, 1, limits)

\* --- Reading --------------------------------------------------------------------------------
NewReader == [size |-> 0, problem |-> "", value |-> NoneTree, text |-> "", texts |-> <<>>,
              parts |-> <<>>]
IsRecord(image, offset) == offset >= HeaderSize /\ offset % 8 = 0 /\ offset \in DOMAIN image.records
WordAt(r, i) == IF i \in DOMAIN r.words THEN r.words[i] ELSE NoOffset

\* Mutant: keys do not count.
ReadTextForFree(reader, image, offset, limits) ==
    IF ~IsRecord(image, offset) \/ image.records[offset].kind # "string"
       \/ image.records[offset].text \in InvalidTexts THEN Stopped(reader, "malformed")
    ELSE [reader EXCEPT !.text = image.records[offset].text]
ReadText(reader, image, offset, limits) ==
    IF ~IsRecord(image, offset) \/ image.records[offset].kind # "string" THEN
        Stopped(reader, "malformed")
    ELSE With(Account(reader, TextSize(image.records[offset].text), limits), LAMBDA a :
         IF a.problem # "" THEN a
         ELSE IF image.records[offset].text \in InvalidTexts THEN Stopped(a, "malformed")
         ELSE [a EXCEPT !.text = image.records[offset].text])
AccountAndRead(reader, count, limits, value) ==
    [Account(reader, count, limits) EXCEPT !.value = value]
ReadScalar(reader, image, offset, limits) ==
    LET r == image.records[offset] IN
    CASE r.kind \in {"none", "unit"} ->
           AccountAndRead(reader, 1, limits, Tree(r.kind, 0, <<>>, <<>>))
      [] r.kind = "bool" /\ r.argument \in 0..1 ->
           AccountAndRead(reader, 1, limits, BoolTree(r.argument))
      [] r.kind = "int" -> AccountAndRead(reader, IntLength(r.number), limits, IntTree(r.number))
      [] r.kind = "float" -> AccountAndRead(reader, 9, limits, FloatTree(r.number))
      [] r.kind = "string" ->
           With(ReadText(reader, image, offset, limits), LAMBDA a : [a EXCEPT !.value = StringTree(a.text)])
      [] r.kind = "bytes" -> AccountAndRead(reader, TextSize(r.text), limits, BytesTree(r.text))
      [] OTHER -> Stopped(reader, "malformed")

\* The offsets a composite record names, in the order they are read, and the sizes in between.
Slot(of, offset) == [of |-> of, offset |-> offset]
RECURSIVE SlotsOf(_, _, _), EntrySlots(_, _, _)
SlotsOf(r, of, words) ==
    IF words = <<>> THEN <<>> ELSE <<Slot(of, WordAt(r, Head(words)))>> \o SlotsOf(r, of, Tail(words))
EntrySlots(r, first, count) ==
    IF count = 0 THEN <<>>
    ELSE <<Slot("text", WordAt(r, first)), Slot("part", WordAt(r, first + 1))>>
         \o EntrySlots(r, first + 2, count - 1)
Numbers(first, count) == [i \in 1..count |-> first + i - 1]
ErrorSlots(r) ==
    SlotsOf(r, "text", <<1, 2>>) \o SlotsOf(r, "part", <<3>>)
    \o <<Slot("size", OriginSize(r.words[4]))>>
    \o [i \in 1..r.words[6] |-> IF i \in DOMAIN r.trace THEN Slot("size", FrameSize(r.trace[i]))
                                ELSE Slot("part", NoOffset)]
    \o (IF r.words[5] = 0 THEN <<Slot("size", 1)>> ELSE SlotsOf(r, "part", <<5>>))
Slots(r) == CASE r.kind = "list" -> SlotsOf(r, "part", Numbers(1, r.argument))
              [] r.kind = "object" -> EntrySlots(r, 1, r.argument)
              [] r.kind = "typed" -> SlotsOf(r, "text", <<1>>) \o EntrySlots(r, 2, r.argument)
              [] r.kind = "enum" -> SlotsOf(r, "text", <<1, 2>>)
                                    \o SlotsOf(r, "part", Numbers(3, r.argument))
              [] OTHER -> ErrorSlots(r)

ComposedOf(r, texts, parts) ==
    IF r.kind # "error" THEN Tree(r.kind, 0, texts, parts)
    ELSE ErrorTree(r.argument, texts[1], texts[2], r.words[4], SubSeq(r.trace, 1, r.words[6]),
                   IF Len(parts) = 2 /\ parts[2] = NoneTree THEN <<parts[1]>> ELSE parts)
IsWellFormed(r) ==
    /\ r.kind \in Composites
    /\ r.kind = "error" => r.argument \in 0..1 /\ Len(r.words) >= 6
RecordEntries(r) == IF r.kind = "error" THEN r.words[6] ELSE r.argument

RECURSIVE ReadValue(_, _, _, _, _), ReadSlots(_, _, _, _, _, _, _)
ReadSlots(reader, image, slots, depth, limits, texts, parts) ==
    IF slots = <<>> THEN [reader EXCEPT !.texts = texts, !.parts = parts]
    ELSE With(CASE Head(slots).of = "text" -> ReadText(reader, image, Head(slots).offset, limits)
                [] Head(slots).of = "part" -> ReadValue(reader, image, Head(slots).offset, depth + 1, limits)
                [] OTHER -> Account(reader, Head(slots).offset, limits),
              LAMBDA a : IF a.problem # "" THEN a
                         ELSE ReadSlots(a, image, Tail(slots), depth, limits,
                                        IF Head(slots).of = "text" THEN Append(texts, a.text) ELSE texts,
                                        IF Head(slots).of = "part" THEN Append(parts, a.value) ELSE parts))
ReadValue(reader, image, offset, depth, limits) ==
    IF depth > limits.nesting THEN Stopped(reader, "nesting")
    ELSE IF ~IsRecord(image, offset) THEN Stopped(reader, "malformed")
    ELSE IF image.records[offset].kind \notin Composites THEN ReadScalar(reader, image, offset, limits)
    ELSE IF ~IsWellFormed(image.records[offset]) THEN Stopped(reader, "malformed")
    ELSE IF RecordEntries(image.records[offset]) > limits.entries THEN Stopped(reader, "entries")
    ELSE With(Account(reader, HeadSize(image.records[offset].kind, RecordEntries(image.records[offset])),
                      limits), LAMBDA a :
         IF a.problem # "" THEN a
         ELSE With(ReadSlots(a, image, Slots(image.records[offset]), depth, limits, <<>>, <<>>), LAMBDA b :
              IF b.problem # "" THEN b
              ELSE [b EXCEPT !.value = ComposedOf(image.records[offset], b.texts, b.parts)]))
HostRead(image, limits) == ReadValue(NewReader, image, image.root, 1, limits)
===============================================================================
