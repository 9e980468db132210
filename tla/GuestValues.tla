---------------------------- MODULE GuestValues ----------------------------
(* Values in the memory of a module, and how they leave it and enter it:    *)
(* crates/exs-core/src/{image,image_writer,boundary,parts,enums,typed}.rs.  *)
(* The collector runs at every allocation and frees whatever the root stack *)
(* does not reach, as it does under VM_FLAG_COLLECT_EVERY_ALLOCATION; a     *)
(* value whose object is gone dangles.  Memory itself never runs out here.  *)
EXTENDS Images

CONSTANTS MaxDepth,  \* MAX_DEPTH, the nesting the module follows
          SmallInts, \* the Ints a reference holds without an object
          Types      \* the program's type table by type id

ASSUME DepthAssumption == MaxDepth \in Nat \ {0}

\* --- Values and objects ---------------------------------------------------------------------
Value(is, at) == [is |-> is, at |-> at]
None == Value("none", 0)
Unit == Value("unit", 0)
Bool(n) == Value("bool", n)
IntValue(n) == Value("int", n)
Ref(at) == Value("ref", at)
Empty == Value("empty", 0) \* a slot that holds nothing
Present(v) == IF v = Empty THEN None ELSE v

\* `type` and `variant` are those of a typed Object or an enum, `order` the entry order of a
\* typed Object if it is not the declared one, `link` the identity String of an untyped Object,
\* the Object of the extra keys of a typed one or the trace of an Error.
Object(kind, texts, parts) ==
    [kind |-> kind, number |-> 0, texts |-> texts, parts |-> parts, type |-> 0, variant |-> 0,
     order |-> <<>>, link |-> 0, origin |-> 0, trace |-> <<>>]
NumberObject(kind, n) == [Object(kind, <<>>, <<>>) EXCEPT !.number = n]
TextObject(kind, t) == Object(kind, <<t>>, <<>>)
TypedObject(type, parts) == [Object("typed", <<>>, parts) EXCEPT !.type = type]
EnumObject(type, variant, parts) ==
    [Object("enum", <<>>, parts) EXCEPT !.type = type, !.variant = variant]
HostVariant == 0 - 1 \* HOST_ENUM_VARIANT, the variant of an enum that keeps its names
ForeignType == 0 - 1 \* FOREIGN_ENUM_TYPE_ID

Copies(v, n) == [i \in 1..n |-> v]
Filled(v, n) == <<>> \o Copies(v, n)
ObjectTypes == {id \in DOMAIN Types : ~Types[id].isEnum}
EnumTypes == {id \in DOMAIN Types : Types[id].isEnum}

\* --- The heap -------------------------------------------------------------------------------
NewGuest == [heap |-> <<>>, next |-> 1, roots |-> <<>>, value |-> None, problem |-> ""]
RefsOf(values) == {values[i].at : i \in {j \in DOMAIN values : values[j].is = "ref"}}
RECURSIVE Reached(_, _)
Reached(heap, seen) ==
    With(seen \cup UNION {RefsOf(heap[a].parts) \cup ({heap[a].link} \ {0}) : a \in seen},
         LAMBDA next : IF next \cap DOMAIN heap = seen THEN seen ELSE Reached(heap, next \cap DOMAIN heap))
Reachable(heap, values) == Reached(heap, RefsOf(values) \cap DOMAIN heap)
Kept(heap, live) == [a \in live |-> heap[a]]
Collect(g) == [g EXCEPT !.heap = <<>> @@ Kept(@, Reachable(@, g.roots))]
Allocate(g, object) ==
    [g EXCEPT !.heap = (g.next :> object) @@ Kept(@, Reachable(@, g.roots)), !.next = @ + 1,
              !.value = Ref(g.next)]
PushRoot(g, v) == [g EXCEPT !.roots = Append(@, v)]
PopRoots(g, mark) == [g EXCEPT !.roots = SubSeq(@, 1, mark)]
IsA(g, v, kind) == v.is = "ref" /\ v.at \in DOMAIN g.heap /\ g.heap[v.at].kind = kind
TextAt(g, v) == g.heap[v.at].texts[1]

\* A new Error.  Its data need not be rooted by the caller.
NewError(g, fatal, kind, message, data, origin, trace) ==
    With(Allocate(PushRoot(g, data), TextObject("string", kind)), LAMBDA a :
    With(Allocate(PushRoot(a, a.value), TextObject("string", message)), LAMBDA b :
    With(Allocate(PushRoot(b, b.value), [Object("trace", <<>>, <<>>) EXCEPT !.trace = trace]), LAMBDA c :
    PopRoots(Allocate(PushRoot(c, c.value),
                      [Object("error", <<>>, <<a.value, b.value, data, None>>)
                       EXCEPT !.number = fatal, !.origin = origin, !.link = c.value.at]),
             Len(g.roots)))))

\* --- Enums ----------------------------------------------------------------------------------
PayloadOf(o) == IF o.variant = HostVariant THEN SubSeq(o.parts, 1, Len(o.parts) - 2) ELSE o.parts
IdentityOf(g, o) == IF o.variant = HostVariant THEN TextAt(g, o.parts[Len(o.parts) - 1])
                    ELSE Types[o.type].identity
VariantOf(g, o) == IF o.variant = HostVariant THEN TextAt(g, o.parts[Len(o.parts)])
                   ELSE Types[o.type].fields[o.variant]
IsNamed(o) == \/ o.variant = HostVariant
              \/ o.type \in DOMAIN Types /\ o.variant \in DOMAIN Types[o.type].fields
IndexOf(names, name) == CHOOSE i \in DOMAIN names : names[i] = name
Occurs(names, name) == \E i \in DOMAIN names : names[i] = name
ResolvedEnums(identity, variant) ==
    {id \in EnumTypes : Types[id].identity = identity /\ Occurs(Types[id].fields, variant)}
HostEnumType(identity) ==
    LET ids == {id \in EnumTypes : Types[id].identity = identity}
    IN IF ids = {} THEN ForeignType ELSE CHOOSE id \in ids : TRUE

\* --- Writing --------------------------------------------------------------------------------
SlotsInOrder(o) == IF o.order = <<>> THEN [i \in DOMAIN o.parts |-> i] ELSE o.order
RECURSIVE FieldItems(_, _, _)
FieldItems(o, fields, slots) ==
    IF slots = <<>> THEN <<>>
    ELSE (IF o.parts[Head(slots)] = Empty THEN <<>>
          ELSE <<TextItem(fields[Head(slots)]), PartItem(o.parts[Head(slots)])>>)
         \o FieldItems(o, fields, Tail(slots))
ExtraItems(g, o) ==
    IF o.link = 0 THEN <<>> ELSE Entries(g.heap[o.link].texts, g.heap[o.link].parts)
WordOrigin(origin) == IF origin = 0 THEN 0 ELSE origin + 1
TraceOf(g, o) == IF o.link = 0 THEN <<>> ELSE g.heap[o.link].trace
GuestErrorItems(g, o) ==
    <<TextItem(TextAt(g, o.parts[1])), TextItem(TextAt(g, o.parts[2])), PartItem(o.parts[3]),
      WordItem(WordOrigin(o.origin)), IF o.parts[4] = None THEN WordItem(0) ELSE PartItem(o.parts[4]),
      WordItem(Len(TraceOf(g, o)))>>
GuestItems(g, o) ==
    CASE o.kind = "list" -> PartItems(o.parts)
      [] o.kind = "object" -> (IF o.link = 0 THEN <<>> ELSE <<TextItem(g.heap[o.link].texts[1])>>)
                              \o Entries(o.texts, o.parts)
      [] o.kind = "typed" -> <<TextItem(Types[o.type].boundary)>>
                             \o FieldItems(o, Types[o.type].fields, SlotsInOrder(o)) \o ExtraItems(g, o)
      [] o.kind = "enum" -> TextItems(<<IdentityOf(g, o), VariantOf(g, o)>>) \o PartItems(PayloadOf(o))
      [] OTHER -> GuestErrorItems(g, o)
\* The record of a composite, its words still to be written.
EmptyRecord(g, o, words) ==
    CASE o.kind = "list" -> WordsRecord("list", words, Filled(0, words))
      [] o.kind = "object" /\ o.link = 0 -> WordsRecord("object", words \div 2, Filled(0, words))
      [] o.kind = "enum" -> WordsRecord("enum", words - 2, Filled(0, words))
      [] o.kind = "error" -> ErrorRecord(o.number, Filled(0, words), TraceOf(g, o))
      [] OTHER -> WordsRecord("typed", words \div 2, Filled(0, words))
\* Mutant: one level more.
CanWriteDeeper(o, depth) ==
    /\ o.kind \in Composites
    /\ depth <= MaxDepth
    /\ o.kind = "typed" => o.type \in DOMAIN Types
    /\ o.kind = "enum" => IsNamed(o)
CanWrite(o, depth) ==
    /\ o.kind \in Composites
    /\ depth < MaxDepth
    /\ o.kind = "typed" => o.type \in DOMAIN Types
    /\ o.kind = "enum" => IsNamed(o)

\* A record comes before its parts and receives their offsets as they are written.
RECURSIVE GuestWriteValue(_, _, _, _), PatchItems(_, _, _, _, _, _)
PatchItems(w, g, at, word, items, depth) ==
    IF items = <<>> THEN [w EXCEPT !.at = at]
    ELSE With(CASE Head(items).of = "text" -> AppendRecord(w, StringRecord(Head(items).text))
                [] Head(items).of = "part" -> GuestWriteValue(w, g, Head(items).part, depth + 1)
                [] OTHER -> [w EXCEPT !.at = Head(items).number],
              LAMBDA a : IF a.problem # "" THEN a
                         ELSE PatchItems([a EXCEPT !.records[at].words[word] = a.at], g, at, word + 1,
                                         Tail(items), depth))
GuestWriteObject(w, g, o, depth) ==
    CASE o.kind = "string" -> AppendRecord(w, StringRecord(o.texts[1]))
      [] o.kind = "bytes" -> AppendRecord(w, BytesRecord(o.texts[1]))
      [] o.kind \in {"int", "float"} -> AppendRecord(w, NumberRecord(o.kind, o.number))
      [] CanWrite(o, depth) ->
           With(GuestItems(g, o), LAMBDA items :
           With(AppendRecord(w, EmptyRecord(g, o, Len(items))), LAMBDA a :
           PatchItems(a, g, a.at, 1, items, depth)))
      [] OTHER -> Stopped(w, "unsupported")
GuestWriteValue(w, g, v, depth) ==
    CASE v.is \in {"none", "unit"} -> AppendRecord(w, Record(v.is, 0))
      [] v.is = "bool" -> AppendRecord(w, Record("bool", v.at))
      [] v.is = "int" -> AppendRecord(w, NumberRecord("int", v.at))
      [] v.is = "ref" -> GuestWriteObject(w, g, g.heap[v.at], depth)
      [] OTHER -> Stopped(w, "unsupported")
GuestWrite(g, v) == GuestWriteValue(NewWriter, g, v, 0)

\* The message for a value that was refused: its first obstacle in depth-first order.
Children(g, o) == CASE o.kind = "typed" -> SelectSeq(o.parts, LAMBDA p : p # Empty)
                                           \o (IF o.link = 0 THEN <<>> ELSE g.heap[o.link].parts)
                    [] o.kind = "error" -> SubSeq(o.parts, 3, 4)
                    [] OTHER -> o.parts
RECURSIVE Obstacle(_, _, _), FirstObstacle(_, _, _)
FirstObstacle(g, values, path) ==
    IF values = <<>> THEN "none"
    ELSE With(Obstacle(g, Head(values), path), LAMBDA found :
              IF found # "none" THEN found ELSE FirstObstacle(g, Tail(values), path))
Obstacle(g, v, path) ==
    IF v.is # "ref" THEN "none"
    ELSE IF g.heap[v.at].kind \in {"closure", "cell"} THEN "unsupported value"
    ELSE IF g.heap[v.at].kind \notin Composites THEN "none"
    ELSE IF v.at \in Range(path) THEN "cycle"
    ELSE IF Len(path) >= MaxDepth THEN "none"
    ELSE FirstObstacle(g, Children(g, g.heap[v.at]), Append(path, v.at))
SerializationMessage(g, v) == Obstacle(g, v, <<>>)
\* The image of a result, or of the fatal Error that replaces one that cannot leave.
ResultImage(g, v) ==
    With(GuestWrite(g, v), LAMBDA w :
         IF w.problem = "" THEN w
         ELSE With(NewError(g, 1, "SerializationError", SerializationMessage(g, v), None, 0, <<>>),
                   LAMBDA e : GuestWrite(e, e.value)))
===============================================================================
