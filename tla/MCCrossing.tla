----------------------------- MODULE MCCrossing -----------------------------
(* Values that cross, by small keys: arguments wrapped in one or two layers, *)
(* arguments bound to annotations, values a program has built, images of     *)
(* unknown origin and values of Rust types.                                  *)
EXTENDS Crossing

\* "wide" is one character of three bytes, "long" has 30 characters.
MCByteLength(t) == CASE t = "long" -> 30 [] t = "wide" -> 3 [] OTHER -> Len(t)
MCCharCount(t) == CASE t = "long" -> 30 [] t = "wide" -> 1 [] OTHER -> Len(t)
MCSmallInts == (0 - 100) .. 100
MCDecimal(n) == ToString(n)
Member(name) == [name |-> name, item |-> <<>>]
ListOf(annotation) == [name |-> "List", item |-> <<annotation>>]
ObjectType(name, fields, annotations, custom) ==
    [isEnum |-> FALSE, name |-> name, identity |-> "", boundary |-> name, fields |-> fields,
     custom |-> custom, annotations |-> annotations, variants |-> <<>>]
Payload(name, names, annotations) == [name |-> name, names |-> names, annotations |-> annotations]
EnumEntry(name, variants) ==
    [isEnum |-> TRUE, name |-> name, identity |-> name, boundary |-> "",
     fields |-> [i \in DOMAIN variants |-> variants[i].name], custom |-> FALSE, annotations |-> <<>>,
     variants |-> variants]
MCTypes == <<ObjectType("Item", <<"id", "tag">>, <<<<Member("Int")>>, <<Member("String"), Member("None")>>>>, FALSE),
             EnumEntry("Color", <<Payload("Red", <<>>, <<>>), Payload("Mix", <<"hue", "of">>,
                                  <<<<Member("Int")>>, <<ListOf(<<Member("Item")>>), Member("None")>>>>)>>),
             ObjectType("Money", <<"id">>, <<<<>>>>, TRUE)>>
MCTraits == ("Sized" :> [mask |-> {"String"}, types |-> <<2, 1>>])

\* --- Trees ----------------------------------------------------------------------------------
Leaves == <<IntTree(5), StringTree("a"), NoneTree, UnitTree, BoolTree(1), IntTree(70000), IntTree(0 - 300), FloatTree(2),
            StringTree("long"), StringTree("wide"), BytesTree("b"), EnumTree("Color", "Red", <<>>),
            EnumTree("Color", "Lost", <<>>), ListTree(<<>>), ObjectTree(<<>>, <<>>)>>
A == StringTree("a")
Wraps == 0..23
Wrap(w, x) ==
    CASE w = 0 -> x
      [] w = 1 -> ListTree(<<x>>)
      [] w = 2 -> ListTree(<<A, x>>)
      [] w = 3 -> ObjectTree(<<"id">>, <<x>>)
      [] w = 4 -> ObjectTree(<<"id", "tag", "id">>, <<A, x, A>>)
      [] w = 5 -> TypedTree("Item", <<"id", "tag">>, <<x, A>>)
      [] w = 6 -> TypedTree("Item", <<"tag", "id", "new">>, <<A, x, A>>)
      [] w = 7 -> TypedTree("Item", <<"new", "id", "new", "id">>, <<x, A, x, NoneTree>>)
      [] w = 8 -> TypedTree("Item", <<"tag">>, <<x>>)
      [] w = 9 -> TypedTree("Other", <<"id", "tag">>, <<x, A>>)
      [] w = 10 -> TypedTree("Other", <<"id", "id">>, <<A, x>>)
      [] w = 11 -> EnumTree("Color", "Mix", <<x, A>>)
      [] w = 12 -> EnumTree("Color", "Lost", <<x>>)
      [] w = 13 -> EnumTree("Shape", "Red", <<A, x>>)
      [] w = 14 -> ErrorTree(0, "Kind", "a", 0, <<>>, <<x>>)
      [] w = 15 -> ErrorTree(1, "Kind", "a", 1, <<<<30, 400>>>>, <<x, NoneTree>>)
      [] w = 16 -> ErrorTree(0, "Kind", "a", 70, <<<<1, 2>>, <<3, 0>>>>, <<x, BoolTree(0)>>)
      [] w = 24 -> ErrorTree(0, "Kind", "a", 0, <<>>, <<NoneTree, x>>)
      [] w = 17 -> TypedTree("Money", <<"id">>, <<x>>)
      [] w = 18 -> ObjectTree(<<"$variant">>, <<x>>)
      [] w = 19 -> ObjectTree(<<"$variant", "hue">>, <<StringTree("Mix"), x>>)
      [] w = 20 -> ObjectTree(<<"of", "$variant", "$values">>, <<x, StringTree("Mix"), ListTree(<<IntTree(5), A>>)>>)
      [] w = 21 -> ObjectTree(<<"$variant", "$values", "id">>, <<StringTree("Mix"), ListTree(<<x>>), A>>)
      [] w = 22 -> ObjectTree(<<"$variant", "id">>, <<StringTree("Red"), x>>)
      [] OTHER -> ObjectTree(<<"tag", "id", "new">>, <<A, x, A>>)
TreeOf(leaf, inner, outer) == Wrap(outer, Wrap(inner, Leaves[leaf]))
Annotations == <<<<>>, <<Member("Int"), Member("None")>>, <<Member("List")>>, <<ListOf(<<Member("Int")>>)>>,
                 <<ListOf(<<Member("Item"), Member("Color")>>), Member("Error")>>, <<Member("Item")>>, <<Member("Color")>>,
                 <<Member("Object"), Member("String")>>, <<Member("Color"), Member("Object")>>,
                 <<Member("Color"), Member("Item"), Member("None")>>, <<ListOf(<<ListOf(<<Member("Color")>>)>>)>>,
                 <<Member("Sized")>>, <<ListOf(<<Member("Int")>>), ListOf(<<Member("String"), Member("Item")>>)>>,
                 <<Member("Money")>>, <<Member("Any")>>>>

\* --- Values of a program ----------------------------------------------------------------------
Entry(fixed, variadic) == [fixed |-> fixed, variadic |-> variadic]
Blank == [start |-> "arguments", trees |-> <<>>, image |-> NoImage, guest |-> NewGuest, result |-> None,
          limits |-> NoLimits, entry |-> Entry(1, FALSE), annotation |-> <<>>, type |-> Scalar("unit"),
          value |-> RustValue(0, "", <<>>), echoed |-> TRUE]
\* Objects 1 to 7 serve the ones around them; `inner` and `outer` hold one part each.
Served == <<TextObject("string", "a"), NumberObject("int", 70000), Object("closure", <<>>, <<>>),
            Object("object", <<"new">>, <<Ref(1)>>), [Object("trace", <<>>, <<>>) EXCEPT !.trace = <<<<1, 2>>>>],
            TextObject("string", "Lost"), [Object("error", <<>>, <<Ref(1), Ref(6), None, None>>) EXCEPT !.origin = 4]>>
Built(kind, v) ==
    CASE kind = 1 -> Object("list", <<>>, <<v, IntValue(5)>>)
      [] kind = 2 -> Object("object", <<"tag", "id">>, <<Ref(1), v>>)
      [] kind = 3 -> [Object("object", <<"id">>, <<v>>) EXCEPT !.link = 6]
      [] kind = 4 -> TypedObject(1, <<v, Ref(1)>>)
      [] kind = 5 -> [TypedObject(1, <<v, None>>) EXCEPT !.order = <<2, 1>>, !.link = 4]
      [] kind = 6 -> [TypedObject(1, <<Empty, v>>) EXCEPT !.link = 4]
      [] kind = 7 -> EnumObject(2, 2, <<v, None>>)
      [] kind = 8 -> EnumObject(ForeignType, HostVariant, <<v, Ref(1), Ref(6)>>)
      [] kind = 9 -> EnumObject(2, HostVariant, <<None, v, Ref(6), Ref(1)>>)
      [] kind = 10 -> Object("error", <<>>, <<Ref(1), Ref(6), v, None>>)
      [] kind = 11 -> [Object("error", <<>>, <<Ref(1), Ref(6), Unit, v>>)
                       EXCEPT !.number = 1, !.origin = 3, !.link = 5]
      [] OTHER -> TypedObject(3, <<v>>)
\* The leaf of a value: a shared one, a removed one, or a reference back to what holds it.
Leaf(n) == CASE n = 1 -> None [] n = 2 -> Ref(1) [] n = 3 -> Ref(2) [] n = 4 -> Ref(3) [] n = 5 -> Ref(7)
             [] n = 6 -> Ref(8) [] n = 7 -> Ref(9) [] OTHER -> Bool(1)
GuestOf(leaf, inner, outer) ==
    [NewGuest EXCEPT !.heap = Served \o <<Built(inner, Leaf(leaf)), Built(outer, Ref(8)), Object("list", <<>>, <<Ref(9)>>)>>,
                     !.next = 11]

\* --- Images of unknown origin -------------------------------------------------------------------
\* Records at 8 (the root), 200 and 400; their offsets may name no record or a record twice.
Offsets == <<200, 400, 8, 12, 4000>>
Unknown(kind, a, b) ==
    CASE kind = 1 -> WordsRecord("list", 2, <<a, b>>)
      [] kind = 2 -> WordsRecord("object", 2, <<400, a, 400, b>>)
      [] kind = 3 -> WordsRecord("object", 1, <<a, b>>)
      [] kind = 4 -> WordsRecord("typed", 1, <<a, 400, b>>)
      [] kind = 5 -> WordsRecord("enum", 1, <<400, a, b>>)
      [] kind = 6 -> WordsRecord("list", 3, <<a, b>>)
      [] kind = 7 -> ErrorRecord(0, <<400, 400, a, 3, b, 1>>, <<<<2, 3>>>>)
      [] kind = 8 -> ErrorRecord(2, <<400, a, b, 0, 0, 0>>, <<>>)
      [] kind = 9 -> ErrorRecord(1, <<400, a, b, 1, 0, 2>>, <<<<2, 3>>>>)
      [] kind = 10 -> ErrorRecord(1, <<400, a, b>>, <<>>)
      [] kind = 11 -> Record("bool", 2)
      [] kind = 12 -> StringRecord("bad")
      [] kind = 13 -> NumberRecord("float", 2)
      [] kind = 14 -> NumberRecord("int", 0 - 70000)
      [] kind = 15 -> BytesRecord("bad")
      [] kind = 16 -> Record("unknown", 0)
      [] OTHER -> Record("bool", 1)
UnknownImage(kind, a, b, leaf) ==
    [length |-> 600, root |-> IF leaf = 1 THEN a ELSE 8,
     records |-> (8 :> Unknown(kind, a, b)) @@ (200 :> Unknown(leaf, 400, 400)) @@ (400 :> StringRecord("a"))]

\* --- Rust types -------------------------------------------------------------------------------------
N(n) == RustValue(n, "", <<>>)
T(t) == RustValue(0, t, <<>>)
P(parts) == RustValue(0, "", parts)
V(variant, parts) == [P(parts) EXCEPT !.variant = variant]
Byte == IntegerType(0, 255)
Big == IntegerType(0, 1000000)
OptionOf(t) == RustType("option", <<>>, <<t>>)
ItemStruct == RustType("struct", <<"id", "tag">>, <<Byte, OptionOf(Scalar("string"))>>)
Wide == RustType("struct", <<"id", "more">>, <<OptionOf(Byte), RustType("tuple", <<>>, <<Scalar("bool"), Scalar("unit")>>)>>)
ColorType == EnumType(<<Variant("Red", "unit", <<>>, <<>>),
                        Variant("Mix", "tuple", <<>>, <<Byte, OptionOf(RustType("seq", <<>>, <<ItemStruct>>))>>)>>)
Shapes == EnumType(<<Variant("Dot", "unit", <<>>, <<>>), Variant("Box", "newtype", <<>>, <<ItemStruct>>),
                     Variant("Pair", "tuple", <<>>, <<Byte, ColorType>>),
                     Variant("Named", "struct", <<"of", "id">>, <<OptionOf(Byte), Scalar("char")>>)>>)
AnItem == P(<<N(7), P(<<T("wide")>>)>>)
Another == P(<<N(255), P(<<>>)>>)
\* The type, the value and the annotations it fits.
RustCases ==
    <<<<Byte, N(5), {1, 2}>>, <<Big, N(70001), {1, 2}>>, <<Scalar("bool"), N(1), {1}>>, <<Scalar("float"), N(2), {1}>>,
      <<Scalar("char"), T("wide"), {1, 8}>>, <<Scalar("string"), T("long"), {1, 8, 12}>>, <<Scalar("bytes"), T("b"), {1}>>,
      <<Scalar("unit"), N(0), {1}>>, <<OptionOf(Byte), P(<<>>), {1, 2}>>, <<OptionOf(Byte), P(<<N(9)>>), {1, 2}>>,
      <<RustType("newtype", <<>>, <<Byte>>), P(<<N(9)>>), {1, 2}>>,
      <<RustType("seq", <<>>, <<Byte>>), P(<<N(1), N(2)>>), {1, 3, 4}>>,
      <<RustType("seq", <<>>, <<ItemStruct>>), P(<<AnItem, Another>>), {1, 3, 5, 13}>>,
      <<RustType("tuple", <<>>, <<Scalar("char"), ItemStruct>>), P(<<T("a"), AnItem>>), {1, 13}>>,
      <<RustType("map", <<>>, <<Byte>>), [P(<<N(1), N(2)>>) EXCEPT !.keys = <<"id", "tag">>], {1, 8, 9}>>,
      <<ItemStruct, AnItem, {1, 6, 10, 12}>>, <<ItemStruct, Another, {1, 6, 8, 9, 10, 12}>>,
      <<Wide, P(<<P(<<N(3)>>), P(<<N(0), N(0)>>)>>), {1, 9}>>,
      <<ColorType, V(1, <<>>), {1, 7, 8, 9, 10, 12}>>,
      <<ColorType, V(2, <<N(8), P(<<P(<<AnItem, Another>>)>>)>>), {1, 7, 9, 10, 12}>>,
      <<ColorType, V(2, <<N(8), P(<<>>)>>), {1, 7, 9, 10}>>,
      <<RustType("seq", <<>>, <<ColorType>>), P(<<V(1, <<>>), V(2, <<N(8), P(<<>>)>>)>>), {1, 3, 5}>>,
      <<Shapes, V(1, <<>>), {1, 8, 9}>>, <<Shapes, V(2, <<AnItem>>), {1, 8, 9}>>,
      <<Shapes, V(3, <<N(1), V(1, <<>>)>>), {1, 8, 9}>>, <<Shapes, V(4, <<P(<<N(1)>>), T("wide")>>), {1, 8, 9}>>,
      <<Big, N(900000), {1}>>, <<RustType("seq", <<>>, <<Big>>), P(<<N(1), N(900000)>>), {1}>>>>

\* --- Cases ------------------------------------------------------------------------------------------
LimitsFor(tree, n) ==
    CASE n = 1 -> [NoLimits EXCEPT !.payload = PayloadSize(tree)]
      [] n = 2 -> [NoLimits EXCEPT !.payload = PayloadSize(tree) - 1]
      [] n = 3 -> [NoLimits EXCEPT !.nesting = Nesting(tree)]
      [] n = 4 -> [NoLimits EXCEPT !.nesting = Nesting(tree) - 1]
      [] n = 5 -> [NoLimits EXCEPT !.entries = 2]
      [] OTHER -> [NoLimits EXCEPT !.entries = 1]
Entries2 == <<Entry(1, FALSE), Entry(2, FALSE), Entry(3, FALSE), Entry(1, TRUE), Entry(2, TRUE)>>
ArgumentKeys == ({1} \X (DOMAIN Leaves) \X Wraps \X {0}) \cup ({1} \X {1, 6, 9} \X (1..17) \X (1..17))
DeepKeys == {2} \X {1} \X (1..17) \X {1, 3, 5, 9, 11} \X {1, 9, 15}
LimitKeys == {3} \X {6, 9} \X {0, 3} \X (1..17) \X (1..6)
EntryKeys == {4} \X {6} \X {0, 3, 4, 5, 10, 15} \X {0, 1, 2} \X (DOMAIN Entries2)
AnnotationKeys == {5} \X {1, 2, 12} \X {0, 1, 3, 5, 9, 11, 14, 18, 19, 20, 21, 22, 23} \X {0, 1, 20, 23} \X (2..15)
ValueKeys == ({6} \X (1..8) \X (1..12) \X (1..12) \X {9}) \cup ({6} \X {1, 5} \X (1..12) \X {1, 2, 5, 7} \X {10})
ValueLimitKeys == {7} \X {2, 4} \X {1, 8} \X (1..12) \X (1..6)
ImageKeys == ({8} \X (1..10) \X (DOMAIN Offsets) \X (DOMAIN Offsets) \X {1, 12, 13} \X (5..6)) \cup ({8} \X (1..17) \X {1, 3} \X {1} \X (1..17) \X {7})
RustKeys == {<<9, i, a>> : i \in DOMAIN RustCases, a \in DOMAIN Annotations}
MCCaseKeys == ArgumentKeys \cup DeepKeys \cup LimitKeys \cup EntryKeys \cup AnnotationKeys \cup ValueKeys
              \cup ValueLimitKeys \cup ImageKeys \cup {k \in RustKeys : k[3] \in RustCases[k[2]][3]}
\* Errors with a cause, which the other cases only have where it is no object or is not adopted.
MCCauseKeys == {1} \X (DOMAIN Leaves) \X (0..1) \X {24}
ArgumentCase(arguments, annotation, entry, limits) ==
    [Blank EXCEPT !.trees = arguments, !.annotation = annotation, !.entry = entry, !.limits = limits]
ImageLimits(n) == CASE n = 5 -> [NoLimits EXCEPT !.nesting = 4] [] n = 6 -> [nesting |-> 4, entries |-> 1, payload |-> 100]
                    [] OTHER -> [nesting |-> 4, entries |-> 10, payload |-> 12]
MCCaseOf(k) ==
    CASE k[1] = 1 -> [Blank EXCEPT !.trees = <<TreeOf(k[2], k[3], k[4])>>]
      [] k[1] = 2 -> [Blank EXCEPT !.trees = <<Wrap(k[5], TreeOf(k[2], k[3], k[4]))>>]
      [] k[1] = 3 -> ArgumentCase(<<TreeOf(k[2], k[3], k[4])>>, <<>>, Entry(1, FALSE),
                                  LimitsFor(ListTree(<<TreeOf(k[2], k[3], k[4])>>), k[5]))
      [] k[1] = 4 -> ArgumentCase(SubSeq(<<TreeOf(k[2], k[3], 0), Wrap(k[3], A), IntTree(5)>>, 1, 3 - k[4]), <<>>,
                                  Entries2[k[5]], NoLimits)
      [] k[1] = 5 -> ArgumentCase(<<TreeOf(k[2], k[3], k[4])>>, Annotations[k[5]], Entry(1, FALSE), NoLimits)
      [] k[1] = 6 -> [Blank EXCEPT !.start = "returned", !.guest = GuestOf(k[2], k[3], k[4]), !.result = Ref(k[5]),
                                   !.echoed = 11 \notin {k[3], k[4]}]
      [] k[1] = 7 -> With(GuestOf(k[2], k[3], k[4]), LAMBDA g :
                          [Blank EXCEPT !.start = "returned", !.guest = g, !.result = Ref(9), !.echoed = k[4] # 11,
                                        !.limits = LimitsFor(HostRead(FinishedImage(ResultImage([g EXCEPT !.roots = <<Ref(9)>>], Ref(9))), NoLimits).value, k[5])])
      [] k[1] = 8 -> [Blank EXCEPT !.start = "unknown", !.limits = ImageLimits(k[6]),
                                   !.image = UnknownImage(k[2], Offsets[k[3]], Offsets[k[4]], k[5])]
      [] OTHER -> [Blank EXCEPT !.start = "rust", !.type = RustCases[k[2]][1], !.value = RustCases[k[2]][2],
                                !.annotation = Annotations[k[3]]]
===============================================================================
