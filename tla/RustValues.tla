----------------------------- MODULE RustValues -----------------------------
(* The values of a runner or guest written in Rust and the trees they cross *)
(* as (crates/exs-abi/src/serde).  A Rust type is a record of its kind, the *)
(* range of an integer, the names of a struct's fields, the types inside    *)
(* and the variants of an enum; a Rust value has a number, a text, parts,   *)
(* the keys of a map and the index of a variant.  Which methods a derived   *)
(* implementation calls, and what it makes of the answers, is Serde's.      *)
EXTENDS ExsValues

CONSTANT MaxInt, \* the largest Int; a Rust integer may be larger
         Decimal(_) \* the text of a small number

RustType(kind, names, types) ==
    [kind |-> kind, low |-> 0, high |-> 0, names |-> names, types |-> types, variants |-> <<>>]
Scalar(kind) == RustType(kind, <<>>, <<>>)
IntegerType(low, high) == [Scalar("int") EXCEPT !.low = low, !.high = high]
EnumType(variants) == [Scalar("enum") EXCEPT !.variants = variants]
Variant(name, shape, names, types) == [name |-> name, shape |-> shape, names |-> names, types |-> types]
RustValue(n, text, parts) == [n |-> n, text |-> text, parts |-> parts, keys |-> <<>>, variant |-> 0]

\* --- Serializing ----------------------------------------------------------------------------
Refused == Tree("refused", 0, <<>>, <<>>)
Tagged(name, keys, parts) == ObjectTree(<<"$variant">> \o keys, <<StringTree(name)>> \o parts)
RECURSIVE Serialize(_, _), SerializeAll(_, _)
SerializeAll(types, values) ==
    IF values = <<>> THEN <<>>
    ELSE <<Serialize(Head(types), Head(values))>> \o SerializeAll(Tail(types), Tail(values))
Repeated(t, n) == <<>> \o [i \in 1..n |-> t]
SerializeVariant(variant, v) ==
    With(SerializeAll(variant.types, v.parts), LAMBDA parts :
         CASE variant.shape = "unit" -> Tagged(variant.name, <<>>, <<>>)
           [] variant.shape = "newtype" -> Tagged(variant.name, <<"$value">>, parts)
           [] variant.shape = "tuple" -> Tagged(variant.name, <<"$values">>, <<ListTree(parts)>>)
           [] OTHER -> Tagged(variant.name, variant.names, parts))
Serialize(t, v) ==
    CASE t.kind = "bool" -> BoolTree(v.n)
      [] t.kind = "int" -> IF v.n > MaxInt THEN Refused ELSE IntTree(v.n)
      [] t.kind = "float" -> FloatTree(v.n)
      [] t.kind \in {"char", "string"} -> StringTree(v.text)
      [] t.kind = "bytes" -> BytesTree(v.text)
      [] t.kind = "unit" -> UnitTree
      [] t.kind = "option" -> IF v.parts = <<>> THEN NoneTree ELSE Serialize(t.types[1], v.parts[1])
      [] t.kind = "newtype" -> Serialize(t.types[1], v.parts[1])
      [] t.kind = "seq" -> ListTree(SerializeAll(Repeated(t.types[1], Len(v.parts)), v.parts))
      [] t.kind = "tuple" -> ListTree(SerializeAll(t.types, v.parts))
      [] t.kind = "map" -> ObjectTree(v.keys, SerializeAll(Repeated(t.types[1], Len(v.parts)), v.parts))
      [] t.kind = "struct" -> ObjectTree(t.names, SerializeAll(t.types, v.parts))
      [] OTHER -> SerializeVariant(t.variants[v.variant], v)

\* --- Deserializing --------------------------------------------------------------------------
Failed == [ok |-> FALSE, value |-> RustValue(0, "", <<>>)]
Read(v) == [ok |-> TRUE, value |-> v]
Numeral(n) == Read(RustValue(n, "", <<>>))
Texting(t) == Read(RustValue(0, t, <<>>))
RECURSIVE Deserialize(_, _), DeserializeAll(_, _, _), ReadFields(_, _, _, _, _)
DeserializeAll(types, trees, read) ==
    IF types = <<>> THEN Read(RustValue(0, "", read))
    ELSE IF trees = <<>> THEN Failed
    ELSE With(Deserialize(Head(types), Head(trees)), LAMBDA r :
              IF ~r.ok THEN Failed ELSE DeserializeAll(Tail(types), Tail(trees), Append(read, r.value)))
Positions(keys, name) == {i \in DOMAIN keys : keys[i] = name}
\* The fields of a struct by name: unknown keys are ignored, a missing Option is None.
ReadFields(names, types, keys, trees, read) ==
    IF names = <<>> THEN Read(RustValue(0, "", read))
    ELSE IF Positions(keys, Head(names)) = {} /\ Head(types).kind = "option" THEN
        ReadFields(Tail(names), Tail(types), keys, trees, Append(read, RustValue(0, "", <<>>)))
    ELSE IF \A i \in DOMAIN keys : Positions(keys, Head(names)) # {i} THEN Failed
    ELSE With(Deserialize(Head(types), trees[CHOOSE i \in DOMAIN keys : keys[i] = Head(names)]), LAMBDA r :
              IF ~r.ok THEN Failed
              ELSE ReadFields(Tail(names), Tail(types), keys, trees, Append(read, r.value)))
Entered(r, keys) == IF r.ok THEN [r EXCEPT !.value.keys = keys] ELSE Failed
InVariant(r, i) == IF r.ok THEN [r EXCEPT !.value.variant = i] ELSE Failed
\* The keys and values of an Object or of a nominal value, which reads like one.
KeysWithIdentity(tree) == tree.texts \* Mutant: the identity is a key
KeysOf(tree) == IF tree.tag = "typed" THEN Tail(tree.texts) ELSE tree.texts

\* The payload of a variant: the values of an Enum or the entries of a tagged Object.
FromValues(variant, trees) ==
    CASE variant.shape = "unit" -> IF trees = <<>> THEN Read(RustValue(0, "", <<>>)) ELSE Failed
      [] variant.shape = "newtype" -> IF Len(trees) # 1 THEN Failed ELSE DeserializeAll(variant.types, trees, <<>>)
      [] variant.shape = "tuple" -> DeserializeAll(variant.types, trees, <<>>)
      [] OTHER -> ReadFields(variant.names, variant.types, [i \in DOMAIN trees |-> Decimal(i - 1)], trees, <<>>)
Under(keys, trees, key) == {trees[i] : i \in Positions(keys, key)}
FirstUnder(keys, trees, key) == trees[CHOOSE i \in Positions(keys, key) : \A j \in Positions(keys, key) : i <= j]
FromEntries(variant, keys, trees) ==
    CASE variant.shape = "unit" -> IF keys = <<>> THEN Read(RustValue(0, "", <<>>)) ELSE Failed
      [] variant.shape = "newtype" ->
           IF Under(keys, trees, "$value") = {} THEN Failed
           ELSE DeserializeAll(variant.types, <<FirstUnder(keys, trees, "$value")>>, <<>>)
      [] variant.shape = "tuple" ->
           IF Under(keys, trees, "$values") = {} THEN Failed
           ELSE IF FirstUnder(keys, trees, "$values").tag # "list" THEN Failed
           ELSE DeserializeAll(variant.types, FirstUnder(keys, trees, "$values").parts, <<>>)
      [] OTHER -> ReadFields(variant.names, variant.types, keys, trees, <<>>)
Without(s, i) == SubSeq(s, 1, i - 1) \o SubSeq(s, i + 1, Len(s))
VariantIndex(t, name) ==
    LET found == {i \in DOMAIN t.variants : t.variants[i].name = name}
    IN IF found = {} THEN 0 ELSE CHOOSE i \in found : TRUE
Chosen(t, name, Payload(_)) ==
    With(VariantIndex(t, name), LAMBDA i : IF i = 0 THEN Failed ELSE InVariant(Payload(t.variants[i]), i))
DeserializeEnum(t, tree) ==
    CASE tree.tag = "enum" -> Chosen(t, tree.texts[2], LAMBDA variant : FromValues(variant, tree.parts))
      [] tree.tag = "object" /\ Positions(tree.texts, "$variant") # {} ->
           With(CHOOSE i \in Positions(tree.texts, "$variant") : \A j \in Positions(tree.texts, "$variant") : i <= j,
                LAMBDA i : IF tree.parts[i].tag # "string" THEN Failed
                           ELSE Chosen(t, tree.parts[i].texts[1], LAMBDA variant :
                                       FromEntries(variant, Without(tree.texts, i), Without(tree.parts, i))))
      [] OTHER -> Failed
DeserializeList(types, tree) == IF tree.tag # "list" THEN Failed ELSE DeserializeAll(types, tree.parts, <<>>)
Deserialize(t, tree) ==
    CASE t.kind = "bool" -> IF tree.tag = "bool" THEN Numeral(tree.number) ELSE Failed
      [] t.kind = "int" -> IF tree.tag = "int" /\ t.low <= tree.number /\ tree.number <= t.high
                           THEN Numeral(tree.number) ELSE Failed
      [] t.kind = "float" -> IF tree.tag \in {"float", "int"} THEN Numeral(tree.number) ELSE Failed
      [] t.kind = "char" -> IF tree.tag # "string" THEN Failed
                            ELSE IF CharCount(tree.texts[1]) = 1 THEN Texting(tree.texts[1]) ELSE Failed
      [] t.kind \in {"string", "bytes"} -> IF tree.tag = t.kind THEN Texting(tree.texts[1]) ELSE Failed
      [] t.kind = "unit" -> IF tree.tag \in {"unit", "none"} THEN Numeral(0) ELSE Failed
      [] t.kind = "option" -> IF tree.tag = "none" THEN Numeral(0) ELSE DeserializeAll(t.types, <<tree>>, <<>>)
      [] t.kind = "newtype" -> DeserializeAll(t.types, <<tree>>, <<>>)
      [] t.kind = "seq" -> IF tree.tag # "list" THEN Failed
                           ELSE DeserializeList(Repeated(t.types[1], Len(tree.parts)), tree)
      [] t.kind = "tuple" -> DeserializeList(t.types, tree)
      [] t.kind = "map" ->
           IF tree.tag \notin {"object", "typed"} THEN Failed
           ELSE Entered(DeserializeAll(Repeated(t.types[1], Len(tree.parts)), tree.parts, <<>>), KeysOf(tree))
      [] t.kind = "struct" -> IF tree.tag \notin {"object", "typed"} THEN Failed
                              ELSE ReadFields(t.names, t.types, KeysOf(tree), tree.parts, <<>>)
      [] OTHER -> DeserializeEnum(t, tree)
===============================================================================
