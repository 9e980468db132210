------------------------------ MODULE Bindings ------------------------------
(* Annotated bindings: the contract a type annotation stands for            *)
(* (crates/exs-compiler/src/codegen/types.rs), the schema a contract gets   *)
(* (.../codegen/wire_schema.rs) and how a value is decoded against it       *)
(* (crates/exs-core/src/wire.rs).                                           *)
(*                                                                          *)
(* An annotation is a sequence of members, each with the name of a type and *)
(* at most one annotation for the items of a List.  A type of the program   *)
(* has the annotations of its fields, an enum those of each variant's.      *)
EXTENDS Adoption

CONSTANT Traits \* by name: the built-in flags and the type ids that implement a trait

TypeFlags == {"None", "Unit", "Error", "Bool", "Int", "Float", "String", "Bytes", "List", "Object", "Fn"}
Contract(mask, types, item) == [mask |-> mask, types |-> types, item |-> item]
AnyContract == Contract(TypeFlags, <<>>, <<>>)
Merged(ids, more) == ids \o SelectSeq(more, LAMBDA id : id \notin Range(ids))
TypeNamed(name) == {id \in DOMAIN Types : Types[id].name = name}

\* The contract of a union, member by member; unknown names were rejected before.
RECURSIVE Resolve(_), ResolveMembers(_, _), MergeContract(_, _)
MergeContract(target, source) ==
    Contract(target.mask \cup source.mask, Merged(target.types, source.types),
             IF target.item # <<>> /\ source.item # <<>>
             THEN <<MergeContract(target.item[1], source.item[1])>>
             ELSE target.item \o source.item)
WithItem(contract, item) ==
    [contract EXCEPT !.item = IF @ = <<>> THEN <<item>> ELSE <<MergeContract(@[1], item)>>]
MemberOf(contract, name) ==
    CASE name = "Any" -> [contract EXCEPT !.mask = TypeFlags]
      [] name \in TypeFlags -> [contract EXCEPT !.mask = @ \cup {name}]
      [] TypeNamed(name) # {} -> [contract EXCEPT !.types = Merged(@, <<CHOOSE id \in TypeNamed(name) : TRUE>>)]
      [] OTHER -> [contract EXCEPT !.mask = @ \cup Traits[name].mask, !.types = Merged(@, Traits[name].types)]
ResolveMembers(contract, members) ==
    IF members = <<>> THEN contract
    ELSE ResolveMembers(MemberOf(IF Head(members).name # "List" THEN contract
                                 ELSE WithItem(contract, IF Head(members).item = <<>> THEN AnyContract
                                                         ELSE Resolve(Head(members).item[1])),
                                 Head(members).name), Tail(members))
Resolve(annotation) ==
    IF annotation = <<>> THEN AnyContract ELSE ResolveMembers(Contract({}, <<>>, <<>>), annotation)

\* Bindings of built-in types alone only test the flags of the value.
NeedsDecode(contract) == contract.item # <<>> \/ contract.types # <<>>
ObjectsOf(contract) == SelectSeq(contract.types, LAMBDA id : id \in ObjectTypes)
FirstObject(contract) == IF ObjectsOf(contract) = <<>> THEN {} ELSE {ObjectsOf(contract)[1]}
EnumsOf(contract) == SelectSeq(contract.types, LAMBDA id : id \in EnumTypes)
\* A contract has a schema unless a type it expands contains itself.
RECURSIVE HasSchema(_, _), HaveSchemas(_, _)
HaveSchemas(annotations, path) == \A i \in DOMAIN annotations : HasSchema(Resolve(annotations[i]), path)
HasSchema(contract, path) ==
    /\ contract.item # <<>> => HasSchema(contract.item[1], path)
    /\ \A id \in FirstObject(contract) :
           id \notin path /\ HaveSchemas(Types[id].annotations, path \cup {id})
    /\ \A id \in Range(EnumsOf(contract)) :
           /\ id \notin path
           /\ \A i \in DOMAIN Types[id].variants :
                  HaveSchemas(Types[id].variants[i].annotations, path \cup {id})

\* --- Decoding -------------------------------------------------------------------------------
Position == 3 \* where the program runs, as its Errors report it
Frames == <<<<1, 3>>>>
FlagOf(g, v) ==
    CASE v.is = "ref" ->
           (CASE g.heap[v.at].kind = "int" -> "Int" [] g.heap[v.at].kind = "float" -> "Float"
              [] g.heap[v.at].kind = "string" -> "String" [] g.heap[v.at].kind = "bytes" -> "Bytes"
              [] g.heap[v.at].kind = "list" -> "List" [] g.heap[v.at].kind = "error" -> "Error"
              [] g.heap[v.at].kind \in {"object", "typed", "enum"} -> "Object" [] OTHER -> "Fn")
      [] v.is = "none" -> "None" [] v.is = "unit" -> "Unit" [] v.is = "bool" -> "Bool" [] OTHER -> "Int"
IsError(g, v) == IsA(g, v, "error")
Mismatch(g, v) == NewError(g, 0, "WireDecodeError", "type", v, Position, Frames)

\* The value under a key; an enum has none, a removed field is none.
FieldValues(g, o, key) ==
    CASE o.kind = "object" -> {o.parts[i] : i \in {j \in DOMAIN o.texts : o.texts[j] = key}}
      [] o.kind = "typed" ->
           ({o.parts[i] : i \in {j \in DOMAIN o.parts : Types[o.type].fields[j] = key}} \ {Empty})
           \cup (IF o.link = 0 THEN {}
                 ELSE {g.heap[o.link].parts[i] : i \in {j \in DOMAIN g.heap[o.link].texts :
                                                           g.heap[o.link].texts[j] = key}})
      [] OTHER -> {}
HasField(g, o, key) == FieldValues(g, o, key) # {}
FieldOf(g, o, key) == CHOOSE v \in FieldValues(g, o, key) : TRUE
\* The enum alternatives that have a variant of some name.
WithVariant(contract, name) == SelectSeq(EnumsOf(contract), LAMBDA id : Occurs(Types[id].fields, name))
\* The List of an enum's positional payload.
Positional(g, o) ==
    IF HasField(g, o, "$values") /\ IsA(g, FieldOf(g, o, "$values"), "list")
    THEN g.heap[FieldOf(g, o, "$values").at].parts ELSE <<>>

RECURSIVE Decode(_, _, _, _), DecodeInto(_, _, _, _, _, _)
\* Mutant: a rejected part is kept.
DecodeAnyInto(g, at, index, values, contracts, depth) ==
    IF values = <<>> THEN [g EXCEPT !.value = Ref(at)]
    ELSE With(Decode(g, Head(values), Head(contracts), depth + 1), LAMBDA a :
              IF a.problem # "" THEN a
              ELSE DecodeInto([a EXCEPT !.heap[at].parts[index] = a.value], at, index + 1, Tail(values),
                              Tail(contracts), depth))
\* Decodes values into the parts of the rooted object `at`; the first Error ends it.
DecodeInto(g, at, index, values, contracts, depth) ==
    IF values = <<>> THEN [g EXCEPT !.value = Ref(at)]
    ELSE With(Decode(g, Head(values), Head(contracts), depth + 1), LAMBDA a :
              IF a.problem # "" \/ IsError(a, a.value) THEN a
              ELSE DecodeInto([a EXCEPT !.heap[at].parts[index] = a.value], at, index + 1, Tail(values),
                              Tail(contracts), depth))
DecodeParts(g, values, contracts, depth) ==
    With(DecodeInto(PushRoot(g, g.value), g.value.at, 1, values, contracts, depth), LAMBDA a :
         PopRoots(a, Len(g.roots)))
DecodeList(g, items, contract, depth) ==
    DecodeParts(Allocate(g, Object("list", <<>>, Filled(Empty, Len(items)))), items,
                Filled(contract, Len(items)), depth)
Resolved(annotations) == <<>> \o [i \in DOMAIN annotations |-> Resolve(annotations[i])]
FieldSource(g, o, positional, name, i) ==
    IF HasField(g, o, name) THEN FieldOf(g, o, name)
    ELSE IF i \in DOMAIN positional THEN positional[i] ELSE None
FieldSources(g, o, positional, names) ==
    <<>> \o [i \in DOMAIN names |-> FieldSource(g, o, positional, names[i], i)]
DecodeVariant(g, v, id, index, depth) ==
    With(Types[id].variants[index], LAMBDA variant :
         DecodeParts(Allocate(g, EnumObject(id, index, Filled(Empty, Len(variant.names)))),
                     FieldSources(g, g.heap[v.at], Positional(g, g.heap[v.at]), variant.names),
                     Resolved(variant.annotations), depth))
DecodeObject(g, v, id, depth) ==
    IF g.heap[v.at].kind = "typed" /\ g.heap[v.at].type = id THEN [g EXCEPT !.value = v]
    ELSE DecodeParts(Allocate(g, TypedObject(id, Filled(Empty, Len(Types[id].fields)))),
                     FieldSources(g, g.heap[v.at], <<>>, Types[id].fields),
                     Resolved(Types[id].annotations), depth)
DecodeTagged(g, v, contract, name, depth) ==
    With(WithVariant(contract, name)[1], LAMBDA id : DecodeVariant(g, v, id, IndexOf(Types[id].fields, name), depth))
\* A host enum never passes as a declared one.
IsEnumOf(o, contract) ==
    o.kind = "enum" /\ o.variant # HostVariant /\ o.type \in Range(EnumsOf(contract))
DecodeFlags(g, v, contract) == IF FlagOf(g, v) \in contract.mask THEN [g EXCEPT !.value = v] ELSE Mismatch(g, v)
DecodeAsObject(g, v, contract, depth) ==
    With(g.heap[v.at], LAMBDA o :
    CASE IsEnumOf(o, contract) -> [g EXCEPT !.value = v]
      [] HasField(g, o, "$variant") /\ ~IsA(g, FieldOf(g, o, "$variant"), "string") ->
           NewError(g, 0, "WireDecodeError", "tag", v, Position, Frames)
      [] HasField(g, o, "$variant") /\ IsA(g, FieldOf(g, o, "$variant"), "string")
         /\ WithVariant(contract, TextAt(g, FieldOf(g, o, "$variant"))) # <<>> ->
           DecodeTagged(g, v, contract, TextAt(g, FieldOf(g, o, "$variant")), depth)
      [] OTHER -> IF ObjectsOf(contract) # <<>> THEN DecodeObject(g, v, ObjectsOf(contract)[1], depth)
                  ELSE DecodeFlags(g, v, contract))
Decode(g, v, contract, depth) ==
    IF depth >= MaxDepth THEN Stopped(g, "nesting")
    ELSE IF IsError(g, v) THEN [g EXCEPT !.value = v]
    ELSE IF contract.item # <<>> /\ IsA(g, v, "list")
    THEN DecodeList(g, g.heap[v.at].parts, contract.item[1], depth)
    ELSE IF FlagOf(g, v) = "Object" THEN DecodeAsObject(g, v, contract, depth)
    ELSE DecodeFlags(g, v, contract)
\* The value an annotated binding gets; an Error returns from the function.
CheckBinding(g, v, contract) ==
    IF NeedsDecode(contract) THEN Decode(g, v, contract, 0)
    ELSE IF IsError(g, v) THEN [g EXCEPT !.value = v]
    ELSE DecodeFlags(g, v, contract)
===============================================================================
