------------------------------ MODULE ExsValues ------------------------------
(* The values that cross the boundary between a module and its runner      *)
(* (crates/exs-abi/src/value.rs): trees without references, and the limits *)
(* a runner sets for them.                                                 *)
(*                                                                         *)
(* Every value is one record.  `number` is the payload of a Bool, an Int   *)
(* or a Float, and 1 for a fatal Error.  `texts` are the text of a String  *)
(* or Bytes, the keys of an Object, the identity and field names of a      *)
(* Typed value, the identity and variant of an Enum, and the kind and      *)
(* message of an Error.  `parts` are the values inside; an Error has its   *)
(* data and, if it has one, its cause.  `origin` is one more than the      *)
(* source position of an Error, 0 for none.                                *)
EXTENDS Integers, Sequences, SequencesExt

CONSTANTS ByteLength(_), \* bytes of a text in UTF-8
          CharCount(_)   \* characters of a text

Tree(tag, number, texts, parts) ==
    [tag |-> tag, number |-> number, texts |-> texts, parts |-> parts, origin |-> 0, trace |-> <<>>]
NoneTree == Tree("none", 0, <<>>, <<>>)
UnitTree == Tree("unit", 0, <<>>, <<>>)
BoolTree(n) == Tree("bool", n, <<>>, <<>>)
IntTree(n) == Tree("int", n, <<>>, <<>>)
FloatTree(n) == Tree("float", n, <<>>, <<>>)
StringTree(t) == Tree("string", 0, <<t>>, <<>>)
BytesTree(t) == Tree("bytes", 0, <<t>>, <<>>)
ListTree(parts) == Tree("list", 0, <<>>, parts)
ObjectTree(keys, parts) == Tree("object", 0, keys, parts)
TypedTree(identity, names, parts) == Tree("typed", 0, <<identity>> \o names, parts)
EnumTree(identity, variant, parts) == Tree("enum", 0, <<identity, variant>>, parts)
ErrorTree(fatal, kind, message, origin, trace, parts) ==
    [Tree("error", fatal, <<kind, message>>, parts) EXCEPT !.origin = origin, !.trace = trace]

Composites == {"list", "object", "typed", "enum", "error"}
With(v, F(_)) == F(v)

\* --- The size the limits measure ------------------------------------------------------------
\* Bytes of a head with an argument in the compact encoding; arguments stay below 2^32.
HeadLength(n) == CASE n < 24 -> 1 [] 24 <= n /\ n < 256 -> 2 [] 256 <= n /\ n < 65536 -> 3
                   [] OTHER -> 5
IntLength(n) == HeadLength(IF n < 0 THEN -1 - n ELSE n)
TextSize(t) == HeadLength(ByteLength(t)) + ByteLength(t)
ErrorTag == 60001
EnumTag == 60005
TypedTag == 60006
\* A composite with some entries, without what it holds; an Error has a severity and seven keys.
HeadSize(tag, entries) ==
    HeadLength(entries) + CASE tag = "typed" -> HeadLength(TypedTag) + 1
                            [] tag = "enum" -> HeadLength(EnumTag) + 1
                            [] tag = "error" -> HeadLength(ErrorTag) + 1 + 7 + 1
                            [] OTHER -> 0
OriginSize(origin) == IF origin = 0 THEN 1 ELSE HeadLength(origin - 1)
FrameSize(f) == 1 + HeadLength(f[1]) + HeadLength(f[2])
EntryCount(v) == IF v.tag = "error" THEN Len(v.trace) ELSE Len(v.parts)

\* --- What the limits say of a value ---------------------------------------------------------
RECURSIVE SumOf(_), Nesting(_), WithinEntries(_, _), PayloadSize(_), IsTree(_)
SumOf(s) == IF s = <<>> THEN 0 ELSE Head(s) + SumOf(Tail(s))
Deepest(depths) == IF depths = {} THEN 0 ELSE CHOOSE d \in depths : \A e \in depths : e <= d
Nesting(v) == 1 + Deepest({Nesting(v.parts[i]) : i \in DOMAIN v.parts})
WithinEntries(v, entries) ==
    /\ v.tag \in Composites => EntryCount(v) <= entries
    /\ \A i \in DOMAIN v.parts : WithinEntries(v.parts[i], entries)
PayloadSize(v) ==
    CASE v.tag \in {"none", "unit", "bool"} -> 1
      [] v.tag = "int" -> IntLength(v.number)
      [] v.tag = "float" -> 9
      [] v.tag \in {"string", "bytes"} -> TextSize(v.texts[1])
      [] OTHER -> HeadSize(v.tag, EntryCount(v))
                  + SumOf([i \in DOMAIN v.texts |-> TextSize(v.texts[i])])
                  + SumOf([i \in DOMAIN v.parts |-> PayloadSize(v.parts[i])])
                  + (IF v.tag # "error" THEN 0
                     ELSE OriginSize(v.origin) + SumOf([i \in DOMAIN v.trace |-> FrameSize(v.trace[i])])
                          + (IF Len(v.parts) = 1 THEN 1 ELSE 0))
WithinLimits(v, limits) ==
    /\ Nesting(v) <= limits.nesting
    /\ WithinEntries(v, limits.entries)
    /\ PayloadSize(v) <= limits.payload

\* A value as its type in Rust can hold it.
IsTree(v) ==
    /\ v.tag \in Composites \cup {"none", "unit", "bool", "int", "float", "string", "bytes"}
    /\ CASE v.tag = "object" -> Len(v.texts) = Len(v.parts)
         [] v.tag = "typed" -> Len(v.texts) = Len(v.parts) + 1
         [] v.tag = "enum" -> Len(v.texts) = 2
         [] v.tag = "error" -> Len(v.texts) = 2 /\ Len(v.parts) \in 1..2
         [] OTHER -> TRUE
    /\ \A i \in DOMAIN v.parts : IsTree(v.parts[i])

\* A None cause is no cause once the value was read.
RECURSIVE AsRead(_)
AsRead(v) ==
    LET parts == [i \in DOMAIN v.parts |-> AsRead(v.parts[i])]
    IN IF v.tag = "error" /\ Len(parts) = 2 /\ parts[2] = NoneTree
       THEN [v EXCEPT !.parts = <<parts[1]>>] ELSE [v EXCEPT !.parts = parts]
===============================================================================
