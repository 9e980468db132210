------------------------------ MODULE Adoption ------------------------------
(* How a module takes in the images of its arguments and of host responses  *)
(* (crates/exs-core/src/image.rs), and how it compares values               *)
(* (crates/exs-core/src/parts.rs).  A failure of any kind traps.            *)
EXTENDS GuestValues

CONSTANT NativeDepth \* NATIVE_DEPTH, the nesting the native comparison follows

\* --- Adopting one record --------------------------------------------------------------------
IsTextRecord(image, offset) ==
    IsRecord(image, offset) /\ image.records[offset].kind = "string"
HasWords(r, count) == Len(r.words) >= count

\* What one part of a composite does: an item of a List, the value of a slot, an entry of an
\* untyped Object, a field of a typed one or the identity an untyped one keeps.
Step(to, name, offset) == [to |-> to, name |-> name, offset |-> offset]
RECURSIVE ItemSteps(_, _, _), EntrySteps(_, _, _, _)
ItemSteps(to, words, index) ==
    IF words = <<>> THEN <<>>
    ELSE <<Step(to, index, Head(words))>> \o ItemSteps(to, Tail(words), index + 1)
EntrySteps(to, words, first, count) ==
    IF count = 0 THEN <<>>
    ELSE <<Step(to, words[first], words[first + 1])>> \o EntrySteps(to, words, first + 2, count - 1)
SetPart(g, at, i, v) == [g EXCEPT !.heap[at].parts[i] = v]
AppendPart(g, at, v) == [g EXCEPT !.heap[at].parts = Append(@, v)]
AppendEntry(g, at, key, v) ==
    [g EXCEPT !.heap[at].texts = Append(@, key), !.heap[at].parts = Append(@, v)]

RECURSIVE Adopt(_, _, _, _), TakeSteps(_, _, _, _, _), AdoptRooted(_, _, _, _)
\* An entry of an untyped Object: its key, its value, and the shape the key extends it to.
TakeEntry(g, image, at, step, depth) ==
    IF ~IsTextRecord(image, step.name) THEN Stopped(g, "malformed")
    ELSE With(image.records[step.name].text, LAMBDA key :
         With(Allocate(g, TextObject("string", key)), LAMBDA a :
         With(Adopt(PushRoot(a, a.value), image, step.offset, depth + 1), LAMBDA b :
              IF b.problem # "" THEN b
              ELSE IF Occurs(b.heap[at].texts, key) THEN Stopped(b, "malformed")
              ELSE AppendEntry(PopRoots(Collect(PushRoot(b, b.value)), Len(g.roots)), at, key, b.value))))
\* A declared field; others are dropped.
TakeField(g, image, at, step, depth) ==
    IF ~IsTextRecord(image, step.name) THEN Stopped(g, "malformed")
    ELSE With(Types[g.heap[at].type].fields, LAMBDA fields :
              IF ~Occurs(fields, image.records[step.name].text) THEN g
              ELSE With(Adopt(g, image, step.offset, depth + 1), LAMBDA a :
                        IF a.problem # "" THEN a
                        ELSE SetPart(a, at, IndexOf(fields, image.records[step.name].text), a.value)))
TakeStep(g, image, at, step, depth) ==
    CASE step.to = "entry" -> TakeEntry(g, image, at, step, depth)
      [] step.to = "field" -> TakeField(g, image, at, step, depth)
      [] step.to = "identity" ->
           With(Allocate(g, TextObject("string", step.name)), LAMBDA a : [a EXCEPT !.heap[at].link = a.value.at])
      [] OTHER -> With(Adopt(g, image, step.offset, depth + 1), LAMBDA a :
                       IF a.problem # "" THEN a
                       ELSE IF step.to = "item" THEN AppendPart(a, at, a.value)
                       ELSE SetPart(a, at, step.name, a.value))
TakeSteps(g, image, at, steps, depth) ==
    IF steps = <<>> \/ g.problem # "" THEN g
    ELSE With(TakeStep(g, image, at, Head(steps), depth), LAMBDA a :
              TakeSteps(a, image, at, Tail(steps), depth))
\* Fills the object just allocated, which stays rooted meanwhile.
Fill(g, image, steps, depth) ==
    With(TakeSteps(PushRoot(g, g.value), image, g.value.at, steps, depth), LAMBDA a :
         IF a.problem # "" THEN a ELSE [PopRoots(a, Len(g.roots)) EXCEPT !.value = g.value])

AdoptEntries(g, image, r, identity, depth) ==
    Fill(Allocate(g, Object("object", <<>>, <<>>)), image,
         (IF identity = <<>> THEN <<>> ELSE <<Step("identity", identity[1], 0)>>)
         \o EntrySteps("entry", r.words, 1 + Len(identity), r.argument), depth)
AdoptTyped(g, image, r, depth) ==
    With(image.records[r.words[1]].text, LAMBDA identity :
    With({id \in ObjectTypes : Types[id].boundary = identity}, LAMBDA ids :
         IF ids = {} THEN AdoptEntries(g, image, r, <<identity>>, depth)
         ELSE With(CHOOSE id \in ids : TRUE, LAMBDA id :
              Fill(Allocate(g, TypedObject(id, Filled(None, Len(Types[id].fields)))), image,
                   EntrySteps("field", r.words, 2, r.argument), depth))))
\* Mutant: the identity is not a root while the variant is allocated.
NewEnumUnrooted(g, identity, variant, count) ==
    IF ResolvedEnums(identity, variant) # {} THEN
        With(CHOOSE id \in ResolvedEnums(identity, variant) : TRUE, LAMBDA id :
             Allocate(g, EnumObject(id, IndexOf(Types[id].fields, variant), Filled(Empty, count))))
    ELSE With(Allocate(g, TextObject("string", identity)), LAMBDA a :
         With(Allocate(a, TextObject("string", variant)), LAMBDA b :
         PopRoots(Allocate(PushRoot(b, b.value),
                           EnumObject(HostEnumType(identity), HostVariant,
                                      Filled(Empty, count) \o <<a.value, b.value>>)), Len(g.roots))))
\* An enum of a declared variant, or a host enum, which keeps its two names behind its payload.
NewEnum(g, identity, variant, count) ==
    IF ResolvedEnums(identity, variant) # {} THEN
        With(CHOOSE id \in ResolvedEnums(identity, variant) : TRUE, LAMBDA id :
             Allocate(g, EnumObject(id, IndexOf(Types[id].fields, variant), Filled(Empty, count))))
    ELSE With(Allocate(g, TextObject("string", identity)), LAMBDA a :
         With(Allocate(PushRoot(a, a.value), TextObject("string", variant)), LAMBDA b :
         PopRoots(Allocate(PushRoot(b, b.value),
                           EnumObject(HostEnumType(identity), HostVariant,
                                      Filled(Empty, count) \o <<a.value, b.value>>)), Len(g.roots))))
AdoptEnum(g, image, r, depth) ==
    Fill(NewEnum(g, image.records[r.words[1]].text, image.records[r.words[2]].text, r.argument), image,
         ItemSteps("slot", SubSeq(r.words, 3, r.argument + 2), 1), depth)

\* Adopts the values at some offsets, each a root from then on.
AdoptRooted(g, image, offsets, depth) ==
    IF offsets = <<>> THEN g
    ELSE With(Adopt(g, image, Head(offsets), depth), LAMBDA a :
              IF a.problem # "" THEN a
              ELSE AdoptRooted(PushRoot(a, a.value), image, Tail(offsets), depth))
AdoptTrace(g, r) ==
    IF r.words[6] = 0 THEN [g EXCEPT !.value = None]
    ELSE With(Allocate(g, [Object("trace", <<>>, <<>>) EXCEPT !.trace = SubSeq(r.trace, 1, r.words[6])]),
              LAMBDA a : PushRoot(a, a.value))
AdoptError(g, image, r, depth) ==
    With(AdoptRooted(g, image, SubSeq(r.words, 1, 3), depth + 1), LAMBDA a :
    IF a.problem # "" THEN a
    ELSE IF \E i \in 1..2 : ~IsA(a, a.roots[Len(g.roots) + i], "string") THEN Stopped(a, "malformed")
    ELSE With(AdoptTrace(a, r), LAMBDA b :
         With(IF r.words[5] = 0 THEN [b EXCEPT !.value = None] ELSE Adopt(b, image, r.words[5], depth + 1),
              LAMBDA c :
              IF c.problem # "" THEN c
              ELSE PopRoots(Allocate(c, [Object("error", <<>>, SubSeq(a.roots, Len(g.roots) + 1, Len(a.roots))
                                                               \o <<c.value>>)
                                         EXCEPT !.number = r.argument,
                                                !.origin = IF r.words[4] = 0 THEN 0 ELSE r.words[4] - 1,
                                                !.link = b.value.at]), Len(g.roots)))))

\* The words a composite record must have, and the ones that must name texts.
WordsNeeded(r) == CASE r.kind = "list" -> r.argument
                    [] r.kind = "object" -> 2 * r.argument
                    [] r.kind = "typed" -> 2 * r.argument + 1
                    [] r.kind = "enum" -> r.argument + 2
                    [] OTHER -> 6
NamedTexts(r) == CASE r.kind = "typed" -> 1 [] r.kind = "enum" -> 2 [] OTHER -> 0
IsAdoptable(image, r) ==
    /\ HasWords(r, WordsNeeded(r))
    /\ \A i \in 1..NamedTexts(r) : IsTextRecord(image, r.words[i])
    /\ r.kind = "error" => r.words[6] <= Len(r.trace)
AdoptScalar(g, r) ==
    CASE r.kind = "none" -> [g EXCEPT !.value = None]
      [] r.kind = "unit" -> [g EXCEPT !.value = Unit]
      [] r.kind = "bool" -> [g EXCEPT !.value = Bool(IF r.argument = 0 THEN 0 ELSE 1)]
      [] r.kind = "int" /\ r.number \in SmallInts -> [g EXCEPT !.value = IntValue(r.number)]
      [] r.kind \in {"int", "float"} -> Allocate(g, NumberObject(r.kind, r.number))
      [] r.kind \in {"string", "bytes"} -> Allocate(g, TextObject(r.kind, r.text))
      [] OTHER -> Stopped(g, "malformed")
AdoptComposite(g, image, r, depth) ==
    CASE r.kind = "list" -> Fill(Allocate(g, Object("list", <<>>, <<>>)), image,
                                 ItemSteps("item", SubSeq(r.words, 1, r.argument), 1), depth)
      [] r.kind = "object" -> AdoptEntries(g, image, r, <<>>, depth)
      [] r.kind = "typed" -> AdoptTyped(g, image, r, depth)
      [] r.kind = "enum" -> AdoptEnum(g, image, r, depth)
      [] OTHER -> AdoptError(g, image, r, depth)
Adopt(g, image, offset, depth) ==
    IF ~IsRecord(image, offset) THEN Stopped(g, "malformed")
    ELSE IF image.records[offset].kind \notin Composites THEN AdoptScalar(g, image.records[offset])
    ELSE IF depth >= MaxDepth THEN Stopped(g, "unsupported")
    ELSE IF ~IsAdoptable(image, image.records[offset]) THEN Stopped(g, "malformed")
    ELSE AdoptComposite(g, image, image.records[offset], depth)

\* --- The arguments of an entry --------------------------------------------------------------
RECURSIVE AdoptSlots(_, _, _, _, _)
\* Arguments go to the first root slots; those past `capacity` are adopted and dropped, or with
\* `rest` appended to the List there.
AdoptSlots(g, image, offsets, index, entry) ==
    IF offsets = <<>> \/ g.problem # "" THEN g
    ELSE With(Adopt(g, image, Head(offsets), 1), LAMBDA a :
              AdoptSlots(IF a.problem # "" THEN a
                         ELSE IF index <= entry.fixed THEN [a EXCEPT !.roots[index] = a.value]
                         ELSE IF entry.variadic THEN AppendPart(a, a.roots[entry.fixed + 1].at, a.value)
                         ELSE a, image, Tail(offsets), index + 1, entry))
\* Calls an entry: its parameters in root slots, or the fatal Error of too many arguments.
AdoptInputs(image, entry) ==
    LET list == image.records[image.root]
        slots == [NewGuest EXCEPT !.roots = Filled(None, entry.fixed)]
        ready == IF ~entry.variadic THEN slots
                 ELSE With(Allocate(slots, Object("list", <<>>, <<>>)), LAMBDA a : PushRoot(a, a.value))
    IN IF ~IsRecord(image, image.root) \/ list.kind # "list" \/ ~HasWords(list, list.argument)
       THEN Stopped(slots, "malformed")
       ELSE AdoptSlots(ready, image, SubSeq(list.words, 1, list.argument), 1, entry)
ArityError(g, image) ==
    With(Adopt(g, image, image.root, 0), LAMBDA a :
         IF a.problem # "" THEN a
         ELSE NewError(a, 1, "ArityError", "more input values than parameters", a.value, 0, <<>>))

\* --- Comparing ------------------------------------------------------------------------------
Judged(same) == IF same THEN "same" ELSE "different"
Structural(candidate) == IF candidate THEN "structural" ELSE "different"
IsNumber(g, v) == v.is = "int" \/ IsA(g, v, "int") \/ IsA(g, v, "float")
NumberAt(g, v) == IF v.is = "int" THEN v.at ELSE g.heap[v.at].number
EnumEquality(g, l, r) ==
    LET sameVariant == IF HostVariant \in {l.variant, r.variant}
                       THEN IdentityOf(g, l) = IdentityOf(g, r) /\ VariantOf(g, l) = VariantOf(g, r)
                       ELSE l.type = r.type /\ l.variant = r.variant
    IN IF ~sameVariant \/ Len(PayloadOf(l)) # Len(PayloadOf(r)) THEN "different"
       ELSE IF PayloadOf(l) = <<>> THEN "same" ELSE "structural"
\* The answer without looking into the parts.
ObjectLength(o) == Len(o.texts) \* an enum is an Object without keys
ObjectEquality(g, l, r) ==
    CASE l.kind = r.kind /\ l.kind \in {"string", "bytes"} -> Judged(l.texts = r.texts)
      [] l.kind = r.kind /\ l.kind = "list" -> Structural(Len(l.parts) = Len(r.parts))
      [] l.kind = r.kind /\ l.kind = "error" -> "structural"
      [] l.kind = r.kind /\ l.kind = "enum" -> EnumEquality(g, l, r)
      [] l.kind = r.kind /\ l.kind = "typed" -> Structural(l.type = r.type)
      [] {l.kind, r.kind} \subseteq {"object", "enum"} -> Structural(ObjectLength(l) = ObjectLength(r))
      [] OTHER -> "different"
Equality(g, left, right) ==
    IF left = right THEN "same"
    ELSE IF IsNumber(g, left) /\ IsNumber(g, right) THEN Judged(NumberAt(g, left) = NumberAt(g, right))
    ELSE IF left.is # "ref" \/ right.is # "ref" THEN "different"
    ELSE ObjectEquality(g, g.heap[left.at], g.heap[right.at])
HasCustomEquality(o) == o.kind \in {"typed", "enum"} /\ o.type \in DOMAIN Types /\ Types[o.type].custom

\* The pairs of parts that decide; <<>> for a key the right Object lacks.
RECURSIVE PartPairs(_, _), KeyPairs(_, _, _)
PartPairs(ls, rs) ==
    IF ls = <<>> THEN <<>> ELSE <<<<Present(Head(ls)), Present(Head(rs))>>>> \o PartPairs(Tail(ls), Tail(rs))
KeyPairs(keys, parts, r) ==
    IF keys = <<>> THEN <<>>
    ELSE <<IF Occurs(r.texts, Head(keys)) THEN <<Head(parts), r.parts[IndexOf(r.texts, Head(keys))]>> ELSE <<>>>>
         \o KeyPairs(Tail(keys), Tail(parts), r)
Pairs(l, r) == CASE l.kind = "object" -> KeyPairs(l.texts, l.parts, r)
                 [] l.kind = "enum" -> PartPairs(PayloadOf(l), PayloadOf(r))
                 [] OTHER -> PartPairs(l.parts, r.parts)
RECURSIVE Deep(_, _, _, _), DeepPairs(_, _, _)
DeepPairs(g, pairs, depth) ==
    IF pairs = <<>> THEN "same"
    ELSE IF Head(pairs) = <<>> THEN "different"
    ELSE With(Deep(g, Head(pairs)[1], Head(pairs)[2], depth), LAMBDA outcome :
              IF outcome # "same" THEN outcome ELSE DeepPairs(g, Tail(pairs), depth))
Deep(g, left, right, depth) ==
    With(Equality(g, left, right), LAMBDA outcome :
         IF outcome # "structural" THEN outcome
         ELSE IF \/ depth >= NativeDepth \/ HasCustomEquality(g.heap[left.at])
                 \/ g.heap[left.at].kind # g.heap[right.at].kind
              THEN "structural"
         ELSE DeepPairs(g, Pairs(g.heap[left.at], g.heap[right.at]), depth + 1))
DeepEquality(g, left, right) == Deep(g, left, right, 0)

\* The prelude goes on where the core stops; a pair being compared already counts as equal.
RECURSIVE EqualParts(_, _, _, _), EqualPairs(_, _, _)
EqualPairs(g, pairs, seen) ==
    IF pairs = <<>> THEN "same"
    ELSE IF Head(pairs) = <<>> THEN "different"
    ELSE With(With(Equality(g, Head(pairs)[1], Head(pairs)[2]), LAMBDA outcome :
                   IF outcome = "structural" THEN EqualParts(g, Head(pairs)[1], Head(pairs)[2], seen)
                   ELSE outcome), LAMBDA result :
              IF result # "same" THEN result ELSE EqualPairs(g, Tail(pairs), seen))
EqualParts(g, left, right, seen) ==
    IF <<left, right>> \in seen THEN "same"
    ELSE IF HasCustomEquality(g.heap[left.at]) THEN "custom"
    ELSE IF g.heap[left.at].kind # g.heap[right.at].kind THEN
        IF g.heap[left.at].kind = "enum" /\ PayloadOf(g.heap[left.at]) # <<>> THEN "error" ELSE "same"
    ELSE EqualPairs(g, Pairs(g.heap[left.at], g.heap[right.at]), seen \cup {<<left, right>>})
\* `==` on two values.
Equals(g, left, right) ==
    With(DeepEquality(g, left, right), LAMBDA outcome :
         IF outcome # "structural" THEN outcome
         ELSE EqualParts(g, left, right, {}))
===============================================================================
