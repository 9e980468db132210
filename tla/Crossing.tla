------------------------------ MODULE Crossing ------------------------------
(* One call across the boundary: a runner or guest written in Rust makes    *)
(* the arguments, the module adopts them, binds them to annotated names and *)
(* returns a result, which the runner reads and may hand back.  A case      *)
(* starts with a Rust value, with trees, with a value a program has built   *)
(* or with an image of unknown origin; what happens to it is determined.    *)
EXTENDS Bindings, RustValues

CONSTANTS CaseKeys,  \* the cases to consider
          CaseOf(_)  \* the case of a key

VARIABLES key,     \* which case
          stage,   \* where the value is
          trees,   \* the arguments, or the result the runner has read
          image,   \* the image between the two sides
          guest,   \* the module's memory
          result,  \* the value the module returns
          echo     \* the value it gets back

vars == <<key, stage, trees, image, guest, result, echo>>
NoImage == [length |-> 0, root |-> 0, records |-> <<>>]
TheCase == CaseOf(key)

Init ==
    /\ key \in CaseKeys
    /\ stage = TheCase.start
    /\ trees = TheCase.trees
    /\ image = TheCase.image
    /\ guest = TheCase.guest
    /\ result = TheCase.result
    /\ echo = None

\* A Rust value becomes the argument of the call.
SerializeArgument ==
    /\ stage = "rust"
    /\ trees' = <<Serialize(TheCase.type, TheCase.value)>>
    /\ stage' = IF IsTree(trees'[1]) THEN "arguments" ELSE "refused"
    /\ UNCHANGED <<key, image, guest, result, echo>>
\* The runner lays the arguments out, within its limits.
SubmitArguments ==
    /\ stage = "arguments"
    /\ LET written == HostWrite(ListTree(trees), TheCase.limits)
       IN /\ stage' = IF written.problem = "" THEN "submitted" ELSE "refused"
          /\ image' = IF written.problem = "" THEN FinishedImage(written) ELSE NoImage
    /\ UNCHANGED <<key, trees, guest, result, echo>>
\* The entry takes its parameters; too many arguments end the call at once.
AdoptArguments ==
    /\ stage = "submitted"
    /\ guest' = AdoptInputs(image, TheCase.entry)
    /\ stage' = IF guest'.problem # "" THEN "trapped"
                ELSE IF Len(trees) > TheCase.entry.fixed /\ ~TheCase.entry.variadic THEN "too many"
                ELSE "adopted"
    /\ UNCHANGED <<key, trees, image, result, echo>>
RejectArguments ==
    /\ stage = "too many"
    /\ guest' = ArityError(guest, image)
    /\ stage' = IF guest'.problem # "" THEN "trapped" ELSE "returned"
    /\ result' = guest'.value
    /\ UNCHANGED <<key, trees, image, echo>>
\* `let name: T = parameter`, whose value the entry returns.
BindParameter ==
    /\ stage = "adopted"
    /\ guest' = CheckBinding(guest, guest.roots[1], Resolve(TheCase.annotation))
    /\ stage' = IF guest'.problem # "" THEN "trapped" ELSE "returned"
    /\ result' = guest'.value
    /\ UNCHANGED <<key, trees, image, echo>>
\* The runner takes the image of the result and reads it.
TakeResult ==
    /\ stage = "returned"
    /\ image' = FinishedImage(ResultImage([guest EXCEPT !.roots = <<result>>], result))
    /\ stage' = "result"
    /\ UNCHANGED <<key, trees, guest, result, echo>>
ReadResult ==
    /\ stage \in {"result", "unknown"}
    /\ LET read == HostRead(image, TheCase.limits)
       IN /\ trees' = IF read.problem = "" THEN <<read.value>> ELSE <<>>
          /\ stage' = IF read.problem # "" THEN "unreadable"
                      ELSE IF stage = "result" THEN "received" ELSE "read"
    /\ UNCHANGED <<key, image, guest, result, echo>>
\* The runner hands the result back as the response of a host call.
EchoResult ==
    /\ stage = "received" /\ TheCase.echoed
    /\ LET written == HostWrite(trees[1], TheCase.limits)
           adopted == Adopt([guest EXCEPT !.roots = <<result>>, !.problem = ""],
                            FinishedImage(written), written.at, 0)
       IN IF written.problem # "" \/ adopted.problem # ""
          THEN stage' = "unreadable" /\ UNCHANGED <<guest, echo>>
          ELSE stage' = "echoed" /\ guest' = adopted /\ echo' = adopted.value
    /\ UNCHANGED <<key, trees, image, result>>

Next == \/ SerializeArgument \/ SubmitArguments \/ AdoptArguments \/ RejectArguments
        \/ BindParameter \/ TakeResult \/ ReadResult \/ EchoResult
Spec == Init /\ [][Next]_vars

\* --- What a value in memory denotes ---------------------------------------------------------
Bad(why) == Tree(why, 0, <<>>, <<>>)
RECURSIVE Denoted(_, _, _), DenotedAll(_, _, _)
DenotedAll(g, values, depth) ==
    IF values = <<>> THEN <<>>
    ELSE <<Denoted(g, Head(values), depth)>> \o DenotedAll(g, Tail(values), depth)
DenotedSlots(o) == SelectSeq(SlotsInOrder(o), LAMBDA i : o.parts[i] # Empty)
DenotedTyped(g, o, depth) ==
    LET slots == DenotedSlots(o)
        extra == IF o.link = 0 THEN Object("object", <<>>, <<>>) ELSE g.heap[o.link]
    IN TypedTree(Types[o.type].boundary, [i \in DOMAIN slots |-> Types[o.type].fields[slots[i]]] \o extra.texts,
                 DenotedAll(g, [i \in DOMAIN slots |-> o.parts[slots[i]]] \o extra.parts, depth))
DenotedError(g, o, depth) ==
    ErrorTree(o.number, TextAt(g, o.parts[1]), TextAt(g, o.parts[2]), WordOrigin(o.origin), TraceOf(g, o),
              DenotedAll(g, SubSeq(o.parts, 3, IF o.parts[4] = None THEN 3 ELSE 4), depth))
IsDangling(g, o) == \E a \in RefsOf(o.parts) \cup ({o.link} \ {0}) : a \notin DOMAIN g.heap
DenotedObject(g, o, depth) ==
    CASE o.kind \in {"string", "bytes"} -> Tree(o.kind, 0, o.texts, <<>>)
      [] o.kind \in {"int", "float"} -> Tree(o.kind, o.number, <<>>, <<>>)
      [] o.kind \notin Composites -> Bad("closure")
      [] depth > MaxDepth -> Bad("deep")
      [] IsDangling(g, o) -> Bad("dangling")
      [] o.kind = "list" -> ListTree(DenotedAll(g, o.parts, depth + 1))
      [] o.kind = "object" /\ o.link = 0 -> ObjectTree(o.texts, DenotedAll(g, o.parts, depth + 1))
      [] o.kind = "object" -> TypedTree(TextAt(g, Ref(o.link)), o.texts, DenotedAll(g, o.parts, depth + 1))
      [] o.kind = "typed" -> DenotedTyped(g, o, depth + 1)
      [] o.kind = "enum" -> EnumTree(IdentityOf(g, o), VariantOf(g, o), DenotedAll(g, PayloadOf(o), depth + 1))
      [] OTHER -> DenotedError(g, o, depth + 1)
Denoted(g, v, depth) ==
    CASE v.is = "ref" -> IF v.at \in DOMAIN g.heap THEN DenotedObject(g, g.heap[v.at], depth) ELSE Bad("dangling")
      [] v.is \in {"bool", "int"} -> Tree(v.is, v.at, <<>>, <<>>)
      [] OTHER -> Tree(v.is, 0, <<>>, <<>>)
Meaning(g, v) == Denoted(g, v, 1)
RECURSIVE HasTag(_, _)
HasTag(tree, tags) == tree.tag \in tags \/ \E i \in DOMAIN tree.parts : HasTag(tree.parts[i], tags)
BadTags == {"closure", "deep", "dangling"}

\* --- What an argument becomes ---------------------------------------------------------------
Declaring(tree) == IF tree.tag # "typed" THEN {} ELSE {id \in ObjectTypes : Types[id].boundary = tree.texts[1]}
LastOf(names, name) == CHOOSE i \in DOMAIN names : names[i] = name /\ \A j \in DOMAIN names : names[j] = name => j <= i
RECURSIVE Declared(_), Traps(_, _)
DeclaredFields(tree, fields) ==
    TypedTree(tree.texts[1], fields,
              [i \in DOMAIN fields |-> IF Occurs(Tail(tree.texts), fields[i])
                                       THEN Declared(tree.parts[LastOf(Tail(tree.texts), fields[i])])
                                       ELSE NoneTree])
\* A value of a type of the program gets its declared fields; a position of 0 is none inside.
Declared(tree) ==
    IF Declaring(tree) # {} THEN DeclaredFields(tree, Types[CHOOSE id \in Declaring(tree) : TRUE].fields)
    ELSE [tree EXCEPT !.parts = [i \in DOMAIN tree.parts |-> Declared(tree.parts[i])],
                      !.origin = IF @ = 1 THEN 0 ELSE @]
Repeats(names) == \E i, j \in DOMAIN names : i # j /\ names[i] = names[j]
TakenParts(tree) ==
    IF Declaring(tree) = {} THEN DOMAIN tree.parts
    ELSE {i \in DOMAIN tree.parts : Occurs(Types[CHOOSE id \in Declaring(tree) : TRUE].fields, tree.texts[i + 1])}
\* A value that is too deep or has a key twice ends the call with a trap.
Traps(tree, depth) ==
    /\ tree.tag \in Composites
    /\ \/ depth >= MaxDepth
       \/ tree.tag = "object" /\ Repeats(tree.texts)
       \/ tree.tag = "typed" /\ Declaring(tree) = {} /\ Repeats(Tail(tree.texts))
       \/ \E i \in TakenParts(tree) : Traps(tree.parts[i], depth + 1)

\* --- What an annotation admits --------------------------------------------------------------
RECURSIVE Conforms(_, _, _)
ConformParts(g, parts, contracts) ==
    \A i \in DOMAIN parts : ~IsError(g, parts[i]) /\ Conforms(g, parts[i], contracts[i])
\* A value of the type itself passes whatever its fields hold; so does an enum.
Conforms(g, v, contract) ==
    LET flag == FlagOf(g, v) IN
    CASE flag = "Error" -> TRUE
      [] flag = "List" /\ contract.item # <<>> ->
           ConformParts(g, g.heap[v.at].parts, Filled(contract.item[1], Len(g.heap[v.at].parts)))
      [] flag = "Object" /\ contract.types # <<>> ->
           \/ IsEnumOf(g.heap[v.at], contract)
           \/ /\ g.heap[v.at].kind = "typed"
              /\ g.heap[v.at].type \in FirstObject(contract)
           \/ ObjectsOf(contract) = <<>> /\ flag \in contract.mask
      [] OTHER -> flag \in contract.mask
RECURSIVE IsTagged(_)
IsTagged(tree) == Occurs(tree.texts, "$variant") \/ \E i \in DOMAIN tree.parts : IsTagged(tree.parts[i])
\* An object the binding made also holds what its declaration says.
AnnotationsOf(o) == IF o.kind = "typed" THEN Types[o.type].annotations ELSE Types[o.type].variants[o.variant].annotations
MadeAsDeclared(g, first) ==
    \A a \in Reachable(g.heap, <<g.value>>) :
        a >= first /\ g.heap[a].kind \in {"typed", "enum"} /\ g.heap[a].variant # HostVariant
            => ConformParts(g, g.heap[a].parts, Resolved(AnnotationsOf(g.heap[a])))

\* --- Properties -----------------------------------------------------------------------------
NoLimits == [nesting |-> 1000, entries |-> 1000, payload |-> 1000000]

\* What the runner reads is the value the program returned: every field, key, payload, name,
\* trace and position, in entry order.  A value that cannot leave (a function, a cycle, too deep)
\* is replaced by a SerializationError that names an obstacle the value really has.
HostSeesValue ==
    stage = "result" =>
        LET meaning == Meaning(guest, result)
            seen == HostRead(image, NoLimits)
        IN /\ seen.problem = ""
           /\ IF ~HasTag(meaning, BadTags) THEN seen.value = meaning
              ELSE /\ seen.value.tag = "error" /\ seen.value.number = 1
                   /\ seen.value.texts[1] = "SerializationError"
                   /\ seen.value.texts[2] = "unsupported value" => HasTag(meaning, {"closure"})
                   /\ seen.value.texts[2] = "cycle" => HasTag(meaning, {"deep"})
                   /\ seen.value.texts[2] = "none" => ~HasTag(meaning, {"closure"})

\* Both directions apply the runner's limits alike: an argument is refused exactly when it
\* exceeds them, what was written can be read back, a result is unreadable exactly when it
\* exceeds them, and whatever an image of unknown origin reads as is within them and can be
\* written and read again.
Rereads(tree) ==
    LET written == HostWrite(tree, TheCase.limits)
    IN /\ written.problem = ""
       /\ HostRead(FinishedImage(written), TheCase.limits) = [HostRead(FinishedImage(written), TheCase.limits)
                                                              EXCEPT !.problem = "", !.value = AsRead(tree)]
LimitsAgree ==
    /\ stage = "arguments" =>
           IF WithinLimits(ListTree(trees), TheCase.limits) THEN Rereads(ListTree(trees))
           ELSE HostWrite(ListTree(trees), TheCase.limits).problem \in {"nesting", "entries", "payload"}
    /\ stage = "result" =>
           (HostRead(image, TheCase.limits).problem = ""
                <=> WithinLimits(HostRead(image, NoLimits).value, TheCase.limits))
    /\ stage \in {"read", "received"} =>
           /\ IsTree(trees[1]) /\ WithinLimits(trees[1], TheCase.limits)
           /\ Rereads(trees[1])

\* The parameters of an entry are the arguments, whenever the collector runs meanwhile: only
\* an Object of a type the program declares is completed to its declared fields.  The call
\* traps exactly when an argument is too deep or repeats a key, even one past the parameters.
\* A result the runner hands back as it read it equals, in the guest, the value it was read from.
Parameters == SubSeq(guest.roots, 1, TheCase.entry.fixed)
ProgramSeesValue ==
    /\ stage = "adopted" =>
           /\ \A i \in DOMAIN Parameters :
                  Meaning(guest, Parameters[i])
                      = IF i \in DOMAIN trees THEN Declared(AsRead(trees[i])) ELSE NoneTree
           /\ TheCase.entry.variadic =>
                  LET rest == SubSeq(trees, TheCase.entry.fixed + 1, Len(trees))
                  IN Meaning(guest, guest.roots[TheCase.entry.fixed + 1])
                         = ListTree([i \in DOMAIN rest |-> Declared(AsRead(rest[i]))])
    /\ stage = "trapped" <=> stage \in {"trapped", "adopted", "too many"} /\ \E i \in DOMAIN trees : Traps(trees[i], 1)
    /\ stage = "echoed" /\ ~HasTag(Meaning(guest, result), BadTags) => Equals(guest, result, echo) \in {"same", "custom"}
    /\ stage = "unreadable" => trees = <<>>

\* An annotated binding never traps and gets an Error or a value its annotation admits, with
\* fields and payloads that the declarations of what it converted to admit; a value the
\* annotation already admits and no `$variant` tags is bound unchanged, and binding the result again changes nothing.
BoundConforms ==
    stage = "adopted" =>
        LET contract == Resolve(TheCase.annotation)
            parameter == guest.roots[1]
            bound == CheckBinding(guest, parameter, contract)
            again == CheckBinding([bound EXCEPT !.roots = <<bound.value>>], bound.value, contract)
        IN /\ bound.problem = ""
           /\ Conforms(bound, bound.value, contract)
           /\ MadeAsDeclared(bound, guest.next)
           /\ Conforms(guest, parameter, contract) /\ ~IsTagged(Meaning(guest, parameter))
                  => Meaning(bound, bound.value) = Meaning(guest, parameter)
           /\ Meaning(again, again.value) = Meaning(bound, bound.value)

\* A value of a Rust type comes back as it was, from its tree and from a program that binds it
\* to a fitting annotation and returns it.
RustRoundTrip ==
    TheCase.start = "rust" =>
        /\ stage = "arguments" => Deserialize(TheCase.type, trees[1]) = Read(TheCase.value)
        /\ stage = "received" => Deserialize(TheCase.type, trees[1]) = Read(TheCase.value)
===============================================================================
