----------------------------- MODULE Declarations -----------------------------
(* The declarations of a module, as the parser of crates/exs-compiler reads  *)
(* them.  A module is [imports, uses, declarations]; the parser keeps one    *)
(* list per kind of declaration, here they are one list in source order.     *)
(* Every member of a declaration keeps the place where it starts, and the    *)
(* braces around them the place where they close.                            *)
EXTENDS Parsing

Field(name, types, start) == [name |-> name, types |-> types, start |-> start]
Header(name, parameters, result) == [name |-> name, parameters |-> parameters, result |-> result]
NoBody == Braces(<<>>, 0)
Declared(kind, name, members) ==
    [is |-> kind, name |-> name, members |-> members, trait |-> <<>>, header |-> <<>>, body |-> NoBody,
     private |-> FALSE, start |-> 0, close |-> 0]
\* The declaration that starts at token `at`.
From(p, at, declaration) == [declaration EXCEPT !.start = Offset(p, at)]

\* --- Imports and uses -----------------------------------------------------------------------------
Alias(p, at) == Optional(p, at, "as", "", LAMBDA next : Identifier(p, next))
ImportDeclaration(p, at) ==
    IF Token(p, at + 1) \notin Strings THEN Failed
    ELSE Then(Closed(p, Alias(p, at + 2), ";"), LAMBDA alias, next :
             Parsed([path |-> Token(p, at + 1), alias |-> alias, start |-> Offset(p, at)], next))
RECURSIVE UseItems(_, _, _), UsePath(_, _, _)
UseItem(p, at) ==
    Then(Identifier(p, at), LAMBDA name, next :
    Then(Alias(p, next), LAMBDA alias, end : Parsed([name |-> name, alias |-> alias], end)))
UseItems(p, found, at) ==
    Then(UseItem(p, at), LAMBDA item, next :
        LET all == Append(found, item)
        IN IF Token(p, next) = "," /\ Token(p, next + 1) # "}" THEN UseItems(p, all, next + 1)
           ELSE Closed(p, Parsed(all, IF Token(p, next) = "," THEN next + 1 ELSE next), "}"))
\* The namespace and the items: in braces, or the last segment.
UsePath(p, path, at) ==
    IF Token(p, at) = "{" THEN Then(UseItems(p, <<>>, at + 1), LAMBDA items, next : Parsed(<<path, items>>, next))
    ELSE Then(Identifier(p, at), LAMBDA name, next :
             IF Token(p, next) = "::" THEN UsePath(p, Append(path, name), next + 1)
             ELSE Then(Alias(p, next), LAMBDA alias, end :
                      Parsed(<<path, <<[name |-> name, alias |-> alias]>>>>, end)))
UseDeclaration(p, at) ==
    Then(Closed(p, IF Token(p, at + 1) = "{" THEN Failed ELSE UsePath(p, <<>>, at + 1), ";"),
         LAMBDA use, next : Parsed([namespace |-> use[1], items |-> use[2], start |-> Offset(p, at)], next))
LocalName(item) == IF item.alias = "" THEN item.name ELSE item.alias

\* --- Types, enums and constants --------------------------------------------------------------------
\* Fields separated by commas, up to `close`.
RECURSIVE FieldsFrom(_, _, _, _), VariantsFrom(_, _, _)
FieldsFrom(p, close, found, at) ==
    IF Token(p, at) = close THEN Parsed(found, at)
    ELSE Then(Identifier(p, at), LAMBDA name, named :
         Then(Annotated(p, named), LAMBDA types, next :
             LET all == Append(found, Field(name, types, Offset(p, at)))
             IN IF Token(p, next) = "," THEN FieldsFrom(p, close, all, next + 1) ELSE Parsed(all, next)))
VariantFields(p, at) ==
    Optional(p, at, "(", <<>>, LAMBDA open : Closed(p, FieldsFrom(p, ")", <<>>, open), ")"))
VariantsFrom(p, found, at) ==
    IF Token(p, at) = "}" THEN Parsed(found, at)
    ELSE Then(Identifier(p, at), LAMBDA name, named :
         Then(VariantFields(p, named), LAMBDA fields, next :
             LET all == Append(found, [name |-> name, fields |-> fields, start |-> Offset(p, at)])
             IN IF Token(p, next) = "," THEN VariantsFrom(p, all, next + 1) ELSE Parsed(all, next)))
\* `declaration` with the members r parsed up to its closing brace.
WithMembers(p, r, declaration) ==
    Then(r, LAMBDA members, close :
        Closed(p, Parsed([declaration EXCEPT !.members = members, !.close = Offset(p, close)], close), "}"))
TypeDeclaration(p, at) ==
    Then(Closed(p, Identifier(p, at + 1), "{"), LAMBDA name, open :
        WithMembers(p, FieldsFrom(p, "}", <<>>, open), Declared("type", name, <<>>)))
EnumDeclaration(p, at) ==
    Then(Closed(p, Identifier(p, at + 1), "{"), LAMBDA name, open :
        WithMembers(p, VariantsFrom(p, <<>>, open), Declared("enum", name, <<>>)))
ConstDeclaration(p, at) ==
    Then(Closed(p, Identifier(p, at + 1), "="), LAMBDA name, value :
    Then(Closed(p, Expression(p, value), ";"), LAMBDA e, next : Parsed(Declared("const", name, <<e>>), next)))

\* --- Functions, traits, implementations and tests ---------------------------------------------------
FunctionHeader(p, at) ==
    Then(Closed(p, Identifier(p, at), "("), LAMBDA name, open :
    Then(Parameters(p, FALSE, open), LAMBDA parameters, closed :
    Then(Optional(p, closed, "->", <<>>, LAMBDA next : TypeAnnotation(p, next)), LAMBDA result, next :
        Parsed(Header(name, parameters, result), next))))
\* A function, or inside a trait also the signature of a method.
Function(p, inside, at) ==
    Then(FunctionHeader(p, at + 1), LAMBDA header, open :
        LET function == From(p, at, [Declared("fn", header.name, <<>>) EXCEPT !.header = header])
        IN IF Token(p, open) = ";" /\ inside = "trait"
           THEN Parsed([function EXCEPT !.is = "signature"], open + 1)
           ELSE Then(Braced(p, open), LAMBDA body, next : Parsed([function EXCEPT !.body = body], next)))
\* A method inside the braces of a declaration; only a type's own method may be private.
Method(p, inside, at) ==
    LET private == Token(p, at) = "private" /\ inside = "own"
        start == IF private THEN at + 1 ELSE at
    IN IF Token(p, start) # "fn" THEN Failed
       ELSE Then(Function(p, inside, start), LAMBDA method, next :
                Parsed([method EXCEPT !.private = private], next))
RECURSIVE MethodsFrom(_, _, _, _)
MethodsFrom(p, inside, found, at) ==
    IF Token(p, at) = "}" THEN Parsed(found, at)
    ELSE Then(Method(p, inside, at), LAMBDA method, next : MethodsFrom(p, inside, Append(found, method), next))
\* `declaration` with the methods in its braces.
WithMethods(p, inside, r) ==
    Then(Closed(p, r, "{"), LAMBDA declaration, open :
        WithMembers(p, MethodsFrom(p, inside, <<>>, open), declaration))
NewTrait(p, at) ==
    Then(Identifier(p, at + 1), LAMBDA name, open : Parsed(Declared("trait", name, <<>>), open))
\* `impl T {` or `impl Trait for T {`.
NewImplementation(p, at) ==
    Then(Path(p, <<>>, at + 1), LAMBDA first, next :
        IF Token(p, next) # "for" THEN Parsed(Declared("impl", first, <<>>), next)
        ELSE Then(Path(p, <<>>, next + 1), LAMBDA type, open :
                 Parsed([Declared("impl", type, <<>>) EXCEPT !.trait = first], open)))
TraitOrImplementation(p, at) ==
    IF Token(p, at) = "trait" THEN WithMethods(p, "trait", NewTrait(p, at))
    ELSE LET new == NewImplementation(p, at)
         IN WithMethods(p, IF new.at # 0 /\ new.tree.trait # <<>> THEN "for trait" ELSE "own", new)
TestDeclaration(p, at) ==
    IF Token(p, at + 1) \notin Strings THEN Failed
    ELSE Then(Braced(p, at + 2), LAMBDA body, next :
             Parsed([Declared("test", Token(p, at + 1), <<>>) EXCEPT !.body = body], next))

\* --- Modules --------------------------------------------------------------------------------------
PublicDeclaration(p, at) ==
    LET token == Token(p, at)
    IN CASE token = "const" -> ConstDeclaration(p, at) [] token = "type" -> TypeDeclaration(p, at)
         [] token = "enum" -> EnumDeclaration(p, at)   [] token \in {"trait", "impl"} -> TraitOrImplementation(p, at)
         [] token = "fn" -> Function(p, "module", at)  [] token = "test" -> TestDeclaration(p, at)
         [] OTHER -> Failed
MayBePrivate == {"fn", "type", "enum", "trait", "const"}
\* `private` precedes the declaration, which starts after it.
Declaration(p, at) ==
    LET private == Token(p, at) = "private"
        start == IF private THEN at + 1 ELSE at
    IN IF private /\ Token(p, start) \notin MayBePrivate THEN Failed
       ELSE Then(PublicDeclaration(p, start), LAMBDA d, next :
                Parsed(From(p, start, [d EXCEPT !.private = private]), next))
RECURSIVE DeclarationsFrom(_, _, _), ModuleFrom(_, _, _, _)
DeclarationsFrom(p, found, at) ==
    IF Token(p, at) = "eof" THEN Parsed(found, at)
    ELSE Then(Declaration(p, at), LAMBDA d, next : DeclarationsFrom(p, Append(found, d), next))
\* Imports and uses precede every declaration; a used name may be a type.
ModuleFrom(p, imports, uses, at) ==
    CASE Token(p, at) = "import" ->
           Then(ImportDeclaration(p, at), LAMBDA i, next : ModuleFrom(p, Append(imports, i), uses, next))
      [] Token(p, at) = "use" ->
           Then(UseDeclaration(p, at), LAMBDA u, next :
               ModuleFrom([p EXCEPT !.types = @ \cup {LocalName(u.items[i]) : i \in DOMAIN u.items}],
                          imports, Append(uses, u), next))
      [] OTHER ->
           Then(DeclarationsFrom(p, <<>>, at), LAMBDA ds, next :
               Parsed([imports |-> imports, uses |-> uses, declarations |-> ds], next))
\* The names that follow `type`, and the prelude's.
TypeNames(tokens) ==
    PreludeTypes \cup {tokens[i + 1] : i \in {j \in 1..(Len(tokens) - 1) : tokens[j] = "type" /\ IsIdentifier(tokens[j + 1])}}
ModuleOf(tokens, offsets) ==
    ModuleFrom([tokens |-> tokens, offsets |-> offsets, types |-> TypeNames(tokens)], <<>>, <<>>, 1)
\* What a sequence of tokens means: its module without the places.
Meaning(tokens) == ModuleOf(tokens, [i \in DOMAIN tokens |-> 0])
===============================================================================
