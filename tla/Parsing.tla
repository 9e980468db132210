------------------------------- MODULE Parsing --------------------------------
(* The recursive-descent parser of crates/exs-compiler.                      *)
(*                                                                           *)
(* A token is a string.  A parse p is [tokens, offsets, types]: the tokens,  *)
(* their places in the source and the names `type_names` holds.  A parsing   *)
(* operator takes the index `at` of the next token and answers [tree, at]    *)
(* with the index after it, or Failed.  Nodes are those of SourceTree; one   *)
(* with a span keeps the place where it starts, braces also where they close.*)
(* The parser recovers after a mistake to report more of them: here a source *)
(* with a mistake only fails.  The limit on nesting is left out.             *)
EXTENDS SourceTree, FiniteSets, TLC

CONSTANTS Names,         \* identifiers
          Numbers,       \* literals that are one token: Int, Float and Bytes
          Texts,         \* what a String literal may hold
          PreludeTypes   \* the types the prelude declares

Keywords == {"fn", "import", "use", "as", "type", "enum", "match", "trait", "impl", "private",
             "const", "let", "ret", "if", "else", "while", "for", "in", "break", "continue",
             "None", "Unit", "is", "Error", "Host", "par", "true", "false"}
Quoted(text) == "'" \o text \o "'"
Strings == {Quoted(text) : text \in Texts}
Unquoted(token) == CHOOSE text \in Texts : Quoted(text) = token
IsIdentifier(token) == token \in Names

Parsed(tree, at) == [tree |-> tree, at |-> at]
Failed == Parsed(<<>>, 0)
Then(r, F(_, _)) == IF r.at = 0 THEN Failed ELSE F(r.tree, r.at)
Token(p, at) == IF at <= Len(p.tokens) THEN p.tokens[at] ELSE "eof"
Offset(p, at) == IF at <= Len(p.offsets) THEN p.offsets[at] ELSE 0
\* The token `expected` closes what r parsed.
Closed(p, r, expected) == IF r.at # 0 /\ Token(p, r.at) = expected THEN [r EXCEPT !.at = @ + 1] ELSE Failed
Expected(p, at, expected) == Closed(p, Parsed(<<>>, at), expected)
\* What follows when the token is `expected`, or else `tree`.
Optional(p, at, expected, tree, F(_)) == IF Token(p, at) = expected THEN F(at + 1) ELSE Parsed(tree, at)
Identifier(p, at) == IF IsIdentifier(Token(p, at)) THEN Parsed(Token(p, at), at + 1) ELSE Failed

\* --- Types and parameters -----------------------------------------------------------------------
RECURSIVE TypeAnnotation(_, _), TypeMembers(_, _, _), TypePath(_, _, _)
TypePath(p, path, at) ==
    IF IsIdentifier(Token(p, at)) \/ Token(p, at) \in {"None", "Unit", "Error"}
    THEN IF Token(p, at + 1) = "::" THEN TypePath(p, Append(path, Token(p, at)), at + 2)
         ELSE Parsed(Append(path, Token(p, at)), at + 1)
    ELSE Failed
TypeName(p, at) ==
    Then(TypePath(p, <<>>, at), LAMBDA path, next :
        IF Token(p, next) # "<" THEN Parsed(<<path, <<>>>>, next)
        ELSE Then(Closed(p, TypeAnnotation(p, next + 1), ">"), LAMBDA argument, end :
                 Parsed(<<path, argument>>, end)))
TypeMembers(p, members, at) ==
    Then(TypeName(p, at), LAMBDA member, next :
        IF Token(p, next) = "|" THEN TypeMembers(p, Append(members, member), next + 1)
        ELSE Parsed(Append(members, member), next))
TypeAnnotation(p, at) == TypeMembers(p, <<>>, at)
Annotated(p, at) == Optional(p, at, ":", <<>>, LAMBDA next : TypeAnnotation(p, next))

\* Parameters up to `)`; a closure's parameters may not end in a comma.
Parameter(name, types, variadic) == [name |-> name, types |-> types, variadic |-> variadic]
RECURSIVE ParametersFrom(_, _, _, _)
ParametersFrom(p, closure, found, at) ==
    Then(Identifier(p, at), LAMBDA name, named :
    Then(Annotated(p, named), LAMBDA types, typed :
        LET variadic == Token(p, typed) = "..."
            next == IF variadic THEN typed + 1 ELSE typed
            all == Append(found, Parameter(name, types, variadic))
        IN IF Token(p, next) # "," THEN Parsed(all, next)
           ELSE IF Token(p, next + 1) = ")" /\ ~closure THEN Parsed(all, next + 1)
           ELSE ParametersFrom(p, closure, all, next + 1)))
Parameters(p, closure, at) ==
    Closed(p, IF Token(p, at) = ")" THEN Parsed(<<>>, at) ELSE ParametersFrom(p, closure, <<>>, at), ")")
\* Parameters of a closure are followed by `=>`.
ClosureParameters(p, at) == Closed(p, Parameters(p, TRUE, at), "=>")

\* --- Expressions ---------------------------------------------------------------------------------
Index(e, index) == Node("Index", <<>>, <<e, index>>)
Propagate(e) == Node("Propagate", <<>>, <<e>>)
HostTime(operation, es) == Node("HostTime", <<operation>>, es)
FormattedString(kind, parts) == Node("FormattedString", <<kind>>, parts)
Part(text) == Node("Part", <<text>>, <<>>)
TypedObject(name, keys, es) == Typed(name, <<ObjectLiteral(keys, es)>>)
\* The body of a closure or match arm that is an expression.
Value(e) == Node("Value", <<>>, <<e>>)
Braces(block, close) == Block(block) @@ [close |-> close]
Lambda(parameters, body) == [Node("Closure", <<>>, parameters) EXCEPT !.bodies = <<body>>]
Arm(pattern, body) == [body EXCEPT !.name = pattern]
Pattern(path, bindings) == [Node("Variant", path, <<>>) EXCEPT !.types = bindings]
Wildcard == Node("Wildcard", <<>>, <<>>)
\* `a..b` is the call the prelude declares for it.
RangeOf(start, end, token) ==
    StaticCall(<<"Range", IF token = "..=" THEN "through" ELSE "until">>, <<start, end>>)

Equality == 3
Comparison == 4
RangeStrength == 5
Tightest == 255
Strengths ==
    [token \in {"||"} |-> 1] @@ [token \in {"&&"} |-> 2] @@ [token \in {"==", "!="} |-> Equality]
    @@ [token \in {"<", "<=", ">", ">="} |-> Comparison] @@ [token \in {"+", "-"} |-> 6]
    @@ [token \in {"*", "/", "%"} |-> 7]

RECURSIVE Expression(_, _), Binary(_, _, _), Operators(_, _, _, _, _), Unary(_, _), Postfix(_, _, _),
          Primary(_, _), ArgumentsFrom(_, _, _, _), PropertiesFrom(_, _, _, _), PartsFrom(_, _, _, _),
          Arms(_, _, _), TasksFrom(_, _, _), Braced(_, _)
Expression(p, at) == Binary(p, 0, at)
\* The operand on the left, then every operator at least as tight as `minimum` and no tighter
\* than the operator that made the left side, whose strength is `strength`.
Binary(p, minimum, at) ==
    Then(Unary(p, at), LAMBDA left, next : Operators(p, minimum, left, Tightest, next))
Operators(p, minimum, left, strength, at) ==
    LET token == Token(p, at)
    IN CASE token = "is" /\ minimum <= Comparison /\ Comparison <= strength ->
              Then(TypeAnnotation(p, at + 1), LAMBDA types, next :
                  Operators(p, minimum, IsType(left, types), Equality, next))
         [] token \in {"..", "..="} /\ minimum <= RangeStrength /\ RangeStrength < strength ->
              Then(Binary(p, RangeStrength + 1, at + 1), LAMBDA end, next :
                  Operators(p, minimum, RangeOf(left, end, token), RangeStrength, next))
         [] token \in DOMAIN Strengths /\ minimum <= Strengths[token] /\ Strengths[token] <= strength ->
              Then(Binary(p, Strengths[token] + 1, at + 1), LAMBDA right, next :
                  Operators(p, minimum, Operation(token, <<left, right>>), Strengths[token], next))
         [] OTHER -> Parsed(left, at)
Unary(p, at) ==
    IF Token(p, at) \in {"-", "!"}
    THEN Then(Unary(p, at + 1), LAMBDA e, next : Parsed(Operation(Token(p, at), <<e>>), next))
    ELSE Then(Primary(p, at), LAMBDA e, next : Postfix(p, e, next))

\* Expressions separated by commas up to `terminator`; a comma may end them.
ArgumentsFrom(p, terminator, found, at) ==
    Then(Expression(p, at), LAMBDA e, next :
        IF Token(p, next) = "," /\ Token(p, next + 1) # terminator
        THEN ArgumentsFrom(p, terminator, Append(found, e), next + 1)
        ELSE Parsed(Append(found, e), IF Token(p, next) = "," THEN next + 1 ELSE next))
Arguments(p, terminator, at) ==
    Closed(p, IF Token(p, at) = terminator THEN Parsed(<<>>, at)
              ELSE ArgumentsFrom(p, terminator, <<>>, at), terminator)
\* The properties of an Object literal, after its `{`: their keys and values.
PropertiesFrom(p, keys, es, at) ==
    IF Token(p, at) = "}" THEN Parsed(<<keys, es>>, at + 1)
    ELSE IF ~(IsIdentifier(Token(p, at)) \/ Token(p, at) \in Strings) \/ Token(p, at + 1) # ":" THEN Failed
    ELSE LET key == IF Token(p, at) \in Strings THEN Unquoted(Token(p, at)) ELSE Token(p, at)
         IN Then(Expression(p, at + 2), LAMBDA e, next :
                IF Token(p, next) = "," THEN PropertiesFrom(p, Append(keys, key), Append(es, e), next + 1)
                ELSE Closed(p, Parsed(<<Append(keys, key), Append(es, e)>>, next), "}"))
Properties(p, at) == PropertiesFrom(p, <<>>, <<>>, at)
ObjectFollows(p, at) ==
    \/ Token(p, at + 1) = "}"
    \/ /\ IsIdentifier(Token(p, at + 1)) \/ Token(p, at + 1) \in Strings
       /\ Token(p, at + 2) = ":"
NamesType(p, name) == Len(name) = 1 /\ Head(name) \in p.types

\* After `::`: a call of a type's method, or a longer name.
Qualified(p, name, at) ==
    Then(Identifier(p, at), LAMBDA member, next :
        IF Token(p, next) = "(" /\ NamesType(p, name)
        THEN Then(Arguments(p, ")", next + 1), LAMBDA es, end :
                 Postfix(p, StaticCall(Append(name, member), es), end))
        ELSE Postfix(p, Variable(Append(name, member)), next))
Member(p, e, at) ==
    Then(Identifier(p, at), LAMBDA name, next :
        IF Token(p, next) = "("
        THEN Then(Arguments(p, ")", next + 1), LAMBDA es, end :
                 Postfix(p, MethodCall(<<name>>, <<e>> \o es), end))
        ELSE Postfix(p, Property(<<name>>, e), next))
Postfix(p, e, at) ==
    LET token == Token(p, at)
    IN CASE token = "::" -> IF e.is = "Variable" THEN Qualified(p, e.name, at + 1) ELSE Failed
         [] token = "{" /\ e.is = "Variable" /\ (NamesType(p, e.name) \/ Len(e.name) > 1)
              /\ ObjectFollows(p, at) ->
              Then(Properties(p, at + 1), LAMBDA t, next : Postfix(p, TypedObject(e.name, t[1], t[2]), next))
         [] token = "(" ->
              IF e.is # "Variable" THEN Failed
              ELSE Then(Arguments(p, ")", at + 1), LAMBDA es, next : Postfix(p, Call(e.name, es), next))
         [] token = "[" ->
              Then(Closed(p, Expression(p, at + 1), "]"), LAMBDA i, next : Postfix(p, Index(e, i), next))
         [] token = "." -> Member(p, e, at + 1)
         [] token = "?" -> Postfix(p, Propagate(e), at + 1)
         [] OTHER -> Parsed(e, at)

\* The operations of Host and how many arguments they take.
HostArity == [sleep |-> 1, now |-> 0, elapsed |-> 0, date_time_in_timezone |-> 2,
              date_time_from_components |-> 8]
SleepName == "host.sleep"
HostOperation(operation, es) ==
    CASE operation = "call" -> HostCall(es)
      [] operation = "stream" -> HostStream(es)
      [] operation = "sleep" -> HostCall(<<Text(SleepName)>> \o es)
      [] OTHER -> HostTime(operation, es)
HostExpression(p, at) ==
    Then(Closed(p, Closed(p, Expected(p, at, "::"), Token(p, at + 1)), "("), LAMBDA none, open :
    Then(Arguments(p, ")", open), LAMBDA es, next :
        LET operation == Token(p, at + 1)
        IN IF \/ operation \in {"call", "stream"} /\ es # <<>>
              \/ operation \in DOMAIN HostArity /\ Len(es) = HostArity[operation]
           THEN Parsed(HostOperation(operation, es), next) ELSE Failed))

\* The parts of a formatted string up to its closing quote.  `{{` and `}}` are text; a blank
\* keeps the `{` of an Object literal apart from the one that opens an interpolation.
PartsFrom(p, kind, parts, at) ==
    LET token == Token(p, at)
    IN CASE token = "'" -> Parsed(FormattedString(kind, parts), at + 1)
         [] token \in {"{", "}"} /\ Token(p, at + 1) = token -> PartsFrom(p, kind, Append(parts, Part(token)), at + 2)
         [] token = "{" ->
              Then(Closed(p, Expression(p, IF Token(p, at + 1) = " " THEN at + 2 ELSE at + 1), "}"),
                   LAMBDA e, next : PartsFrom(p, kind, Append(parts, e), next))
         [] token \in {"}", "eof"} -> Failed
         [] OTHER -> PartsFrom(p, kind, Append(parts, Part(token)), at + 1)

IsLiteral(token) == token \in Numbers \cup {"true", "false", "None", "Unit"}
RECURSIVE Path(_, _, _)
Path(p, found, at) ==
    Then(Identifier(p, at), LAMBDA name, next :
        IF Token(p, next) = "::" THEN Path(p, Append(found, name), next + 1) ELSE Parsed(Append(found, name), next))
RECURSIVE Bindings(_, _, _)
Bindings(p, found, at) ==
    IF Token(p, at) = ")" THEN Parsed(found, at + 1)
    ELSE Then(Identifier(p, at), LAMBDA name, next :
             IF Token(p, next) = "," THEN Bindings(p, Append(found, name), next + 1)
             ELSE Closed(p, Parsed(Append(found, name), next), ")"))
MatchPattern(p, at) ==
    IF \/ IsLiteral(Token(p, at)) \/ Token(p, at) \in Strings
       \/ Token(p, at) = "-" /\ Token(p, at + 1) \in Numbers
    THEN Unary(p, at)
    ELSE IF Token(p, at) = "_" THEN Parsed(Wildcard, at + 1)
    ELSE Then(Path(p, <<>>, at), LAMBDA path, next :
             IF Len(path) = 1 THEN Failed
             ELSE Then(Optional(p, next, "(", <<>>, LAMBDA open : Bindings(p, <<>>, open)),
                       LAMBDA bindings, end : Parsed(Pattern(path, bindings), end)))
\* A body that starts with `{` is a block, any other an expression.
BodyOf(p, at) ==
    IF Token(p, at) = "{" THEN Braced(p, at)
    ELSE Then(Expression(p, at), LAMBDA e, next : Parsed(Braces(<<Value(e)>>, 0), next))
Arms(p, found, at) ==
    IF Token(p, at) = "}" THEN Parsed(found, at + 1)
    ELSE Then(Closed(p, MatchPattern(p, at), "=>"), LAMBDA pattern, open :
         Then(BodyOf(p, open), LAMBDA body, next :
             LET all == Append(found, Arm(pattern, body))
             IN IF Token(p, next) = "," THEN Arms(p, all, next + 1)
                ELSE Closed(p, Parsed(all, next), "}")))
TasksFrom(p, found, at) ==
    IF Token(p, at) = "}" THEN Parsed(ParallelStatic(found), at + 1)
    ELSE Then(Closed(p, Expression(p, at), ";"), LAMBDA e, next :
             TasksFrom(p, Append(found, Lambda(<<>>, Braces(<<Return(e)>>, 0))), next))
Parenthesized(p, at) ==
    LET closure == ClosureParameters(p, at)
    IN IF closure.at = 0 THEN Closed(p, Expression(p, at), ")")
       ELSE Then(closure, LAMBDA parameters, next :
            Then(BodyOf(p, next), LAMBDA body, end : Parsed(Lambda(parameters, body), end)))
Primary(p, at) ==
    LET token == Token(p, at)
    IN CASE IsLiteral(token) -> Parsed(Literal(<<token>>), at + 1)
         [] token \in Strings -> Parsed(Text(Unquoted(token)), at + 1)
         [] token \in {"f'", "f#'", "fd#'"} -> PartsFrom(p, token, <<>>, at + 1)
         [] IsIdentifier(token) -> Parsed(Variable(<<token>>), at + 1)
         [] token = "Error" ->
              Then(Expected(p, at + 1, "("), LAMBDA none, open :
              Then(Arguments(p, ")", open), LAMBDA es, next : Parsed(Call(<<"Error">>, es), next)))
         [] token = "Host" -> HostExpression(p, at + 1)
         [] token = "par" /\ Token(p, at + 1) = "{" -> TasksFrom(p, <<>>, at + 2)
         [] token = "par" /\ Token(p, at + 1) = "(" ->
              Then(Closed(p, Expression(p, at + 2), ")"), LAMBDA e, next : Parsed(ParallelDynamic(e), next))
         [] token = "match" ->
              Then(Closed(p, Expression(p, at + 1), "{"), LAMBDA e, open :
              Then(Arms(p, <<>>, open), LAMBDA arms, next : Parsed(Match(e, arms), next)))
         [] token = "[" -> Then(Arguments(p, "]", at + 1), LAMBDA es, next : Parsed(Operation("list", es), next))
         [] token = "{" -> Then(Properties(p, at + 1), LAMBDA t, next : Parsed(ObjectLiteral(t[1], t[2]), next))
         [] token = "(" -> Parenthesized(p, at + 1)
         [] OTHER -> Failed

\* --- Statements -----------------------------------------------------------------------------------
Placed(p, at, node) == [node EXCEPT !.span = Offset(p, at)]
Conditional(e, then, else) == [Node("If", <<>>, <<e>>) EXCEPT !.bodies = <<then>> \o else]
Loop(kind, x, types, e, body) == [Node(kind, x, <<e>>) EXCEPT !.types = types, !.bodies = <<body>>]
RECURSIVE Statement(_, _), Statements(_, _, _), If_(_, _)
Statements(p, found, at) ==
    IF Token(p, at) = "}" THEN Parsed(Braces(found, Offset(p, at)), at + 1)
    ELSE Then(Statement(p, at), LAMBDA s, next : Statements(p, Append(found, Placed(p, at, s)), next))
Braced(p, at) == Then(Expected(p, at, "{"), LAMBDA none, open : Statements(p, <<>>, open))
\* Else: nothing, a block with the place of its `{`, or the conditional after `else if`.
Else(p, at) ==
    IF Token(p, at) # "else" THEN Parsed(<<>>, at)
    ELSE IF Token(p, at + 1) = "if" THEN Then(If_(p, at + 2), LAMBDA s, next : Parsed(<<Braces(<<s>>, 0)>>, next))
    ELSE Then(Braced(p, at + 1), LAMBDA body, next : Parsed(<<[body EXCEPT !.name = <<Offset(p, at + 1)>>]>>, next))
If_(p, at) ==
    Then(Expression(p, at), LAMBDA e, then :
    Then(Braced(p, then), LAMBDA body, else :
    Then(Else(p, else), LAMBDA otherwise, next : Parsed(Conditional(e, body, otherwise), next))))
LetStatement(p, at) ==
    Then(Identifier(p, at), LAMBDA x, named :
    Then(Annotated(p, named), LAMBDA types, typed :
    Then(Optional(p, typed, "=", Literal(<<"None">>), LAMBDA value : Expression(p, value)), LAMBDA e, next :
        Closed(p, Parsed(Let(<<x>>, types, e), next), ";"))))
ForStatement(p, at) ==
    Then(Identifier(p, at), LAMBDA x, named :
    Then(Closed(p, Annotated(p, named), "in"), LAMBDA types, iterable :
    Then(Expression(p, iterable), LAMBDA e, open :
    Then(Braced(p, open), LAMBDA body, next : Parsed(Loop("For", <<x>>, types, e, body), next)))))
AssignmentTo(target, e) ==
    CASE target.is = "Variable" -> Assign(target.name, e)
      [] target.is = "Index" -> SetIndex(target.operands[1], target.operands[2], e)
      [] OTHER -> SetProperty(target.name, target.operands[1], e)
ExpressionStatement(p, at) ==
    Then(Expression(p, at), LAMBDA e, next :
        IF Token(p, next) # "=" THEN Closed(p, Parsed(Do(e), next), ";")
        ELSE IF e.is \notin {"Variable", "Index", "Property"} THEN Failed
        ELSE Then(Closed(p, Expression(p, next + 1), ";"), LAMBDA value, end :
                 Parsed(AssignmentTo(e, value), end)))
Statement(p, at) ==
    LET token == Token(p, at)
    IN CASE token = "{" -> Then(Braced(p, at), LAMBDA body, next :
                               Parsed([Scope(<<>>) EXCEPT !.bodies = <<body>>], next))
         [] token = "let" -> LetStatement(p, at + 1)
         [] token = "ret" /\ Token(p, at + 1) = ";" -> Parsed(Node("Return", <<>>, <<>>), at + 2)
         [] token = "ret" -> Then(Closed(p, Expression(p, at + 1), ";"), LAMBDA e, next : Parsed(Return(e), next))
         [] token = "if" -> If_(p, at + 1)
         [] token = "while" ->
              Then(Expression(p, at + 1), LAMBDA e, open :
              Then(Braced(p, open), LAMBDA body, next : Parsed(Loop("While", <<>>, <<>>, e, body), next)))
         [] token = "for" -> ForStatement(p, at + 1)
         [] token \in {"break", "continue"} -> Closed(p, Parsed(Node(token, <<>>, <<>>), at + 1), ";")
         [] OTHER -> ExpressionStatement(p, at)
===============================================================================
