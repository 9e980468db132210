------------------------------ MODULE Formatting ------------------------------
(* The formatter of crates/exs-compiler: it parses a source, writes the      *)
(* module anew and replays the comments and blank lines it kept.             *)
(*                                                                           *)
(* A text is a sequence of tokens, comments and line feeds.  The formatter's *)
(* output is formatted again, and both times the module that is written is   *)
(* compared with the one that was read.  A writer w is [output, trivia, at]: *)
(* the text so far, what is waiting to be replayed and the next of it.       *)
(* Indentation and the spelling of literals and escapes are left out.        *)
EXTENDS Declarations

CONSTANTS Cases, SourceOf(_),  \* the sources to format
          PlainComments, DocumentationComments
VARIABLES source,   \* the source, as it was written
          text,     \* what is formatted: the source, then the formatter's own output
          module,   \* the module that was parsed
          writer,   \* the formatter's state
          next,     \* the declaration to write next
          pass,     \* 1 formats the source, 2 the output
          stage     \* "parse", "prelude", "write", "done" or "rejected"
vars == <<source, text, module, writer, next, pass, stage>>

LineFeed == "\n"
Comments == PlainComments \cup DocumentationComments
\* --- Lexing: tokens, comments and blank lines ------------------------------------------------------
TokenPlaces(t) == SelectSeq([i \in DOMAIN t |-> i], LAMBDA i : t[i] # LineFeed /\ t[i] \notin Comments)
TokensOf(t) == SelectSeq(t, LAMBDA token : token # LineFeed /\ token \notin Comments)
Parse(t) == ModuleOf(TokensOf(t), TokenPlaces(t))
IsBlankLine(t, i) == t[i] = LineFeed /\ (i = 1 \/ t[i - 1] = LineFeed)
Trivia(t) == SelectSeq([i \in DOMAIN t |-> i], LAMBDA i : t[i] \in Comments \/ IsBlankLine(t, i))

\* --- The writer -------------------------------------------------------------------------------------
NewWriter(t) == [output |-> <<>>, text |-> t, trivia |-> Trivia(t), at |-> 1]
Line(w, tokens) == [w EXCEPT !.output = @ \o tokens \o <<LineFeed>>]
Ends(w, suffix) == IsSuffix(suffix, w.output)
BlankLineAlways(w) == [w EXCEPT !.output = Append(@, LineFeed)]
BlankLine(w) == IF Ends(w, <<LineFeed, LineFeed>>) THEN w ELSE [w EXCEPT !.output = Append(@, LineFeed)]
Pending(w, place) == SelectSeq(SubSeq(w.trivia, w.at, Len(w.trivia)), LAMBDA i : i < place)
Discard(w, place) == [w EXCEPT !.at = @ + Len(Pending(w, place))]
\* A comment takes a line of its own; a blank line is kept, except at the very start.
Replay(w, i) ==
    IF w.text[i] \in Comments THEN Line(w, <<w.text[i]>>)
    ELSE IF w.output = <<>> THEN w
    ELSE [w EXCEPT !.output = @ \o IF Last(@) = LineFeed THEN <<LineFeed>> ELSE <<LineFeed, LineFeed>>]
ReplayComment(w, i) == IF w.text[i] \in Comments THEN Line(w, <<w.text[i]>>) ELSE w
TriviaBefore(w, place) == Discard(FoldLeft(Replay, w, Pending(w, place)), place)
CommentsBefore(w, place) == Discard(FoldLeft(ReplayComment, w, Pending(w, place)), place)
HasBefore(w, place, kinds) == \E i \in ToSet(Pending(w, place)) : w.text[i] \in kinds
Everything == 1000000

\* --- Expressions ------------------------------------------------------------------------------------
\* The sequences in ss with `separator` between them.
Joined(ss, separator) ==
    FlattenSeq([i \in DOMAIN ss |-> IF i = 1 THEN ss[i] ELSE separator \o ss[i]])
RECURSIVE Annotation(_)
TypeNameText(member) ==
    Joined([i \in DOMAIN member[1] |-> <<member[1][i]>>], <<"::">>)
    \o IF member[2] = <<>> THEN <<>> ELSE <<"<">> \o Annotation(member[2]) \o <<">">>
Annotation(types) == Joined([i \in DOMAIN types |-> TypeNameText(types[i])], <<"|">>)
Typing(types) == IF types = <<>> THEN <<>> ELSE <<":">> \o Annotation(types)
ParameterText(parameter) ==
    <<parameter.name>> \o Typing(parameter.types) \o IF parameter.variadic THEN <<"...">> ELSE <<>>
ParametersText(ps) == <<"(">> \o Joined([i \in DOMAIN ps |-> ParameterText(ps[i])], <<",">>) \o <<")">>
PathText(path) == Joined([i \in DOMAIN path |-> <<path[i]>>], <<"::">>)
\* A key that is spelled like an identifier needs no quotes.
LooksLikeIdentifier(key) == key \in Names \cup Keywords
KeyText(key) == <<IF LooksLikeIdentifier(key) THEN key ELSE Quoted(key)>>

Binding == [token \in DOMAIN Strengths |-> IF Strengths[token] > RangeStrength THEN Strengths[token] - 1 ELSE Strengths[token]]
PostfixKinds == {"Propagate", "Call", "MethodCall", "StaticMethodCall", "Index", "Property"}
\* Mutant: a closure is taken for a literal.
PrecedenceClosed(e) ==
    CASE e.is = "Operation" /\ Len(e.operands) = 2 /\ e.name # <<"list">> -> Binding[Head(e.name)]
      [] e.is = "IsType" -> 4
      [] e.is = "Operation" /\ e.name # <<"list">> -> 7
      [] e.is \in PostfixKinds -> 8
      [] OTHER -> 9
Precedence(e) ==
    CASE e.is = "Closure" -> 0
      [] e.is = "Operation" /\ Len(e.operands) = 2 /\ e.name # <<"list">> -> Binding[Head(e.name)]
      [] e.is = "IsType" -> 4
      [] e.is = "Operation" /\ e.name # <<"list">> -> 7
      [] e.is \in PostfixKinds -> 8
      [] OTHER -> 9

RECURSIVE Render(_), RenderAt(_, _), InlineStatement(_), InlineElse(_)
RenderAt(e, parent) == IF Precedence(e) < parent THEN <<"(">> \o Render(e) \o <<")">> ELSE Render(e)
RenderAll(es) == Joined([i \in DOMAIN es |-> Render(es[i])], <<",">>)
PropertiesText(o) ==
    <<"{">> \o Joined([i \in DOMAIN o.name |-> KeyText(o.name[i]) \o <<":">> \o Render(o.operands[i])], <<",">>) \o <<"}">>
InlineBlock(body) == <<"{">> \o FlattenSeq([i \in DOMAIN body.block |-> InlineStatement(body.block[i])]) \o <<"}">>
IsValue(body) == Len(body.block) = 1 /\ body.block[1].is = "Value"
TargetText(s) ==
    CASE s.is = "Assign" -> PathText(s.name)
      [] s.is = "AssignIndex" -> Render(s.operands[1]) \o <<"[">> \o Render(s.operands[2]) \o <<"]">>
      [] s.is = "AssignProperty" -> Render(s.operands[1]) \o <<".", Head(s.name)>>
\* The statements that are written alike on a line of their own and inside an inline block.
\* The annotation of a binding is not written.
Simple(s) ==
    CASE s.is = "Let" -> <<"let", Head(s.name), "=">> \o Render(s.operands[1]) \o <<";">>
      [] s.is \in {"Assign", "AssignIndex", "AssignProperty"} ->
           TargetText(s) \o <<"=">> \o Render(Last(s.operands)) \o <<";">>
      [] s.is = "Return" -> <<"ret">> \o RenderAll(s.operands) \o <<";">>
      [] s.is = "Expression" -> Render(s.operands[1]) \o <<";">>
      [] s.is \in {"break", "continue"} -> <<s.is, ";">>
\* What precedes the braces of a loop or conditional.
Opening(s) ==
    CASE s.is = "If" -> <<"if">> \o Render(s.operands[1])
      [] s.is = "While" -> <<"while">> \o Render(s.operands[1])
      [] s.is = "For" -> <<"for", Head(s.name), "in">> \o Render(s.operands[1])
      [] s.is = "Block" -> <<>>
IsCompound(s) == s.is \in {"If", "While", "For", "Block"}
IsElseIf(body) == body.close = 0 /\ body.block # <<>> /\ body.block[1].is = "If" /\ body.name = <<>>
InlineElse(bodies) ==
    IF Len(bodies) = 1 THEN <<>>
    ELSE <<"else">> \o IF IsElseIf(bodies[2]) THEN InlineStatement(bodies[2].block[1]) ELSE InlineBlock(bodies[2])
InlineStatement(s) ==
    IF IsCompound(s) THEN Opening(s) \o InlineBlock(s.bodies[1]) \o InlineElse(s.bodies) ELSE Simple(s)
ClosureText(e) ==
    LET body == e.bodies[1]
        value == body.block[1].operands[1]
    IN ParametersText(e.operands) \o <<"=>">>
       \o IF ~IsValue(body) THEN InlineBlock(body)
          ELSE IF value.is = "Object" THEN <<"(">> \o Render(value) \o <<")">>
          ELSE Render(value)
PatternText(pattern) ==
    CASE pattern.is = "Wildcard" -> <<"_">>
      [] pattern.is = "Variant" ->
           PathText(pattern.name)
           \o IF pattern.types = <<>> THEN <<>>
              ELSE <<"(">> \o Joined([i \in DOMAIN pattern.types |-> <<pattern.types[i]>>], <<",">>) \o <<")">>
      [] OTHER -> Render(pattern)
ArmText(arm) ==
    PatternText(arm.name) \o <<"=>">> \o IF IsValue(arm) THEN Render(arm.block[1].operands[1]) ELSE InlineBlock(arm)
\* A task of `par { ... }` is the closure the parser made of an expression.
TaskText(task) == Render(task.bodies[1].block[1].operands[1]) \o <<";">>
PartText(part) == IF part.is # "Part" THEN <<"{">> \o Render(part) \o <<"}">>
                  ELSE IF Head(part.name) \in {"{", "}"} THEN part.name \o part.name ELSE part.name
ArgumentsText(es) == <<"(">> \o RenderAll(es) \o <<")">>
Render(e) ==
    LET At(i) == RenderAt(e.operands[i], Precedence(e))
    IN CASE e.is = "Literal" -> e.name
         [] e.is = "String" -> <<Quoted(Head(e.name))>>
         [] e.is = "Variable" -> PathText(e.name)
         [] e.is = "FormattedString" ->
              e.name \o FlattenSeq([i \in DOMAIN e.operands |-> PartText(e.operands[i])]) \o <<"'">>
         [] e.is = "IsType" -> At(1) \o <<"is">> \o Annotation(e.types)
         [] e.is = "Propagate" -> At(1) \o <<"?">>
         [] e.is = "Operation" /\ e.name = <<"list">> -> <<"[">> \o RenderAll(e.operands) \o <<"]">>
         [] e.is = "Operation" /\ Len(e.operands) = 1 -> e.name \o At(1)
         [] e.is = "Operation" -> At(1) \o e.name \o RenderAt(e.operands[2], Precedence(e) + 1)
         [] e.is = "Object" -> PropertiesText(e)
         [] e.is = "TypedObject" -> PathText(e.name) \o PropertiesText(e.operands[1])
         [] e.is = "Match" ->
              <<"match">> \o Render(e.operands[1]) \o <<"{">>
              \o Joined([i \in DOMAIN e.bodies |-> ArmText(e.bodies[i])], <<",">>) \o <<"}">>
         [] e.is = "Closure" -> ClosureText(e)
         [] e.is = "ParallelStatic" ->
              <<"par", "{">> \o FlattenSeq([i \in DOMAIN e.operands |-> TaskText(e.operands[i])]) \o <<"}">>
         [] e.is = "ParallelDynamic" -> <<"par">> \o ArgumentsText(e.operands)
         [] e.is \in {"Call", "StaticMethodCall"} -> PathText(e.name) \o ArgumentsText(e.operands)
         [] e.is = "HostCall" -> <<"Host", "::", "call">> \o ArgumentsText(e.operands)
         [] e.is = "HostStream" -> <<"Host", "::", "stream">> \o ArgumentsText(e.operands)
         [] e.is = "HostTime" -> <<"Host", "::">> \o e.name \o ArgumentsText(e.operands)
         [] e.is = "MethodCall" -> At(1) \o <<".">> \o e.name \o ArgumentsText(Tail(e.operands))
         [] e.is = "Index" -> At(1) \o <<"[">> \o Render(e.operands[2]) \o <<"]">>
         [] e.is = "Property" -> At(1) \o <<".">> \o e.name

\* --- Statements --------------------------------------------------------------------------------------
RECURSIVE WriteAll(_, _), WriteStatement(_, _), WriteElse(_, _)
\* Mutant: a comment does not keep a block open.
HasNothing(w, body) == body.block = <<>>
HasOnlyBlanks(w, body) == body.block = <<>> /\ ~HasBefore(w, body.close, Comments)
WriteBlock(w, opening, body) ==
    IF HasOnlyBlanks(w, body) THEN Line(Discard(w, body.close), opening \o <<"{", "}">>)
    ELSE Line(TriviaBefore(WriteAll(Line(w, Append(opening, "{")), body.block), body.close), <<"}">>)
WriteElse(w, bodies) ==
    IF Len(bodies) = 1 THEN w
    ELSE IF IsElseIf(bodies[2])
         THEN LET s == bodies[2].block[1]
              IN WriteElse(WriteBlock(w, <<"else">> \o Opening(s), s.bodies[1]), s.bodies)
    ELSE WriteBlock(TriviaBefore(w, Head(bodies[2].name)), <<"else">>, bodies[2])
WriteStatement(w, s) ==
    IF IsCompound(s) THEN WriteElse(WriteBlock(w, Opening(s), s.bodies[1]), s.bodies) ELSE Line(w, Simple(s))
WriteAll(w, block) ==
    IF block = <<>> THEN w
    ELSE WriteAll(WriteStatement(TriviaBefore(w, Head(block).span), Head(block)), Tail(block))

\* --- Declarations ------------------------------------------------------------------------------------
Visibility(d) == IF d.private THEN <<"private">> ELSE <<>>
HeaderText(header) ==
    <<"fn", header.name>> \o ParametersText(header.parameters)
    \o IF header.result = <<>> THEN <<>> ELSE <<"->">> \o Annotation(header.result)
WriteFunction(w, d) ==
    IF d.is = "signature" THEN Line(w, Append(HeaderText(d.header), ";"))
    ELSE WriteBlock(w, Visibility(d) \o HeaderText(d.header), d.body)
FieldText(field) == <<field.name>> \o Typing(field.types)
VariantText(variant) ==
    <<variant.name>>
    \o IF variant.fields = <<>> THEN <<>>
       ELSE <<"(">> \o Joined([i \in DOMAIN variant.fields |-> FieldText(variant.fields[i])], <<",">>) \o <<")">>
WriteField(w, field) == Line(TriviaBefore(w, field.start), FieldText(field) \o <<",">>)
WriteVariant(w, variant) == Line(TriviaBefore(w, variant.start), VariantText(variant) \o <<",">>)
\* Methods are a blank line apart.
WriteMethod(w, d, i) ==
    LET method == d.members[i]
        replayed == TriviaBefore(w, method.start)
    IN WriteFunction(IF i > 1 THEN BlankLine(replayed) ELSE replayed, method)
Closing(w, d) == Line(TriviaBefore(w, d.close), <<"}">>)
\* A declaration with its members in braces; an empty type or enum takes one line.
WriteMembers(w, opening, d) ==
    LET opened == Line(w, Append(opening, "{"))
    IN CASE d.is \in {"type", "enum"} /\ d.members = <<>> -> Line(w, opening \o <<"{", "}">>)
         [] d.is = "type" -> Closing(FoldLeft(WriteField, opened, d.members), d)
         [] d.is = "enum" -> Closing(FoldLeft(WriteVariant, opened, d.members), d)
         [] OTHER -> Closing(FoldLeft(LAMBDA a, i : WriteMethod(a, d, i), opened, [i \in DOMAIN d.members |-> i]), d)
ImplText(d) == <<"impl">> \o (IF d.trait = <<>> THEN <<>> ELSE Append(PathText(d.trait), "for")) \o PathText(d.name)
WriteDeclaration(w, d) ==
    CASE d.is = "const" -> Line(w, Visibility(d) \o <<"const", d.name, "=">> \o Render(d.members[1]) \o <<";">>)
      [] d.is = "fn" -> WriteFunction(w, d)
      [] d.is = "test" -> WriteBlock(w, <<"test", d.name>>, d.body)
      [] d.is = "impl" -> WriteMembers(w, ImplText(d), d)
      [] OTHER -> WriteMembers(w, Visibility(d) \o <<d.is, d.name>>, d)

\* --- Modules -----------------------------------------------------------------------------------------
AliasText(alias) == IF alias = "" THEN <<>> ELSE <<"as", alias>>
ItemText(item) == <<item.name>> \o AliasText(item.alias)
ImportText(i) == <<"import", i.path>> \o AliasText(i.alias) \o <<";">>
UseText(u) ==
    LET items == Joined([i \in DOMAIN u.items |-> ItemText(u.items[i])], <<",">>)
        suffix == IF Len(u.items) = 1 THEN items ELSE <<"{">> \o items \o <<"}">>
    IN <<"use">> \o (IF u.namespace = <<>> THEN suffix ELSE Append(PathText(u.namespace), "::") \o suffix) \o <<";">>
WriteImport(w, i) == Line(TriviaBefore(w, i.start), ImportText(i))
WriteUse(w, u) == Line(TriviaBefore(w, u.start), UseText(u))
HasPrelude == module.imports # <<>> \/ module.uses # <<>>
\* Constants one after the other are a group; other declarations are a blank line apart.
Grouped == next > 1 /\ module.declarations[next].is = "const" /\ module.declarations[next - 1].is = "const"
NeedsSeparator == (HasPrelude \/ next > 1) /\ ~Grouped
\* Documentation stays right above the declaration; other comments keep their place.
Lead(w, d) ==
    IF HasBefore(w, d.start, DocumentationComments)
    THEN CommentsBefore(IF NeedsSeparator THEN BlankLine(w) ELSE w, d.start)
    ELSE LET replayed == TriviaBefore(w, d.start) IN IF NeedsSeparator THEN BlankLine(replayed) ELSE replayed

\* --- Formatting --------------------------------------------------------------------------------------
Init ==
    /\ \E c \in Cases : source = SourceOf(c)
    /\ text = source /\ module = <<>> /\ writer = NewWriter(<<>>)
    /\ next = 1 /\ pass = 1 /\ stage = "parse"

\* A source with mistakes is not formatted.
ParseText ==
    /\ stage = "parse"
    /\ \E parsed \in {Parse(text)} :
           \/ parsed.at = 0 /\ stage' = "rejected" /\ UNCHANGED module
           \/ parsed.at # 0 /\ stage' = "prelude" /\ module' = parsed.tree
    /\ UNCHANGED <<source, text, writer, next, pass>>
WritePrelude ==
    /\ stage = "prelude"
    /\ writer' = FoldLeft(WriteUse, FoldLeft(WriteImport, NewWriter(text), module.imports), module.uses)
    /\ next' = 1 /\ stage' = "write"
    /\ UNCHANGED <<source, text, module, pass>>
WriteNext ==
    /\ stage = "write" /\ next <= Len(module.declarations)
    /\ LET d == module.declarations[next] IN writer' = WriteDeclaration(Lead(writer, d), d)
    /\ next' = next + 1
    /\ UNCHANGED <<source, text, module, pass, stage>>
Finish ==
    /\ stage = "write" /\ next > Len(module.declarations)
    /\ writer' = TriviaBefore(writer, Everything)
    /\ stage' = "done"
    /\ UNCHANGED <<source, text, module, next, pass>>
FormatAgain ==
    /\ stage = "done" /\ pass = 1
    /\ text' = writer.output /\ pass' = 2 /\ stage' = "parse"
    /\ UNCHANGED <<source, module, writer, next>>
Next == ParseText \/ WritePrelude \/ WriteNext \/ Finish \/ FormatAgain
Spec == Init /\ [][Next]_vars

\* --- Properties --------------------------------------------------------------------------------------
\* What the formatter wrote parses, to the module the source declares: every pair of
\* parentheses, brace and quote it leaves out was not needed (formatter.rs).
MeaningKept ==
    pass = 2 /\ stage = "parse" =>
        LET meaning == [t \in {text, source} |-> Meaning(TokensOf(t))]
        IN meaning[text].at # 0 /\ meaning[text].tree = meaning[source].tree
\* Formatting what the formatter wrote changes nothing (tests/compiler/formatter.rs).
Stable == pass = 2 /\ stage = "done" => writer.output = text

\* The documentation comment right above a place, which blank lines may separate from it.
RECURSIVE DocumentationUpTo(_, _, _)
DocumentationUpTo(t, end, found) ==
    LET start == SelectLastInSubSeq(t, 1, end, LAMBDA x : x = LineFeed)
        line == SubSeq(t, start + 1, end)
    IN CASE line = <<>> /\ found = <<>> /\ start > 0 -> DocumentationUpTo(t, start - 1, found)
         [] line # <<>> /\ Head(line) \in DocumentationComments /\ start > 0 ->
              DocumentationUpTo(t, start - 1, line \o found)
         [] line # <<>> /\ Head(line) \in DocumentationComments -> line \o found
         [] OTHER -> found
\* The places of the declarations, variants and methods that may be documented.
Places(m) ==
    FlattenSeq([i \in DOMAIN m.declarations |->
        LET d == m.declarations[i]
        IN <<d.start>> \o IF d.is = "const" THEN <<>> ELSE [j \in DOMAIN d.members |-> d.members[j].start]])
DocumentationOf(t, m) ==
    LET places == Places(m)
    IN [i \in DOMAIN places |-> DocumentationUpTo(t, places[i] - 1, <<>>)]
CommentsOf(t) == SelectSeq(t, LAMBDA x : x \in Comments)
\* No comment is lost or reordered, and what documented a declaration, a variant or a method
\* still documents it (formatter_trivia.rs, documentation/shared.rs).
CommentsKept ==
    pass = 2 /\ stage = "prelude" =>
        /\ CommentsOf(text) = CommentsOf(source)
        /\ DocumentationOf(text, module) = DocumentationOf(source, Parse(source).tree)
===============================================================================
