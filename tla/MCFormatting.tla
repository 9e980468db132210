----------------------------- MODULE MCFormatting -----------------------------
(* Sources that TLC formats.  Expressions: every form inside every other,    *)
(* with and without parentheses, and every form in every statement.          *)
(* Layout: pairs of declarations and a function's blocks with comments and   *)
(* blank lines in their gaps.                                                *)
EXTENDS Formatting

MCNames == {"x", "y", "k", "m", "f", "P", "E", "A", "B", "T", "Range", "until", "through", "Int", "List", "_"}
MCNumbers == {"1", "2.5", "b'k'"}
MCTexts == {"k", "a b", "host.sleep"}
MCPlain == {"// c", "// d"}
MCDocumentation == {"/// a", "/// b"}

\* `template` with every "@" replaced by the next of `fillings`.
RECURSIVE Filled(_, _)
Filled(template, fillings) ==
    LET at == SelectInSeq(template, LAMBDA t : t = "@")
    IN IF at = 0 THEN template
       ELSE SubSeq(template, 1, at - 1) \o Head(fillings)
            \o Filled(SubSeq(template, at + 1, Len(template)), Tail(fillings))
Parenthesized_(tokens) == <<"(">> \o tokens \o <<")">>

\* Forms with one operand, "@".
Forms ==
    <<<<"@">>, <<"@", "+", "y">>, <<"y", "-", "@">>, <<"@", "*", "y">>, <<"y", "/", "@">>,
      <<"@", "<", "y">>, <<"y", ">=", "@">>, <<"@", "==", "y">>, <<"y", "!=", "@">>,
      <<"@", "&&", "y">>, <<"y", "&&", "@">>, <<"@", "||", "y">>, <<"y", "||", "@">>,
      <<"@", "is", "Int", "|", "List", "<", "E", "::", "A", ">">>, <<"@", "..", "y">>, <<"y", "..=", "@">>,
      <<"-", "@">>, <<"!", "@">>, <<"@", "?">>, <<"@", ".", "k">>, <<"@", ".", "m", "(", "y", ",", ")">>,
      <<"@", "[", "y", "]">>, <<"y", "[", "@", "]">>, <<"f", "(", "@", ",", "y", ")">>,
      <<"[", "@", ",", "y", ",", "]">>, <<"P", "{", "k", ":", "@", ",", "'a b'", ":", "y", "}">>,
      <<"P", "::", "m", "(", "@", ")">>, <<"E", "::", "A", "(", "@", ")">>, <<"Error", "(", "@", ")">>,
      <<"(", ")", "=>", "@">>, <<"(", "x", ":", "Int", ",", "y", "...", ")", "=>", "{", "ret", "@", ";", "}">>,
      <<"match", "@", "{", "E", "::", "A", "=>", "x", ",", "_", "=>", "{", "ret", ";", "}", ",", "}">>,
      <<"match", "y", "{", "E", "::", "A", "(", "x", ")", "=>", "@", ",", "-", "1", "=>", "y", "}">>,
      <<"par", "{", "@", ";", "y", ";", "}">>, <<"par", "(", "@", ")">>,
      <<"Host", "::", "call", "(", "@", ",", "y", ")">>, <<"Host", "::", "sleep", "(", "@", ")">>,
      <<"Host", "::", "stream", "(", "@", ")">>, <<"f'", "k", "{", "@", "}", "{", "{", "'">>>>
ShapeOf ==
    ("e < y" :> <<"@", "<", "y">>) @@ ("e is T" :> <<"@", "is", "Int", "|", "List", "<", "E", "::", "A", ">">>)
    @@ ("-e" :> <<"-", "@">>) @@ ("!e" :> <<"!", "@">>) @@ ("e.k" :> <<"@", ".", "k">>)
    @@ ("e[y]" :> <<"@", "[", "y", "]">>) @@ ("() => e" :> <<"(", ")", "=>", "@">>)
    @@ ("() => {}" :> <<"(", "x", ":", "Int", ",", "y", "...", ")", "=>", "{", "ret", "@", ";", "}">>)
    @@ ("match arm" :> <<"match", "y", "{", "E", "::", "A", "(", "x", ")", "=>", "@", ",", "-", "1", "=>", "y", "}">>)
    @@ ("f-string" :> <<"f'", "k", "{", "@", "}", "{", "{", "'">>)
Shape(name) == SelectInSeq(Forms, LAMBDA form : form = ShapeOf[name])
\* Operands.
Leaves ==
    <<<<"x">>, <<"1">>, <<"E", "::", "A">>, <<"P", "{", "}">>, <<"{", "'k'", ":", "x", "}">>, <<"'k'">>,
      <<"Host", "::", "now", "(", ")">>, <<"(", ")", "=>", "{", "}">>>>
\* Places of an expression in a statement, and the statements without one.
Statements_ ==
    <<<<"ret", "@", ";">>, <<"let", "x", "=", "@", ";">>, <<"@", ";">>, <<"x", "=", "@", ";">>,
      <<"x", ".", "k", "=", "@", ";">>, <<"x", "[", "@", "]", "=", "y", ";">>, <<"@", "=", "y", ";">>,
      <<"if", "@", "{", "ret", ";", "}", "else", "if", "y", "{", "}", "else", "{", "x", ";", "}">>,
      <<"while", "@", "{", "}">>, <<"for", "x", "in", "@", "{", "continue", ";", "}">>,
      <<"{", "@", ";", "}">>, <<"let", "x", ";", "@", ";">>>>
InFunction(tokens) == <<"fn", "f", "(", ")", "{">> \o tokens \o <<"}">>
Types_ == <<"type", "P", "{", "}", "\n", "\n">>
InClosure(tokens) == <<"let", "f", "=", "(", ")", "=>", "{">> \o tokens \o <<"}", ";">>

Wrapped(tokens, way) == IF way = 1 THEN tokens ELSE Parenthesized_(tokens)
ExpressionOf(outer, way, inner, leaf) ==
    Filled(Forms[outer], <<Wrapped(Filled(Forms[inner], <<Leaves[leaf]>>), way)>>)
\* A case is <<outer, way, inner, leaf, statement, closure>>: every form in every form, every form
\* of every leaf, with and without parentheses, in every statement, every closure that answers a
\* form of a leaf, and every form in every statement of a closure's block.
Ways == {1, 2}
ExpressionCases ==
    (DOMAIN Forms) \X Ways \X (DOMAIN Forms) \X {1} \X {1} \X {FALSE}
    \cup {1} \X Ways \X (DOMAIN Forms) \X (DOMAIN Leaves) \X (DOMAIN Statements_) \X {FALSE}
    \cup (DOMAIN Forms) \X Ways \X {1} \X (DOMAIN Leaves) \X (DOMAIN Statements_) \X {FALSE}
    \cup {Shape("() => e")} \X Ways \X (DOMAIN Forms) \X (DOMAIN Leaves) \X {1} \X {FALSE}
    \cup {Shape("e.k"), Shape("e[y]")} \X Ways \X (DOMAIN Forms) \X {1} \X {7} \X {FALSE}
    \cup {1} \X {1} \X (DOMAIN Forms) \X {1} \X (DOMAIN Statements_) \X {TRUE}
ExpressionSource(c) ==
    LET tokens == Filled(Statements_[c[5]], <<ExpressionOf(c[1], c[2], c[3], c[4])>>)
    IN Types_ \o InFunction(IF c[6] THEN InClosure(tokens) ELSE tokens)

\* What the formatter is known to write so that it does not parse or means something else.
\* An Object literal that comes first where a block, a name or `{{` would be read.
Leads(c) == Head(Forms[c[3]]) = "@"
ObjectFirst(c) ==
    /\ Leaves[c[4]] = <<"{", "'k'", ":", "x", "}">>
    /\ \/ {c[1], c[3]} \cap {Shape("match arm"), Shape("f-string")} # {} /\ (c[3] = 1 \/ c[1] = 1 \/ Leads(c))
       \/ c[1] = Shape("() => e") /\ c[3] # 1 /\ Leads(c)
       \/ Leads(c) /\ Head(Forms[c[1]]) = "@" /\ c[5] \in {3, 7, 11, 12}
\* `(x is T) < y` and `(x is T) is U`
TestOfTest(c) == c[1] \in {Shape("e < y"), Shape("e is T")} /\ c[3] = Shape("e is T")
\* `(a + b).k = y`
Unassignable == {i \in DOMAIN Forms : Len(Forms[i]) > 1 /\ Forms[i][2] \in DOMAIN Strengths \cup {"is"}}
                 \cup {Shape("-e"), Shape("!e"), Shape("() => e"), Shape("() => {}")}
                 \cup {i \in DOMAIN Forms : Forms[i] \in {<<"y", t, "@">> : t \in DOMAIN Strengths}}
Receiver(c) == c[5] = 7 /\ c[1] \in {Shape("e.k"), Shape("e[y]")} /\ c[3] \in Unassignable
\* `while (y == E::A) {}`
NameBeforeBraces(c) ==
    Leaves[c[4]] = <<"E", "::", "A">> /\ c[5] = 9 /\ Last(Forms[c[1]]) = "@" /\ Last(Forms[c[3]]) = "@"
Mistaken(c) == ObjectFirst(c) \/ TestOfTest(c) \/ Receiver(c) \/ NameBeforeBraces(c)
FaithfulCases == {c \in ExpressionCases : ~Mistaken(c)}

\* Bindings with an annotation, in a function and in a closure's block.
AnnotatedStatements ==
    <<<<"let", "x", ":", "Int", "=", "y", ";">>, <<"let", "x", ":", "Int", "|", "List", "<", "P", ">", ";">>,
      <<"for", "x", ":", "Int", "in", "y", "{", "}">>>>
AnnotatedCases == (DOMAIN AnnotatedStatements) \X BOOLEAN
AnnotatedSource(c) ==
    InFunction(IF c[2] THEN InClosure(AnnotatedStatements[c[1]]) ELSE AnnotatedStatements[c[1]])

\* --- Layout -----------------------------------------------------------------------------------------
Declarations_ ==
    <<<<"const", "k", "=", "1", ";">>, <<"private", "const", "m", "=", "'k'", ";">>,
      <<"type", "P", "{", "@", "}">>, <<"type", "P", "{", "@", "k", ":", "Int", ",", "@", "x", "@", "}">>,
      <<"enum", "E", "{", "@", "A", ",", "@", "B", "(", "k", ",", "x", ":", "Int", ",", ")", "@", "}">>,
      <<"trait", "T", "{", "@", "fn", "m", "(", "x", ",", ")", ";", "@", "fn", "f", "(", ")", "->", "Int", "{", "@", "}", "@", "}">>,
      <<"impl", "E", "{", "@", "private", "fn", "m", "(", ")", "{", "ret", ";", "}", "@", "fn", "f", "(", ")", "{", "}", "@", "}">>,
      <<"impl", "T", "for", "P", "{", "@", "fn", "m", "(", "x", "...", ")", "{", "}", "@", "}">>,
      <<"fn", "f", "(", "x", ":", "Int", ")", "{", "@", "ret", "x", ";", "@", "}">>,
      <<"fn", "m", "(", ")", "{", "@", "if", "x", "{", "@", "}", "@", "else", "{", "@", "y", ";", "}", "@", "{", "@", "}", "}">>,
      <<"test", "'a b'", "{", "@", "}">>>>
Preludes ==
    <<<<>>, <<"import", "'k'", ";", "\n">>, <<"import", "'k'", "as", "k", ";", "\n", "use", "x", "::", "E", "as", "T", ";", "\n">>,
      <<"use", "k", "::", "{", "x", ",", "y", "as", "P", ",", "}", ";", "@", "use", "f", ";", "@", "import", "'k'", ";", "\n">>>>
Gaps == <<<<>>, <<"\n">>, <<"\n", "\n">>, <<"\n", "// c", "\n">>, <<"\n", "/// a", "\n">>, <<"// d", "\n">>,
          <<"\n", "\n", "/// a", "\n", "/// b", "\n", "\n">>, <<"\n", "// d", "\n", "\n", "/// a", "\n">>,
          <<"\n", "/// a", "\n", "// c", "\n", "\n", "\n">>>>
NoGaps == [i \in 1..6 |-> <<>>]
Plainly(declaration) == Filled(Declarations_[declaration], NoGaps)
\* <<prelude, first, second, gap, gap>>: the gaps around two declarations.
LayoutCases ==
    {1} \X (DOMAIN Declarations_) \X (DOMAIN Declarations_) \X (DOMAIN Gaps) \X (DOMAIN Gaps)
    \cup (DOMAIN Preludes) \X (DOMAIN Declarations_) \X {1} \X (DOMAIN Gaps) \X (DOMAIN Gaps)
LayoutSource(c) ==
    Filled(Preludes[c[1]], <<Gaps[c[4]], Gaps[c[5]]>>)
    \o Gaps[c[4]] \o Plainly(c[2]) \o Gaps[c[5]] \o Plainly(c[3]) \o Gaps[c[4]]
\* <<declaration, gap, gap, place>>: two gaps inside a declaration, one after the other.
InsideCases == (DOMAIN Declarations_) \X (DOMAIN Gaps) \X (DOMAIN Gaps) \X (1..5)
InsideSource(c) ==
    Filled(Declarations_[c[1]],
           [i \in 1..6 |-> CASE i = c[4] -> Gaps[c[2]] [] i = c[4] + 1 -> Gaps[c[3]] [] OTHER -> <<>>])

MCCases == {"expression"} \X FaithfulCases \cup {"layout"} \X LayoutCases \cup {"inside"} \X InsideCases
MCSourceOf(c) ==
    CASE c[1] = "expression" -> ExpressionSource(c[2]) [] c[1] = "layout" -> LayoutSource(c[2])
      [] c[1] = "inside" -> InsideSource(c[2])
===============================================================================
