------------------------------- MODULE MCUnits --------------------------------
(* Programs that TLC analyses and executes.  Calls: a form of call, the code *)
(* of what it calls, and two places around it.  Names: statements about one  *)
(* name in a function, a closure and a closure in it.  Ranges: uses of a     *)
(* Range before, in and after the loops over it.                             *)
EXTENDS Execution

Number == Literal(<<"1">>)
Function(n, parameters, block) == [name |-> n, parameters |-> parameters, types |-> <<>>, block |-> block, entry |-> FALSE]
Method(n, block) == Function(<<n>>, <<<<"self">>>>, block)
Implements(type, trait, methods) == [type |-> type, trait |-> trait, methods |-> methods]
Type(prelude, contains, texts, variants) ==
    [prelude |-> prelude, contains |-> contains, texts |-> texts, variants |-> variants]
Self == Variable(<<"self">>)
Name1(n) == Variable(<<n>>)

\* --- The prelude ----------------------------------------------------------------------------
StepDone == Return(Variable(<<"IteratorStep", "Done">>))
Each == Function(<<"__exs_list_each">>, <<<<"iterable">>, <<"callback">>>>,
            <<For(901, <<"item">>, <<>>, Name1("iterable"), <<Do(Call(<<"callback">>, <<Name1("item")>>))>>)>>)
Has == Function(<<"__exs_list_contains">>, <<<<"list">>, <<"value">>>>,
            <<For(902, <<"item">>, <<>>, Name1("list"), <<Do(Operation("Equal", <<Name1("item"), Name1("value")>>))>>)>>)
AreEqual == Function(EqualityHelper, <<<<"left">>, <<"right">>>>,
            <<Return(Operation("Equal", <<Operation("Index", <<Name1("left")>>), Operation("Index", <<Name1("right")>>)>>))>>)
Rendered == Function(RenderHelper, <<<<"value">>>>,
            <<Return(MethodCall(<<"to_string">>, <<Operation("Index", <<Name1("value")>>)>>))>>)
RangeOf(n) == Function(<<n>>, <<<<"start">>, <<"end">>>>, <<Return(Typed(<<"Range">>, <<>>))>>)
PreludeImplementations ==
    <<Implements(<<"Range">>, "", <<RangeOf("until"), RangeOf("through")>>),
      Implements(<<"Range">>, "Iterator",
                 <<Method("next", <<Do(Property(<<"end">>, Self)), SetProperty(<<"current">>, Self, Number), StepDone>>)>>),
      Implements(<<"HostStream">>, "Iterator", <<Method("next", <<Do(HostCall(<<Self>>)), StepDone>>)>>)>>
MCMethodHelpers ==
    (<<"each">> :> [key |-> Each.name, receivers |-> {"list", "nominal", "plain"}])
    @@ (<<"contains">> :> [key |-> Has.name, receivers |-> {"list"}])
    @@ (<<"to_string">> :> [key |-> RenderHelper, receivers |-> {"list", "nominal"}])
Types ==
    (<<"Item">> :> Type(FALSE, {<<"Part">>}, {<<"size">>}, {})) @@ (<<"Part">> :> Type(FALSE, {}, {<<"weight">>}, {}))
    @@ (<<"Other">> :> Type(FALSE, {}, {<<"size">>}, {})) @@ (<<"Color">> :> Type(FALSE, {}, {<<"Red">>}, {"Red"}))
    @@ (<<"Range">> :> Type(TRUE, {}, {<<"current">>, <<"end">>}, {}))
    @@ (StreamType :> Type(TRUE, {}, {}, {})) @@ (<<"Ordering">> :> Type(TRUE, {}, {<<"Less">>}, {"Less"}))
    @@ (<<"IteratorStep">> :> Type(TRUE, {}, {<<"Item">>, <<"Done">>}, {"Item", "Done"}))
Program(block, functions, implementations) ==
    [functions |-> <<[Function(<<"main">>, <<<<"input">>>>, block) EXCEPT !.entry = TRUE]>>
                   \o functions \o <<Each, Has, AreEqual, Rendered>>,
     implementations |-> implementations \o PreludeImplementations, types |-> Types]

\* --- Calls -----------------------------------------------------------------------------------
\* What is called at last: code that returns, suspends, or builds and tests values.
Suspend == Do(HostCall(<<Text("fetch")>>))
Endings == <<
    <<Return(Number)>>,
    <<Suspend, Return(Number)>>,
    <<Return(ParallelStatic(<<Closure(950, <<>>, <<>>, <<Return(Number)>>)>>))>>,
    <<Return(Typed(<<"Other">>, <<Number>>))>>,
    <<If(IsType(Number, <<<<"Other">>>>), <<Return(ObjectLiteral(<<"tag">>, <<Number>>))>>, <<>>)>>,
    <<Do(Call(<<"leaf">>, <<>>)), Return(Variable(<<"Color", "Red">>))>>,
    <<For(951, <<"chunk">>, <<>>, HostStream(<<>>), <<>>)>> >>
Item == Typed(<<"Item">>, <<Number>>)
Items == Operation("List", <<Item>>)
Ends(parameters, w) == Closure(952, parameters, <<>>, Endings[w])
Each1(e) == For(953, <<"x">>, <<>>, e, <<>>)
\* The forms of a call that reach the ending: statements at the place of the call, and the
\* functions and implementations of the program.
None(block) == [block |-> block, functions |-> <<>>, implementations |-> <<>>]
Calls(block, f) == [None(block) EXCEPT !.functions = <<f>>]
Has1(block, type, trait, method) == [None(block) EXCEPT !.implementations = <<Implements(type, trait, <<method>>)>>]
OfItem(block, trait, name, w) == Has1(block, <<"Item">>, trait, Method(name, Endings[w]))
Form(k, w) ==
    CASE k = 1 -> Calls(<<Do(Call(<<"f">>, <<>>))>>, Function(<<"f">>, <<>>, Endings[w]))
      [] k = 2 -> Has1(<<Do(StaticCall(<<"Item", "make">>, <<>>))>>, <<"Item">>, "", Function(<<"make">>, <<>>, Endings[w]))
      [] k = 3 -> OfItem(<<Do(MethodCall(<<"size">>, <<Item>>))>>, "", "size", w)
      [] k = 4 -> OfItem(<<Do(Operation("Add", <<Item, Number>>))>>, "Add", "add", w)
      [] k = 5 -> OfItem(<<Do(Operation("Less", <<Item, Item>>))>>, "Compare", "compare", w)
      [] k = 6 -> OfItem(<<Do(Operation("NotEqual", <<Item, Item>>))>>, "Compare", "compare", w)
      [] k = 7 -> OfItem(<<Do(Operation("Equal", <<Items, Items>>))>>, "Eq", "eq", w)
      [] k = 8 -> OfItem(<<Do(MethodCall(<<"contains">>, <<Items, Item>>))>>, "Eq", "eq", w)
      [] k = 9 -> OfItem(<<Do(Formatted(<<Item>>))>>, "ToString", "to_string", w)
      [] k = 10 -> OfItem(<<Do(Formatted(<<Items>>))>>, "ToString", "to_string", w)
      [] k = 11 -> OfItem(<<Each1(Item)>>, "Iterator", "next", w)
      [] k = 12 -> OfItem(<<Do(MethodCall(<<"each">>, <<Item, Closure(954, <<<<"x">>>>, <<>>, <<>>)>>))>>, "Iterator", "next", w)
      [] k = 13 -> None(<<Do(MethodCall(<<"each">>, <<Items, Ends(<<<<"x">>>>, w)>>))>>)
      [] k = 14 -> None(<<Let(<<"c">>, <<>>, Ends(<<>>, w)), Do(Call(<<"c">>, <<>>))>>)
      [] k = 15 -> None(<<Do(ParallelStatic(<<Ends(<<>>, w)>>))>>)
      [] k = 16 -> None(<<Let(<<"c">>, <<>>, Ends(<<>>, w)), Do(ParallelStatic(<<Name1("c")>>))>>)
      [] k = 17 -> None(<<Do(ParallelDynamic(Operation("List", <<Ends(<<>>, w)>>)))>>)
      [] k = 18 -> Calls(<<Let(<<"c">>, <<>>, Call(<<"f">>, <<>>)), Do(Call(<<"c">>, <<>>))>>,
                         Function(<<"f">>, <<>>, <<Return(Ends(<<>>, w))>>))
      [] k = 19 -> OfItem(<<Do(Call(<<"assert_eq">>, <<Items, Items>>))>>, "Eq", "eq", w)
      [] k = 20 -> [Calls(<<Do(MethodCall(<<"size">>, <<Call(<<"f">>, <<>>)>>))>>,
                          Function(<<"f">>, <<>>, <<If(Number, <<Return(Item)>>, <<Return(Typed(<<"Other">>, <<>>))>>)>>))
                    EXCEPT !.implementations = <<Implements(<<"Item">>, "", <<Method("size", <<Return(Number)>>)>>),
                                                 Implements(<<"Other">>, "", <<Method("size", Endings[w])>>)>>]
      [] k = 21 -> OfItem(<<Let(<<"x">>, <<<<"Item">>>>, Item), Do(Property(<<"size">>, Name1("x"))),
                            SetProperty(<<"extent">>, Name1("x"), MethodCall(<<"size">>, <<Name1("x")>>))>>, "", "size", w)
      [] k = 22 -> None(<<Let(<<"c">>, <<>>, Ends(<<>>, w)),
                          Do(Match(Call(<<"Color", "Red">>, <<Name1("c")>>),
                                   <<Body(<<"Color">>, <<>>, <<<<"held">>>>, <<Do(Call(<<"held">>, <<>>))>>)>>))>>)
\* A place around a call: `block` happens there, and what the place adds to the program.
Around(k, form, s) ==
    LET block == form.block IN
    CASE k = 1 -> form
      [] k = 2 -> [form EXCEPT !.block = <<Do(Call(<<"g" \o ToString(s)>>, <<>>))>>,
                               !.functions = Append(@, Function(<<"g" \o ToString(s)>>, <<>>, block))]
      [] k = 3 -> [form EXCEPT !.block = <<Let(<<"k">>, <<>>, Closure(s, <<>>, <<>>, block)), Do(Call(<<"k">>, <<>>))>>]
      [] k = 4 -> [form EXCEPT !.block = <<Do(MethodCall(<<"go">>, <<Typed(<<"Part">>, <<>>)>>))>>,
                               !.implementations = Append(@, Implements(<<"Part">>, "", <<Method("go", block)>>))]
      [] k = 5 -> [form EXCEPT !.block = <<Do(Match(Number, <<Body(<<>>, <<>>, <<>>, block)>>))>>]
      [] k = 6 -> [form EXCEPT !.block = <<While(Number, <<If(Number, block, <<>>)>>)>>]
      [] k = 7 -> [form EXCEPT !.block = <<Do(ParallelStatic(<<Closure(s, <<>>, <<>>, block)>>))>>]
      [] k = 8 -> [form EXCEPT !.block = <<For(s, <<"x">>, <<>>, Name1("input"), <<Scope(block)>>)>>,
                               !.functions = Append(@, Function(<<"leaf">>, <<>>, <<Suspend>>))]
      [] k = 9 -> [form EXCEPT !.block = <<Do(MethodCall(<<"each">>, <<Items, Closure(s, <<<<"x">>>>, <<>>, block)>>))>>]
Leaf1 == Function(<<"leaf">>, <<>>, <<Suspend>>)
Unused == Function(<<"unused">>, <<>>, <<Suspend, Return(Typed(<<"Other">>, <<>>))>>)
CallProgram(k, w, inner, outer) ==
    LET form == Around(outer, Around(inner, Form(k, w), 961), 962)
    IN Program(form.block, form.functions \o <<Leaf1, Unused>>, form.implementations)
Closures == {3, 9}
InClosure(inner, outer) == inner \in Closures \/ (inner \in {1, 5, 6, 8} /\ outer \in Closures)
InMatch(inner, outer) == inner = 5 \/ (inner \in {1, 6, 8} /\ outer = 5)
\* The loops of a closure over a type whose next suspends.
IteratesInClosure(c) == c[2] = 11 /\ c[3] \in {2, 3, 6, 7} /\ InClosure(c[4], c[5])
AllCalls == {1} \X (1..22) \X (1..7) \X (1..9) \X {1, 3, 7}
\* A property is set inside a block of a match arm.
SetsInArm(c) == c[2] = 21 /\ InMatch(c[4], c[5])
CallKeys == {c \in AllCalls : ~IteratesInClosure(c) /\ ~SetsInArm(c)}

\* --- Names -----------------------------------------------------------------------------------
X == Name1("x")
About(k) == <<
    <<>>,
    <<Let(<<"x">>, <<>>, Number)>>,
    <<Do(X)>>,
    <<Assign(<<"x">>, Number)>>,
    <<Scope(<<Let(<<"x">>, <<>>, Number), Do(X)>>)>>,
    <<For(970, <<"x">>, <<>>, X, <<Do(Name1("z"))>>)>> >>[k]
NameProgram(a, b, parameters, c, d, e) ==
    LET inner == Closure(971, <<>>, <<>>, About(c) \o About(d) \o <<Do(Name1("z"))>>)
        outer == Closure(972, parameters, <<>>,
                         About(b) \o <<Let(<<"k">>, <<>>, inner), Do(Call(<<"k">>, <<>>))>> \o About(e))
    IN Program(<<Let(<<"z">>, <<>>, Number), Let(<<"x">>, <<>>, Number), Let(<<"f">>, <<>>, outer)>> \o About(a)
               \o <<Do(Call(<<"f">>, <<Number>>)), Do(X)>>, <<>>, <<>>)
NameKeys == {2} \X (1..2) \X (1..5) \X (1..2) \X (1..6) \X (2..4) \X (1..4)

\* --- Ranges ----------------------------------------------------------------------------------
R == Name1("r")
NewRange == StaticCall(<<"Range", "until">>, <<Number, Number>>)
End(e) == Do(Property(<<"end">>, e))
Uses(k, s) == <<
    <<>>,
    <<End(R)>>,
    <<For(s, <<"y">>, <<>>, R, <<>>)>>,
    <<Let(<<"c">>, <<>>, Closure(s, <<>>, <<>>, <<End(R)>>)), Do(Call(<<"c">>, <<>>))>>,
    <<Do(Call(<<"end">>, <<R>>))>>,
    <<Let(<<"t">>, <<>>, R), End(Name1("t"))>>,
    <<Assign(<<"r">>, NewRange)>>,
    <<Let(<<"r">>, <<>>, NewRange), End(R)>>,
    <<If(Number, <<Return(Number)>>, <<SetProperty(<<"end">>, R, Number)>>)>>,
    <<Do(MethodCall(<<"to_string">>, <<Operation("List", <<R>>)>>)), Suspend>>,
    <<Do(Call(<<"c">>, <<>>))>> >>[k]
RangeProgram(place, a, b, c) ==
    LET block == <<Let(<<"r">>, <<>>, NewRange)>> \o Uses(a, 981)
                 \o <<For(982, <<"x">>, <<>>, R, Uses(b, 983))>> \o Uses(c, 984)
        form == Around(place, None(block), 985)
    IN Program(form.block, form.functions \o <<Function(<<"end">>, <<<<"q">>>>, <<End(Name1("q"))>>)>>, form.implementations)
RangeKeys == {3} \X {1} \X (1..10) \X (1..10) \X {1, 2, 3, 6, 7}
             \cup {3} \X {3} \X {1, 4} \X (1..10) \X {1, 2, 7} \cup {3} \X {1, 3} \X {4} \X {11} \X {1, 2}

MCCaseKeys == CallKeys \cup NameKeys \cup RangeKeys
MCProgramOf(c) ==
    CASE c[1] = 1 -> CallProgram(c[2], c[3], c[4], c[5])
      [] c[1] = 2 -> NameProgram(c[2], c[3], IF c[4] = 1 THEN <<>> ELSE <<<<"x">>>>, c[5], c[6], c[7])
      [] c[1] = 3 -> RangeProgram(c[2], c[3], c[4], c[5])
\* The cases left out of CallKeys: loops of closures, and properties set in a block of a match arm.
ClosureCaseKeys == {c \in AllCalls : IteratesInClosure(c)}
ArmCaseKeys == {c \in AllCalls : SetsInArm(c)}
===============================================================================
