----------------------------- MODULE MCStepping -----------------------------
(* Small programs for Stepping: every operand position of every compound    *)
(* expression with operands that have effects, rebind a binding, suspend or *)
(* leave the function; and loops whose bodies are left in every way.        *)
EXTENDS Stepping

L(n) == Literal(Num(n))
V(x) == Variable(x)
Record(e) == Apply("record", <<e>>)
Host(e) == Apply("host", <<e>>)
Plus(a, b) == Apply("add", <<a, b>>)
Less(a, b) == Apply("less", <<a, b>>)
ListOf(es) == Apply("list", es)
Otherwise(body) == Arm(Wildcard, body)

\* Units the examined expressions call; `y` is captured, so it lives in a Cell.
Helpers == [
    bump |-> Unit(<<>>, <<"y">>, "Any", FALSE,
                  <<Assign("y", Plus(V("y"), L(10))), Return(V("y"))>>),
    slow |-> Unit(<<>>, <<"y">>, "Any", TRUE,
                  <<Assign("y", Host(V("y"))), Assign("y", L(20)), Return(V("y"))>>),
    child |-> Unit(<<"p">>, <<>>, "Any", TRUE, <<Do(Host(V("p"))), Return(Plus(V("p"), L(1)))>>),
    broken |-> Unit(<<"p">>, <<>>, "Int", TRUE, <<Return(ListOf(<<Host(V("p"))>>))>>),
    direct |-> Unit(<<"p">>, <<>>, "Int", FALSE,
                    <<If(Less(V("p"), L(2)), <<Return(Record(V("p")))>>, <<>>), Do(Record(L(8)))>>),
    both |-> Unit(<<"y", "p">>, <<>>, "Any", FALSE, <<Return(ListOf(<<V("y"), V("p")>>))>>),
    childBoth |-> Unit(<<"y", "p">>, <<>>, "Any", TRUE,
                       <<Let("l", ListOf(<<V("y"), Host(V("p"))>>)), Return(V("l"))>>)]

Rebind == Match(L(1), <<Otherwise(BlockBody(<<Assign("x", L(7)), Do(Record(L(2)))>>))>>)
Chosen == Match(V("x"), <<Arm(LiteralPattern(Num(1)), ValueBody(Record(L(5)))),
                          Otherwise(ValueBody(Host(L(6))))>>)
Unpacked == Match(Construct("some", <<"Any">>, <<V("x")>>),
                  <<Arm(VariantPattern("none", <<>>), ValueBody(L(0))),
                    Arm(VariantPattern("some", <<"y">>), ValueBody(Plus(V("x"), V("y"))))>>)
NoMatch == Match(Record(L(9)), <<Arm(LiteralPattern(Num(0)), ValueBody(L(0)))>>)
Leaving == Match(L(1), <<Otherwise(BlockBody(<<Return(V("x"))>>))>>)

Holes == <<V("x"), V("y"), Record(L(3)), Host(L(4)), Rebind, Chosen, Unpacked, NoMatch, Leaving,
          Call("inc", <<>>), Call("wait", <<>>), Call("child", <<V("x")>>),
          Call("broken", <<V("x")>>), Call("direct", <<V("x")>>),
          Propagate(Apply("error", <<>>)), Propagate(Literal(None))>>

Declared == <<[key |-> "p", contract |-> "Int"], [key |-> "q", contract |-> "Any"],
              [key |-> "o", contract |-> "Any"]>>
Property(key, e) == [key |-> key, value |-> e]

Contexts(a, b) == <<
    ListOf(<<a, b>>), Plus(a, Plus(V("x"), b)), Plus(Plus(a, V("x")), b),
    Formatted(<<a, b>>), Construct("pair", <<"Int", "Any">>, <<a, b>>),
    Typed(Declared, <<Property("q", a), Property("p", b)>>),
    Logical(TRUE, Less(a, L(3)), Less(b, L(2))), Logical(FALSE, Less(a, L(3)), b),
    Apply("push", <<ListOf(<<a>>), b>>), Apply("index", <<ListOf(<<a, V("y")>>), b>>),
    Call("both", <<a, b>>), Call("childBoth", <<a, b>>), Call("inc", <<a, b>>)>>
\* Constructions that fail before, or whatever, their operands are.
Failing(a) == <<
    Typed(Declared, <<Property("q", a), Property("r", a)>>),
    Typed(Declared, <<Property("p", a), Property("p", a)>>),
    Typed(Declared, <<Property("q", a)>>), Call("x", <<a>>)>>

WithOperands(e, contract) ==
    Program(Helpers @@
            ("main" :> Unit(<<>>, <<>>, contract, TRUE,
                <<Let("x", L(1)), Let("y", L(2)), Let("inc", Closure("bump")),
                  Let("wait", Closure("slow")), Let("r", e),
                  Return(ListOf(<<V("r"), V("x"), V("y")>>))>>)), FALSE)

\* --- Loops ----------------------------------------------------------------------------------
Early(st) == If(Less(V("i"), L(2)), <<st>>, <<Do(Record(L(0)))>>)
BodyStatements == <<
    Break, Continue, Early(Break), Early(Continue), Return(V("i")), Do(Record(V("i"))),
    Do(Host(V("i"))), Assign("t", Plus(V("t"), V("i"))), Scope(<<Let("t", V("i")), Assign("t", L(9))>>),
    If(V("t"), <<>>, <<>>), Assign("f", Closure("read")), Do(Call("tick", <<V("t")>>)),
    For("i", ListOf(<<V("i"), L(5)>>), <<Early(Continue), Do(Record(V("i"))), Early(Break)>>),
    While(Less(V("t"), L(2)), <<Assign("t", Plus(V("t"), L(1))), Early(Break)>>),
    IndexSet(V("l"), V("t"), V("i")), Do(Apply("push", <<V("l"), V("i")>>))>>

Looping(st, parallel) ==
    Program([main |-> Unit(<<>>, <<>>, "Any", TRUE,
                <<Let("t", L(0)), Let("i", L(0)), Let("l", ListOf(<<L(1), L(2)>>)),
                  Let("f", Literal(None)), st,
                  Return(ListOf(<<V("t"), V("i"), V("l"), Call("f", <<>>)>>))>>),
             read |-> Unit(<<>>, <<"i">>, "Any", FALSE, <<Return(V("i"))>>),
             tick |-> Unit(<<"p">>, <<>>, "Any", TRUE, <<Return(Host(V("p")))>>)], parallel)

Loops(st, ts) == <<While(Less(V("i"), L(3)), <<Assign("i", Plus(V("i"), L(1))), st, ts>>),
                   For("i", V("l"), <<st, ts>>)>>

\* Programs by what they are made of: every two operands in every context, in a function
\* that may return an Error; every first operand in every context, in one that may not;
\* failing constructions; every two statements in every loop; a loop over no List.
Positions == 1..Len(Contexts(L(0), L(0)))
Operand == 1..Len(Holes)
Inner == 1..Len(BodyStatements)
Indexes ==
    ({"any"} \X Positions \X Operand \X Operand) \union ({"strict"} \X Positions \X Operand)
    \union ({"fails"} \X (1..Len(Failing(L(0)))) \X Operand)
    \union ({"loop"} \X BOOLEAN \X (1..2) \X Inner \X Inner) \union ({"refused"} \X BOOLEAN)
CoreModules ==
    [k \in Indexes |->
        CompiledModule(CASE k[1] = "any" -> WithOperands(Contexts(Holes[k[3]], Holes[k[4]])[k[2]], "Any")
                          [] k[1] = "strict" -> WithOperands(Contexts(Holes[k[3]], Host(L(4)))[k[2]], "Int")
                          [] k[1] = "fails" -> WithOperands(Failing(Holes[k[3]])[k[2]], "Any")
                          [] k[1] = "loop" ->
                                Looping(Loops(BodyStatements[k[4]], BodyStatements[k[5]])[k[3]], k[2])
                          [] k[1] = "refused" -> Looping(For("i", L(1), <<>>), k[2]))]

\* Index assignments whose value rebinds the variable that is their receiver or index, in a
\* unit that may suspend.
AssignmentModules ==
    LET Main(x) == Unit(<<>>, <<>>, "Any", TRUE,
            <<Let("l", ListOf(<<L(1), L(2)>>)), Let("m", V("l")), Let("i", L(0)), Do(Host(L(8))),
              IndexSet(V("l"), V("i"),
                       Match(L(1), <<Otherwise(BlockBody(<<Assign(x[1], x[2])>>))>>)),
              Return(ListOf(<<V("l"), V("m")>>))>>) IN
    [n \in 1..2 |-> CompiledModule(Program([main |-> Main(<<<<"i", L(1)>>, <<"l", ListOf(<<L(3), L(4)>>)>>>>[n])],
                            FALSE))]
=============================================================================
