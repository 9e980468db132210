------------------------------ MODULE MCLinking ------------------------------
(* Projects that TLC links.  Graphs: imports between the root r and the     *)
(* files a and b and the libraries log and app::db, and what each names.    *)
(* Names: one probe, a reference in some scope, in one of four sources that *)
(* declare and use the same names for different things.                     *)
EXTENDS Linking

Limits(modules) == [modules |-> modules, source |-> 8, total |-> 9]
Source(imports, uses, declarations) ==
    [imports |-> imports, uses |-> uses, declarations |-> declarations, size |-> 1]
ImportOf(path, to, namespace) == [path |-> <<path>>, to |-> to, namespace |-> namespace]
Use(from, local) == [from |-> from, local |-> <<local>>]
Declaration(kind, name, private, block) ==
    [kind |-> kind, name |-> name, private |-> private, variants |-> <<>>, implements |-> <<>>,
     types |-> <<>>, parameters |-> <<>>, block |-> block]
Function(n, private, block) == Declaration("function", <<n>>, private, block)
Type(n, private) == Declaration("nominal", <<n>>, private, <<>>)
Enum(n, private, v) == [Type(n, private) EXCEPT !.variants = <<<<v>>>>]
Constant(n, private, value) == Declaration("constant", <<n>>, private, <<value>>)
Test(n, block) == Declaration("test", <<n>>, TRUE, block)
Main(block) == Function("main", FALSE, block)
Number(n) == Literal(<<ToString(n)>>)
Project(sources, library, tests, limits) ==
    [sources |-> [id \in DOMAIN sources |-> Scanned(sources[id])], root |-> "r",
     library |-> library, tests |-> tests, limits |-> limits]

\* --- Graphs ---------------------------------------------------------------------------------
Mention(n) == <<Do(Call(n, <<>>))>>
FromRoot == <<<<>>, <<"a">>, <<"a", "b">>, <<"b", "a">>>>
FromA == <<<<>>, <<"b">>, <<"a">>, <<"l">>>>
FromB == <<<<>>, <<"a">>>>
FromL == <<<<>>, <<"b">>>>
Mentions == <<<<>>, Mention(<<"app", "db", "q">>), Mention(<<"log", "f">>)>>
GraphSource(imports, block) ==
    Source([i \in DOMAIN imports |-> ImportOf("./" \o imports[i], imports[i], imports[i])], <<>>,
           <<Function("g", FALSE, block)>>)
GraphProject(r, a, b, l, rootBlock, aBlock, lBlock, limit) ==
    Project([r |-> [GraphSource(r, <<>>) EXCEPT !.declarations = <<Main(rootBlock)>>],
             a |-> GraphSource(a, aBlock), b |-> GraphSource(b, <<>>), l |-> GraphSource(l, lBlock),
             m |-> GraphSource(<<>>, Mention(<<"log", "f">>))],
            (<<"log">> :> "l") @@ (<<"app", "db">> :> "m"), FALSE, Limits(limit))
GraphCases == {1} \X (1..4) \X (1..4) \X (1..2) \X (1..2) \X (1..3) \X (1..3) \X (1..2) \X {3, 5}
GraphOf(c) == GraphProject(FromRoot[c[2]], FromA[c[3]], FromB[c[4]], FromL[c[5]], Mentions[c[6]],
                           Mentions[c[7]], Mentions[c[8]], c[9])

\* --- Names ----------------------------------------------------------------------------------
\* A probe adds uses and declarations to one source.
Sources(p) ==
    LET With(id, source) ==
            IF p.source # id THEN source
            ELSE [source EXCEPT !.uses = @ \o p.uses, !.declarations = @ \o p.declarations]
    IN [r |-> With("r", Source(<<ImportOf("./a.exs", "a", "a")>>, <<>>,
                 <<Main(<<>>), Function("help", TRUE, <<>>), Enum("Color", FALSE, "Red"),
                   Type("Item", FALSE), Constant("LIMIT", FALSE, Number(1)),
                   Constant("BASE", FALSE, Variable(<<"log", "LEVEL">>))>>)),
        a |-> With("a", Source(<<>>, <<>>,
                 <<Function("help", TRUE, <<>>), Enum("Color", TRUE, "Dark"), Type("Item", FALSE),
                   Constant("LIMIT", FALSE, Variable(<<"OTHER">>)),
                   Constant("OTHER", FALSE, Number(2))>>)),
        l |-> With("l", Source(<<>>, <<>>,
                 <<Function("info", FALSE, <<>>), Function("secret", TRUE, <<>>),
                   Enum("Entry", FALSE, "Line"), Type("Inner", TRUE),
                   Constant("LEVEL", FALSE, Number(3)), Constant("KEY", TRUE, Number(4))>>)),
        m |-> Source(<<>>, <<>>,
                 <<Function("query", TRUE, <<>>), Type("Row", FALSE),
                   Constant("SIZE", TRUE, Number(5))>>),
        n |-> With("n", Source(<<>>, <<>>, <<Function("open", FALSE, <<>>)>>))]
Mentioning == Function("touch", TRUE, Mention(<<"log", "info">>) \o Mention(<<"app", "open">>)
                                          \o Mention(<<"app", "db", "query">>))
NamesProject(p) ==
    LET sources == Sources(p)
    IN Project([sources EXCEPT !["r"].declarations = @ \o <<Mentioning>>],
               (<<"log">> :> "l") @@ (<<"app">> :> "n") @@ (<<"app", "db">> :> "m"),
               p.tests, Limits(5))

UsesOf ==
    <<<<>>, <<Use(<<"log", "info">>, "info")>>, <<Use(<<"log">>, "log")>>,
      <<Use(<<"log">>, "logger")>>, <<Use(<<"log", "Entry">>, "Item2")>>,
      <<Use(<<"log", "LEVEL">>, "DEPTH")>>, <<Use(<<"log", "secret">>, "secret")>>,
      <<Use(<<"a", "Color">>, "Paint")>>, <<Use(<<"a", "help">>, "help")>>,
      <<Use(<<"app", "db">>, "db")>>, <<Use(<<"app">>, "kit"), Use(<<"kit", "db">>, "store")>>,
      <<Use(<<"none", "at">>, "at")>>>>
NamesOf ==
    <<<<"info">>, <<"secret">>, <<"OTHER">>, <<"LEVEL">>, <<"DEPTH">>, <<"Item2">>,
      <<"range_step">>, <<"Duration">>, <<"log", "info">>, <<"log", "secret">>, <<"log", "KEY">>,
      <<"log", "LEVEL">>, <<"log", "Inner">>, <<"log", "Entry">>, <<"log", "Entry", "Line">>,
      <<"Item2", "Line">>, <<"Paint", "Dark">>, <<"a", "help">>, <<"a", "Color", "Dark">>,
      <<"a", "Item", "make">>, <<"a", "LIMIT">>, <<"logger", "info">>, <<"logger", "LEVEL">>,
      <<"db", "query">>, <<"store", "query">>, <<"app", "db", "query">>, <<"app", "db", "SIZE">>,
      <<"kit", "db", "Row">>,
      \* names of the root, which a declares too except the last three
      <<"help">>, <<"LIMIT">>, <<"Item">>, <<"Color", "Dark">>, <<"Item", "make">>,
      <<"Color", "Red">>, <<"BASE">>, <<"main">>>>
Foreign == 28

\* The parser makes `T::m(...)` a static call when T is a type of the source or a used name.
TypeNames(uses) ==
    {<<"Item">>, <<"Duration">>, <<"Inner">>} \cup {uses[i].local : i \in DOMAIN uses}
PathCall(n, uses) ==
    IF Len(n) > 1 /\ Front(n) \in TypeNames(uses) THEN StaticCall(n, <<Number(9)>>)
    ELSE Call(n, <<Number(9)>>)
Reference(n, uses) ==
    <<PathCall(n, uses), Variable(n), Typed(n, <<>>), IsType(Number(9), <<n>>),
      Match(Number(9), <<Body(n, <<>>, <<<<"x">>>>, <<Do(Variable(n))>>)>>)>>
\* Scopes that bind a name, or not.
InScope(e, n) ==
    <<<<Let(n, <<>>, e), Do(e)>>, <<Do(Closure(1, <<n>>, <<>>, <<Return(e)>>)), Do(e)>>,
      <<For(2, n, <<>>, e, <<Do(e)>>), Do(e)>>,
      <<Do(Match(e, <<Body(<<>>, <<>>, <<n>>, <<Do(e)>>)>>)), Do(e)>>,
      <<If(e, <<Let(n, <<>>, e), Do(e)>>, <<Do(e)>>), While(e, <<Scope(<<Do(e)>>)>>)>>,
      <<Assign(n, e)>>>>
LocalNames == <<<<"LIMIT">>, <<"BASE">>, <<"x">>>>
Declarations ==
    <<Constant("LIMIT", FALSE, Number(6)), Function("LIMIT", FALSE, <<>>), Type("Item", TRUE),
      Constant("K", FALSE, Variable(<<"K">>)), Constant("K", FALSE, Variable(<<"help">>)),
      Constant("K", FALSE, Call(<<"help">>, <<>>)),
      Constant("K", FALSE, Variable(<<"log", "KEY">>)),
      Function("assert", FALSE, <<>>), Main(<<>>), Type("Duration", FALSE),
      [Declaration("implementation", <<>>, FALSE, <<Do(Variable(<<"LEVEL">>))>>)
         EXCEPT !.implements = <<<<"Inner">>, <<"log", "Entry">>>>, !.types = <<<<"Inner">>>>]>>
Tests ==
    <<<<>>, <<Test("one", Mention(<<"main">>))>>,
      <<Test("one", <<Do(Variable(<<"LIMIT">>))>>), Test("two", Mention(<<"help">>))>>,
      <<Test("one", <<>>), Test("one", <<>>)>>>>
Imports ==
    <<ImportOf("./b.exs", "m", "a"), ImportOf("log", "m", "x"), ImportOf("./x.exs", Nowhere, "x"),
      ImportOf("./std.exs", "m", "std"), ImportOf("./log.exs", "m", "log"),
      ImportOf("./my-file.exs", "m", "my-file"), ImportOf("./l.exs", "l", "a"),
      ImportOf("./a.exs", "a", "a"), ImportOf("./b.exs", "m", "b")>>
Importing(import) ==
    [NamesProject([source |-> "r", uses |-> <<>>, declarations |-> <<>>, tests |-> FALSE])
        EXCEPT !.sources["r"].imports = @ \o <<import>>]

\* One source is too large, or makes the sources too large together.
Sizes == <<<<"r", 9>>, <<"a", 8>>, <<"l", 9>>, <<"l", 7>>>>
Sized(size) ==
    [NamesProject([source |-> "r", uses |-> <<>>, declarations |-> <<>>, tests |-> FALSE])
        EXCEPT !.sources[size[1]].size = size[2]]

SourceNames == <<"r", "a", "l", "n">>
Probing(source, uses, declarations, tests) ==
    NamesProject([source |-> SourceNames[source], uses |-> uses, declarations |-> declarations,
                  tests |-> tests])
ProbingBlock(source, uses, block) ==
    Probing(source, uses, <<Function("probe", TRUE, block)>>, FALSE)

\* A source but the root names a declaration of the root only if it has one of that name.
CrossCases ==
    ({2} \X {1, 3, 4} \X (1..Len(UsesOf)) \X (1..Foreign) \X (1..5))
       \cup ({2} \X {1} \X {1} \X (1..Len(NamesOf)) \X (1..5))
       \cup ({2} \X {2} \X {1} \X (1..(Len(NamesOf) - 3)) \X (1..5))
\* A library calls a private function of the root.
UnboundCases == {2} \X {3, 4} \X {1} \X {Foreign + 1} \X {1}
CrossOf(c) ==
    ProbingBlock(c[2], UsesOf[c[3]], <<Do(Reference(NamesOf[c[4]], UsesOf[c[3]])[c[5]])>>)
OtherCases ==
    ({3} \X (1..3) \X (1..6)) \cup ({4} \X (1..3) \X (1..Len(Declarations)))
        \cup ({5} \X {1} \X (1..Len(Tests))) \cup ({6} \X {1} \X (1..Len(Imports)))
        \cup ({7} \X {1} \X (1..Len(Sizes)))

MCCases == GraphCases \cup CrossCases \cup OtherCases
MCProjectOf(c) ==
    CASE c[1] = 1 -> GraphOf(c)
      [] c[1] = 2 -> CrossOf(c)
      [] c[1] = 3 -> ProbingBlock(1, <<>>, InScope(Variable(LocalNames[c[2]]), LocalNames[c[2]])[c[3]])
      [] c[1] = 4 -> Probing(c[2], <<>>, <<Declarations[c[3]]>>, FALSE)
      [] c[1] = 5 -> Probing(1, <<>>, Tests[c[3]], TRUE)
      [] c[1] = 6 -> Importing(Imports[c[3]])
      [] c[1] = 7 -> Sized(Sizes[c[3]])
MCPreludeTypes == {<<"Duration">>}
MCPreludePrivate == {<<"range_step">>}
MCReserved == {<<"Self">>, <<"assert">>, <<"assert_eq">>}
===============================================================================
