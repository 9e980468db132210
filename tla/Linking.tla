------------------------------- MODULE Linking -------------------------------
(* How crates/exs-compiler turns a root source into one module: when every  *)
(* source the root reaches is loaded (Loading), it binds the names each     *)
(* source may spell to linker symbols (module_graph.rs), resolves and       *)
(* inlines constants (constants.rs) and rewrites the declarations.          *)
(*                                                                          *)
(* Its steps are those of LoadNext or leave loadVars alone, so that         *)
(* whatever LoadSpec keeps true holds here too.  A failure is its           *)
(* diagnostic code.  `linked` keeps the declarations of every source in     *)
(* their order.                                                             *)
EXTENDS Loading, SourceTree, FiniteSets, TLC

CONSTANTS PreludeTypes,        \* type names of the prelude that a source may declare again
          PreludePrivate,      \* names of the prelude's private functions
          ReservedNames        \* Self, assert and assert_eq

VARIABLES stage,     \* load, bind, link, done
          failure,   \* the code of the error that ended the compilation, or ""
          bindings,  \* per source: symbols by the names the source may spell
          linked     \* per source: its rewritten declarations

linkVars == <<stage, failure, bindings, linked>>
vars == <<loadVars, linkVars>>

HasPrefix(n, prefix) == Len(n) > Len(prefix) /\ SubSeq(n, 1, Len(prefix)) = prefix
Suffix(n, prefix) == SubSeq(n, Len(prefix) + 1, Len(n))

\* --- Paths of a source (loaded_project.rs) --------------------------------------------------
\* The names some nodes spell: their own and those of types and match patterns.
RECURSIVE SpelledByBodies(_), SpelledBy(_)
SpelledByBodies(bodies) ==
    IF bodies = <<>> THEN <<>>
    ELSE <<Head(bodies).name>> \o Head(bodies).types \o SpelledBy(NodesOf(Head(bodies).block))
            \o SpelledByBodies(Tail(bodies))
SpelledBy(nodes) ==
    IF nodes = <<>> THEN <<>>
    ELSE <<Head(nodes).name>> \o Head(nodes).types \o SpelledByBodies(Head(nodes).bodies)
            \o SpelledBy(Tail(nodes))
RECURSIVE SpelledIn(_)
SpelledIn(decls) ==
    IF decls = <<>> THEN <<>>
    ELSE Head(decls).types \o SpelledBy(NodesOf(Head(decls).block)) \o SpelledIn(Tail(decls))
\* Every qualified path of a source, and what its `use` declarations name.
SpelledPaths(source) ==
    [i \in DOMAIN source.uses |-> source.uses[i].from]
        \o SelectSeq(SpelledIn(source.declarations), LAMBDA n : Len(n) > 1)
\* A source as the loader scans it.
Scanned(source) ==
    [imports |-> source.imports, uses |-> source.uses, declarations |-> source.declarations,
     size |-> source.size, paths |-> SpelledPaths(source)]

\* --- Names of a source (module_graph.rs) ----------------------------------------------------
DeclarationsOf(i) == SourceOf(files[i].id).declarations
ModuleName(i) == "$module" \o ToString(i - 1)
Canonical(i, n) == IF i = 1 THEN n ELSE <<ModuleName(i)>> \o n
\* The root's own types keep their names, except those that take the place of a prelude type.
NominalSymbol(i, n) ==
    IF i = 1 /\ n \in PreludeTypes THEN <<ModuleName(1)>> \o n ELSE Canonical(i, n)
SymbolOf(i, d) ==
    IF d.kind = "nominal" THEN NominalSymbol(i, d.name) ELSE Canonical(i, d.name)

Named(d) == d.kind \in {"function", "nominal", "constant"}
\* The first declaration that is reserved, or shares its name with one that it may not.
ExportFailure(decls) ==
    LET Clash(a, b) == decls[a].name = decls[b].name /\ Named(decls[a])
                         /\ (decls[a].kind # decls[b].kind \/ decls[b].kind = "constant")
        Code(b) ==
            CASE ~Named(decls[b]) -> ""
              [] Named(decls[b]) /\ decls[b].name \in ReservedNames -> "E0219"
              [] OTHER -> IF ~\E a \in 1..(b - 1) : Clash(a, b) THEN ""
                          ELSE IF decls[b].kind = "constant" THEN "E0122" ELSE "E0219"
    IN FoldLeft(LAMBDA code, b : IF code = "" THEN Code(b) ELSE code, "",
                [b \in DOMAIN decls |-> b])

\* The names a source declares with their symbols; enum variants have names too.
Exports(i) ==
    LET decls == DeclarationsOf(i)
        owners == {d \in ToSet(decls) : Named(d)}
        Variants(d) == {<<d.name \o v, SymbolOf(i, d) \o v, d.private>> : v \in ToSet(d.variants)}
    IN {<<d.name, SymbolOf(i, d), d.private>> : d \in owners} \cup UNION {Variants(d) : d \in owners}

\* The package of a source: its library's, or that of the first source importing it.
Packages ==
    LET count == Len(files)
        Importers(i) == {j \in 1..count : \E e \in ToSet(edges[j]) : e.to = i}
        package[i \in 1..count] ==
            IF files[i].library # <<>> THEN Head(files[i].library)
            ELSE IF i = 1 THEN ""
            ELSE package[CHOOSE j \in Importers(i) : \A k \in Importers(i) : j <= k]
    IN package

Hidden(n) == <<"$private:">> \o n
IsHidden(symbol) == symbol[1] = "$private:"

\* A binding table with an error code beside it.
Table(names) == [names |-> names, failure |-> ""]
Refused(t, code) == [t EXCEPT !.failure = code]
AsTable(pairs) == [n \in {p[1] : p \in pairs} |-> (CHOOSE p \in pairs : p[1] = n)[2]]

\* What other modules see of the library modules: private names are hidden in other packages.
LibraryBindings(i) ==
    LET provided == {j \in DOMAIN files : files[j].library # <<>>}
        Seen(j, e) == LET n == files[j].library \o e[1]
                      IN <<n, IF e[3] /\ Packages[j] # Packages[i] THEN Hidden(n) ELSE e[2]>>
    IN AsTable(UNION {{Seen(j, e) : e \in Exports(j)} : j \in provided})

LibraryPaths == {files[j].library : j \in DOMAIN files} \ {<<>>}

\* One import: its namespace is free, and merges with that of an earlier import if they share
\* no name.
BindImport(t, own, k) ==
    LET edge == own[k]
        earlier == {e[1] : e \in UNION {Exports(own[j].to) :
                        j \in {j \in 1..(k - 1) : own[j].namespace = edge.namespace}}}
        exports == Exports(edge.to)
    IN CASE t.failure # "" -> t
         [] t.failure = "" /\ \/ edge.namespace = "std"
                              \/ \E p \in LibraryPaths : Head(p) = edge.namespace
                              \/ \E e \in exports : e[1] \in earlier -> Refused(t, "E0233")
         [] OTHER -> [t EXCEPT !.names =
                         AsTable({<<<<edge.namespace>> \o e[1], e[2]>> : e \in exports}) @@ @]

\* Binds the names below `from` below `local` too; a name that is bound already is an error.
BindBelow(t, from, local) ==
    LET below == {n \in DOMAIN t.names : HasPrefix(n, from)}
        locals == {local \o Suffix(n, from) : n \in below}
    IN IF locals \cap DOMAIN t.names # {} THEN Refused(t, "E0234")
       ELSE [t EXCEPT !.names =
                [l \in locals |-> t.names[from \o Suffix(l, local)]] @@ @]

UseModule(t, from, local) ==
    CASE from \notin LibraryPaths /\ ~\E n \in DOMAIN t.names : HasPrefix(n, from) ->
           Refused(t, "E0234")
      [] from = local -> t
      [] OTHER -> BindBelow(t, from, local)

UseItem(t, item) ==
    CASE t.failure # "" -> t
      [] t.failure = "" /\ item.from \notin DOMAIN t.names -> UseModule(t, item.from, item.local)
      [] OTHER ->
           IF IsHidden(t.names[item.from]) \/ item.local \in DOMAIN t.names
           THEN Refused(t, "E0234")
           ELSE BindBelow([t EXCEPT !.names = (item.local :> t.names[item.from]) @@ @],
                          item.from, item.local)

\* The names source `i` may spell, with their symbols.
BindingsFor(i) ==
    LET own == AsTable(Exports(i))
        visible == LibraryBindings(i) @@ own
        prelude == [n \in PreludePrivate |-> Hidden(n)]
        withImports == FoldLeft(LAMBDA t, k : BindImport(t, edges[i], k),
                                Table(visible @@ prelude), [k \in DOMAIN edges[i] |-> k])
    IN FoldLeft(UseItem, withImports, SourceOf(files[i].id).uses)

\* --- Constants (constants.rs) ---------------------------------------------------------------
ConstantsOf(i) == {d \in ToSet(DeclarationsOf(i)) : d.kind = "constant"}
ConstantSymbols == UNION {{Canonical(i, d.name) : d \in ConstantsOf(i)} : i \in DOMAIN files}
DeclaredIn(symbol) == CHOOSE i \in DOMAIN files :
                         \E d \in ConstantsOf(i) : Canonical(i, d.name) = symbol
ConstantError(code) == Node("Error", <<code>>, <<>>)

\* The literal a constant stands for, following references to other constants.
RECURSIVE ConstantValue(_, _)
ConstantValue(symbol, visiting) ==
    LET i == DeclaredIn(symbol)
        value == (CHOOSE d \in ConstantsOf(i) : Canonical(i, d.name) = symbol).block[1]
    IN CASE symbol \in visiting -> ConstantError("E0121")
         [] symbol \notin visiting /\ value.is = "Literal" -> value
         [] symbol \notin visiting /\ value.is = "Variable" /\ value.name \in DOMAIN bindings[i]
              /\ bindings[i][value.name] \in ConstantSymbols ->
                ConstantValue(bindings[i][value.name], visiting \cup {symbol})
         [] OTHER -> ConstantError("E0119")

\* Constants by the names source `i` spells, and names of constants it may not use.
VisibleConstants(i) ==
    [n \in {n \in DOMAIN bindings[i] : bindings[i][n] \in ConstantSymbols} |->
        ConstantValue(bindings[i][n], {})]
PrivateConstants(i) ==
    {n \in DOMAIN bindings[i] :
        /\ IsHidden(bindings[i][n])
        /\ \E j \in DOMAIN files : \E d \in ConstantsOf(j) :
               files[j].library # <<>> /\ n = files[j].library \o d.name}

\* Walks a block with the local names in scope: a declaration binds from its end on.  `Node`
\* replaces one node whose parts were walked.
WithoutBinding(locals, n) == locals
WithBinding(locals, n) == IF n.is = "Let" THEN locals \cup {n.name} ELSE locals
RECURSIVE InlineBlock(_, _, _), InlineBodies(_, _, _)
InlineNode(n, visible, locals) ==
    IF n.is = "Variable" /\ n.name \notin locals /\ n.name \in DOMAIN visible
    THEN visible[n.name]
    ELSE [n EXCEPT !.operands = InlineBlock(@, visible, locals),
                   !.bodies = InlineBodies(@, visible, locals)]
InlineBlock(block, visible, locals) ==
    IF block = <<>> THEN <<>>
    ELSE <<InlineNode(Head(block), visible, locals)>>
           \o InlineBlock(Tail(block), visible, WithBinding(locals, Head(block)))
InlineBodies(bodies, visible, locals) ==
    IF bodies = <<>> THEN <<>>
    ELSE <<[Head(bodies) EXCEPT !.block =
              InlineBlock(@, visible, locals \cup ToSet(Head(bodies).bindings))]>>
           \o InlineBodies(Tail(bodies), visible, locals)

\* The nodes of a block with the local names in scope at each.
RECURSIVE ScopedBlock(_, _), ScopedBodies(_, _)
ScopedNode(n, locals) ==
    <<[node |-> n, locals |-> locals]>>
        \o ScopedBlock(n.operands, locals) \o ScopedBodies(n.bodies, locals)
ScopedBlock(block, locals) ==
    IF block = <<>> THEN <<>>
    ELSE ScopedNode(Head(block), locals)
           \o ScopedBlock(Tail(block), IF Head(block).is = "Let" THEN locals \cup {Head(block).name}
                                       ELSE locals)
ScopedBodies(bodies, locals) ==
    IF bodies = <<>> THEN <<>>
    ELSE ScopedBlock(Head(bodies).block, locals \cup ToSet(Head(bodies).bindings))
           \o ScopedBodies(Tail(bodies), locals)
Scoped(d) == ScopedBlock(d.block, ToSet(d.parameters))

\* An assignment to a constant, and a use of one that is private to another library.
InlineFailures(i, d) ==
    LET visible == DOMAIN VisibleConstants(i)
        Code(s) ==
            CASE s.node.name \in s.locals -> ""
              [] s.node.name \notin s.locals /\ s.node.is = "Assign" ->
                   IF s.node.name \in visible THEN "E0120" ELSE ""
              [] OTHER -> IF s.node.is = "Variable" /\ s.node.name \in PrivateConstants(i)
                          THEN "E0118" ELSE ""
    IN {Code(s) : s \in ToSet(Scoped(d))} \ {""}

\* --- Rewriting (module_graph.rs) ------------------------------------------------------------
\* A name as it is bound, or below a name that is.
Identifier(n, names) ==
    CASE n \in DOMAIN names -> names[n]
      [] n \notin DOMAIN names /\ Len(n) > 1 /\ Front(n) \in DOMAIN names ->
           names[Front(n)] \o <<Last(n)>>
      [] OTHER -> n
Annotation(n, names) == IF n \in DOMAIN names THEN names[n] ELSE n

\* `module::function(...)` of a used module parses like a static call.
IsModuleCall(n, names) ==
    n.is = "StaticMethodCall" /\ Front(n.name) \notin DOMAIN names /\ n.name \in DOMAIN names
RewriteName(n, names) ==
    CASE n.is = "StaticMethodCall" ->
           IF IsModuleCall(n, names) THEN names[n.name]
           ELSE Identifier(Front(n.name), names) \o <<Last(n.name)>>
      [] n.is \in {"Call", "TypedObject"} -> Identifier(n.name, names)
      [] n.is = "Variable" /\ Len(n.name) > 1 -> Identifier(n.name, names)
      [] OTHER -> n.name
RECURSIVE RewriteBlock(_, _), RewriteBodies(_, _)
Annotations(types, names) == SubSeq([i \in DOMAIN types |-> Annotation(types[i], names)], 1, Len(types))
RewriteNode(n, names) ==
    [n EXCEPT !.is = IF IsModuleCall(n, names) THEN "Call" ELSE @,
              !.name = RewriteName(n, names),
              !.types = Annotations(@, names),
              !.operands = RewriteBlock(@, names),
              !.bodies = RewriteBodies(@, names)]
RewriteBlock(block, names) ==
    IF block = <<>> THEN <<>>
    ELSE <<RewriteNode(Head(block), names)>> \o RewriteBlock(Tail(block), names)
RewriteBodies(bodies, names) ==
    IF bodies = <<>> THEN <<>>
    ELSE <<[Head(bodies) EXCEPT !.name = IF @ = <<>> THEN @ ELSE Identifier(@, names),
                                !.types = Annotations(@, names),
                                !.block = RewriteBlock(@, names)]>>
           \o RewriteBodies(Tail(bodies), names)

\* The names of an implementation's type and trait are identifiers; tests and methods have no
\* symbol of their own.
RewriteDeclaration(i, d, names, visible) ==
    IF d.kind = "constant" THEN d
    ELSE [d EXCEPT !.name = IF Named(d) THEN SymbolOf(i, d) ELSE @,
                 !.implements = [k \in DOMAIN @ |-> Identifier(@[k], names)],
                 !.types = Annotations(@, names),
                 !.block = RewriteBlock(InlineBlock(@, visible, ToSet(d.parameters)), names)]

\* --- Tests ----------------------------------------------------------------------------------
ProgramMain == <<"$exs_program_main">>
TestFunction(k) == <<"$exs_test_" \o ToString(k - 1)>>
TestsOf(decls) == SelectSeq([i \in DOMAIN decls |-> i], LAMBDA i : decls[i].kind = "test")
\* A test build of the root renames its main and lists its tests as functions, which one entry
\* calls by index.
WithTests(decls) ==
    [i \in DOMAIN decls |->
        CASE decls[i].kind = "function" /\ decls[i].name = <<"main">> ->
               [decls[i] EXCEPT !.name = ProgramMain]
          [] decls[i].kind = "test" ->
               [decls[i] EXCEPT !.kind = "function",
                   !.name = TestFunction(CHOOSE k \in DOMAIN TestsOf(decls) :
                                            TestsOf(decls)[k] = i)]
          [] OTHER -> decls[i]]
TestEntry(decls) ==
    [decls[1] EXCEPT !.kind = "function", !.name = <<"main">>, !.implements = <<>>, !.types = <<>>,
        !.parameters = <<<<"$exs_test_index">>>>,
        !.block = [k \in DOMAIN TestsOf(decls) |->
                      If(Operation("==", <<Variable(<<"$exs_test_index">>), Literal(<<ToString(k - 1)>>)>>),
                         <<Return(Call(TestFunction(k), <<>>))>>, <<>>)]
                  \o <<Return(Call(<<"Error">>, <<Variable(<<"$exs_test_index">>)>>))>>]
TestFailure(decls) ==
    LET tests == TestsOf(decls)
    IN IF \E j \in DOMAIN tests :
            \/ decls[tests[j]].name = <<>>
            \/ \E k \in 1..(j - 1) : decls[tests[k]].name = decls[tests[j]].name
       THEN "E0235" ELSE ""

\* --- The compilation ------------------------------------------------------------------------
Init == /\ LoadInit
        /\ stage = "load" /\ failure = ""
        /\ bindings = <<>> /\ linked = <<>>

Stop(code) == failure' = code /\ stage' = "done"
Proceed(next) == failure' = failure /\ stage' = next

Load == LoadNext /\ UNCHANGED linkVars

\* The first error of the declarations of the loaded sources.
GraphFailure ==
    LET IsMain(d) == d.kind = "function" /\ d.name = <<"main">>
        Export(i) == IF i # 1 /\ \E d \in ToSet(DeclarationsOf(i)) : IsMain(d) THEN "E0235"
                     ELSE ExportFailure(DeclarationsOf(i))
    IN FoldLeft(LAMBDA code, i : IF code = "" THEN Export(i) ELSE code,
                IF project.tests THEN TestFailure(DeclarationsOf(1)) ELSE "",
                [i \in DOMAIN files |-> i])

CheckGraph ==
    /\ stage = "load" /\ phase = "loaded"
    /\ IF GraphFailure # "" THEN Stop(GraphFailure) ELSE Proceed("bind")
    /\ UNCHANGED <<loadVars, bindings, linked>>

BindSource ==
    /\ stage = "bind" /\ Len(bindings) < Len(files)
    /\ LET table == BindingsFor(Len(bindings) + 1)
       IN /\ bindings' = Append(bindings, table.names)
          /\ IF table.failure # "" THEN Stop(table.failure) ELSE Proceed("bind")
    /\ UNCHANGED <<loadVars, linked>>

ConstantErrors ==
    {v \in {ConstantValue(c, {}) : c \in ConstantSymbols} : v.is = "Error"}
ResolveConstants ==
    /\ stage = "bind" /\ Len(bindings) = Len(files)
    /\ IF ConstantErrors # {} THEN \E v \in ConstantErrors : Stop(v.name[1]) ELSE Proceed("link")
    /\ UNCHANGED <<loadVars, bindings, linked>>

\* Inlines the constants one source sees into it and rewrites its names.
LinkSource ==
    LET i == Len(linked) + 1
        decls == DeclarationsOf(i)
        failures == UNION {InlineFailures(i, decls[d]) : d \in DOMAIN decls}
        tested == project.tests /\ i = 1
        hasMain == \E d \in ToSet(decls) : d.kind = "function" /\ d.name = <<"main">>
        names == IF tested /\ hasMain THEN (<<"main">> :> ProgramMain) @@ bindings[i]
                 ELSE bindings[i]
        visible == VisibleConstants(i)
        rewritten == [d \in DOMAIN decls |-> RewriteDeclaration(i, decls[d], names, visible)]
    IN /\ stage = "link" /\ i <= Len(files)
       /\ IF failures # {} THEN \E code \in failures : Stop(code) ELSE Proceed("link")
       /\ linked' = Append(linked, IF tested THEN WithTests(rewritten) ELSE rewritten)
       /\ UNCHANGED <<loadVars, bindings>>

\* Joins the sources; the program has one main.
Combine ==
    /\ stage = "link" /\ Len(linked) = Len(files)
    /\ LET mains == SelectSeq(linked[1], LAMBDA d : d.kind = "function" /\ d.name = <<"main">>)
       IN IF project.tests
          THEN /\ IF TestsOf(DeclarationsOf(1)) = <<>> THEN Stop("E0235") ELSE Proceed("done")
               /\ linked' = [linked EXCEPT ![1] = Append(@, TestEntry(DeclarationsOf(1)))]
          ELSE /\ IF Len(mains) # 1 THEN Stop("E0235") ELSE Proceed("done")
               /\ UNCHANGED linked
    /\ UNCHANGED <<loadVars, bindings>>

Next == Load \/ CheckGraph \/ BindSource \/ ResolveConstants \/ LinkSource \/ Combine
Spec == Init /\ [][Next]_vars

TypeOK ==
    /\ stage \in {"load", "bind", "link", "done"}
    /\ failure \in {"", "E0118", "E0119", "E0120", "E0121", "E0122", "E0219", "E0233", "E0234", "E0235"}
    /\ Len(bindings) \in 0..Len(files) /\ Len(linked) \in 0..Len(bindings)

\* --- What names denote ----------------------------------------------------------------------
\* The sources a source's imports lead to.
Below(id) ==
    LET closed == {S \in SUBSET SourceIds :
                     Imported(id) \subseteq S /\ \A x \in S : Imported(x) \subseteq S}
    IN {x \in SourceIds : \A S \in closed : x \in S}
\* The sources a source's package consists of reach it through imports alone.
PackagesOf(i) ==
    LET id == files[i].id
        Owner(j) == IF files[j].library = <<>> THEN "" ELSE Head(files[j].library)
    IN {Owner(j) : j \in {j \in DOMAIN files :
            /\ j = 1 \/ files[j].library # <<>>
            /\ id = files[j].id \/ id \in Below(files[j].id)}}
Target(j, n) == [in |-> j, name |-> n]
DeclaredNames(d) == {d.name} \cup {d.name \o v : v \in ToSet(d.variants)}
PublicIn(j, all) ==
    UNION {DeclaredNames(d) : d \in {d \in ToSet(DeclarationsOf(j)) : Named(d) /\ (all \/ ~d.private)}}

\* What source `i` may spell and what it means, as the language defines visibility: its own
\* declarations, the public ones of libraries (the private ones of its package too) below
\* their paths, everything of an import below its namespace; `use p as l` gives whatever p or
\* a name below p means to l or the name below l.
Visible(i) ==
    LET own == {<<n, Target(i, n)>> : n \in PublicIn(i, TRUE)}
        Of(j) == LET path == files[j].library
                 IN {<<path \o n, Target(j, n)>> :
                        n \in PublicIn(j, Head(path) \in PackagesOf(i))}
        provided == UNION {Of(j) : j \in {j \in DOMAIN files : files[j].library # <<>>}}
        brought == UNION {{<<<<e.namespace>> \o n, Target(e.to, n)>> : n \in PublicIn(e.to, TRUE)} :
                             e \in ToSet(edges[i])}
        Use(seen, item) ==
            seen \cup {<<item.local \o Suffix(p[1], item.from), p[2]>> :
                p \in {p \in seen : p[1] = item.from \/ HasPrefix(p[1], item.from)}}
    IN FoldLeft(Use, own \cup provided \cup brought, SourceOf(files[i].id).uses)

\* What a name denotes exactly, and with a member of a declaration as its last segment.
Denoted(n, visible) == {p[2] : p \in {p \in visible : p[1] = n}}
Meaning(n, visible) ==
    IF Denoted(n, visible) # {} \/ Len(n) = 1 THEN Denoted(n, visible)
    ELSE {[t EXCEPT !.name = @ \o <<Last(n)>>] : t \in Denoted(Front(n), visible)}
\* The symbol of what is denoted, among the linked declarations.
DeclarationAt(t) ==
    CHOOSE d \in DOMAIN DeclarationsOf(t.in) :
        LET decl == DeclarationsOf(t.in)[d]
        IN Named(decl) /\ (decl.name = t.name \/ HasPrefix(t.name, decl.name))
LinkedSymbol(t) ==
    linked[t.in][DeclarationAt(t)].name
        \o Suffix(t.name, DeclarationsOf(t.in)[DeclarationAt(t)].name)
Combined == UNION {{linked[i][d] : d \in DOMAIN linked[i]} : i \in DOMAIN linked}
\* A symbol nothing in the program declares: code generation reports it.
Dangling(symbol) ==
    ~\E d \in Combined : d.kind \in {"function", "nominal"} /\ symbol \in DeclaredNames(d)
IsConstantAt(t) == DeclarationsOf(t.in)[DeclarationAt(t)].kind = "constant"
RECURSIVE LiteralOf(_)
LiteralOf(t) ==
    LET value == DeclarationsOf(t.in)[DeclarationAt(t)].block[1]
    IN IF value.is = "Literal" THEN value
       ELSE LiteralOf(CHOOSE u \in Denoted(value.name, Visible(t.in)) : IsConstantAt(u))

\* Constants are gone from the linked program.
SymbolDenotes(symbol, t) ==
    IF IsConstantAt(t) THEN Dangling(symbol) ELSE symbol = LinkedSymbol(t)
NameDenotes(symbol, meaning) ==
    IF meaning = {} THEN Dangling(symbol) /\ (Len(symbol) > 1 => Dangling(Front(symbol)))
    ELSE \A t \in meaning : SymbolDenotes(symbol, t)
TypesDenote(symbols, types, visible) ==
    \A k \in DOMAIN types :
        LET meaning == Denoted(types[k], visible)
        IN IF meaning = {} THEN Dangling(symbols[k])
           ELSE \A t \in meaning : SymbolDenotes(symbols[k], t)
VariableDenotes(s, node, visible) ==
    LET meaning == Denoted(s.node.name, visible)
    IN CASE s.node.name \in s.locals -> node = s.node
         [] s.node.name \notin s.locals /\ \E t \in meaning : IsConstantAt(t) ->
              \A t \in meaning : node = LiteralOf(t)
         [] OTHER -> Len(s.node.name) > 1 =>
                        NameDenotes(node.name, Meaning(s.node.name, visible))
\* One node of the source, in scope of its locals, and the node it became.
NodeDenotes(s, node, visible) ==
       /\ s.node.is = "Variable" => VariableDenotes(s, node, visible)
       /\ s.node.is = "Call" =>
            IF s.node.name \in s.locals THEN node.name = s.node.name
            ELSE NameDenotes(node.name, Meaning(s.node.name, visible))
       /\ s.node.is \in {"StaticMethodCall", "TypedObject"} =>
            NameDenotes(node.name, Meaning(s.node.name, visible))
       /\ TypesDenote(node.types, s.node.types, visible)
       /\ \A b \in DOMAIN s.node.bodies :
            /\ TypesDenote(node.bodies[b].types, s.node.bodies[b].types, visible)
            /\ s.node.bodies[b].name # <<>> =>
                 NameDenotes(node.bodies[b].name, Meaning(s.node.bodies[b].name, visible))

SymbolsDistinct ==
    \A i, j \in DOMAIN linked : \A d \in DOMAIN linked[i], e \in DOMAIN linked[j] :
        LET a == linked[i][d]
            b == linked[j][e]
            kinds == {"function", "nominal"}
        IN /\ a.kind \in kinds /\ b.kind \in kinds /\ a.name = b.name => i = j /\ a.kind = b.kind
           /\ a.kind = "nominal" => a.name \notin PreludeTypes

\* Linking keeps meanings: in the linked program, every name of every source is the symbol of
\* the declaration that the language's visibility rules give it, or of nothing when they give
\* it nothing; a constant is its literal unless a local binding hides it; and declarations of
\* different sources never share a symbol (bindings_for, Inliner, rewrite_module).
NamesDenote ==
    stage = "done" /\ failure = "" =>
        /\ SymbolsDistinct
        /\ \A i \in DOMAIN files :
             LET visible == Visible(i)
             IN \A d \in DOMAIN DeclarationsOf(i) :
                  LET from == DeclarationsOf(i)[d]
                      scoped == Scoped(from)
                      to == NodesOf(linked[i][d].block)
                  IN from.kind # "constant" =>
                       /\ Len(to) = Len(scoped)
                       /\ TypesDenote(linked[i][d].types, from.types, visible)
                       /\ \A k \in DOMAIN from.implements :
                            NameDenotes(linked[i][d].implements[k],
                                        Meaning(from.implements[k], visible))
                       /\ \A k \in DOMAIN scoped : NodeDenotes(scoped[k], to[k], visible)
===============================================================================
