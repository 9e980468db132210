-------------------------------- MODULE Units ---------------------------------
(* What crates/exs-compiler finds out about a linked program before it emits *)
(* code: the units it compiles (functions, methods and the functions lifted  *)
(* from closures), what each closure captures, which units are reached from  *)
(* the entries, which of them may suspend, and the types and texts whose     *)
(* names the module carries.                                                 *)
(*                                                                           *)
(* A program is [functions, implementations, types]: a function is [name,    *)
(* parameters, types, block, entry], an implementation [type, trait,         *)
(* methods], and a nominal type [prelude, contains, texts, variants].        *)
EXTENDS SourceTree, FiniteSets, TLC

\* The prelude functions that serve built-in methods: method :> [key, receivers].
CONSTANTS MethodHelpers
HelperKeys(method) == IF method \in DOMAIN MethodHelpers THEN {MethodHelpers[method].key} ELSE {}
EqualityHelper == <<"__exs_equal">>
RenderHelper == <<"__exs_render">>
IsAssertEq(name) == name \in {<<"assert_eq">>, <<"std", "test", "assert_eq">>}

\* --- Methods and their dispatch ---------------------------------------------------------------
Target(i, method) == [type |-> i.type, trait |-> i.trait, method |-> Last(method.name),
                      key |-> i.type \o method.name,
                      instance |-> method.parameters # <<>> /\ Head(method.parameters) = <<"self">>]
TargetsOf(i) == [j \in DOMAIN i.methods |-> Target(i, i.methods[j])]
Targets(p) == FoldLeft(LAMBDA found, i : found \o TargetsOf(i), <<>>, p.implementations)
InstanceTargets(p) == SelectSeq(Targets(p), LAMBDA t : t.instance)
Operators == {"Add", "Less", "Equal", "NotEqual"}
\* The operators a trait decides: Compare also decides equality.
OperatorsFor(trait) ==
    CASE trait = "Add" -> {"Add"} [] trait = "Eq" -> {"Equal", "NotEqual"}
      [] trait = "Compare" -> {"Less", "Equal", "NotEqual"} [] OTHER -> {}
Instance(p, method) == SelectSeq(InstanceTargets(p), LAMBDA t : <<t.method>> = method)
OfTrait(p, trait) == SelectSeq(InstanceTargets(p), LAMBDA t : t.trait = trait)
\* Eq decides equality before a Compare of the same type.
Deciding(p, operator) ==
    LET targets == SelectSeq(InstanceTargets(p), LAMBDA t : operator \in OperatorsFor(t.trait))
    IN SelectSeq(targets, LAMBDA t : t.trait = "Eq") \o SelectSeq(targets, LAMBDA t : t.trait # "Eq")
KeysOfTargets(targets) == {targets[i].key : i \in DOMAIN targets}

\* The units an expression may call by its form: the function or method it names, every method
\* its dispatch may select and the prelude's helper.
EqualityEdges(p) == KeysOfTargets(Deciding(p, "Equal")) \cup {EqualityHelper}
CallEdges(p, n) ==
    CASE n.is = "Call" -> {n.name} \cup IF IsAssertEq(n.name) THEN EqualityEdges(p) ELSE {}
      [] n.is = "StaticMethodCall" -> {n.name}
      [] n.is = "MethodCall" -> KeysOfTargets(Instance(p, n.name)) \cup HelperKeys(n.name)
      [] n.is = "Operation" /\ Head(n.name) \in Operators ->
           KeysOfTargets(Deciding(p, Head(n.name))) \cup IF Head(n.name) \in {"Equal", "NotEqual"} THEN {EqualityHelper} ELSE {}
      [] n.is = "FormattedString" -> KeysOfTargets(OfTrait(p, "ToString")) \cup {RenderHelper}
      [] OTHER -> {}

\* --- Loops over Ranges that nothing observes -----------------------------------------------------
\* A literal Range: only `Range::until` and `Range::through` are written with `..` and `..=`.
IsUnsharedRange(e) == e.is = "StaticMethodCall" /\ e.name \in {<<"Range", "until">>, <<"Range", "through">>}
\* The walk of a function: `names` are visible names with the candidate each one holds (0: none),
\* a candidate is [observed, loops], `active` are the candidates a loop around iterates.
\* True: TLC computes the state of a walk before it goes on with the block.
Evaluated(state) == state # <<>>
NewWalker == [names |-> <<>>, candidates |-> <<>>, active |-> {}]
DeclareName(w, name, candidate) == [w EXCEPT !.names = Append(@, <<name, candidate>>)]
DeclareNames(w, names) == FoldLeft(LAMBDA a, name : DeclareName(a, name, 0), w, names)
CandidateOf(w, name) ==
    LET i == SelectLastInSeq(w.names, LAMBDA entry : entry[1] = name) IN IF i = 0 THEN 0 ELSE w.names[i][2]
Observe(w, candidate) == IF candidate = 0 THEN w ELSE [w EXCEPT !.candidates[candidate].observed = TRUE]
LeaveNames(w, outer) == [w EXCEPT !.names = outer.names, !.active = outer.active]
RECURSIVE WalkAll(_, _), WalkBodies(_, _), WalkNode(_, _)
WalkAll(w, nodes) ==
    IF Evaluated(w) /\ nodes # <<>> THEN WalkAll(WalkNode(w, Head(nodes)), Tail(nodes)) ELSE w
WalkBody(w, body) == LeaveNames(WalkAll(DeclareNames(w, body.bindings), body.block), w)
WalkBodies(w, bodies) ==
    IF Evaluated(w) /\ bodies # <<>> THEN WalkBodies(WalkBody(w, Head(bodies)), Tail(bodies)) ELSE w
\* The loop over a candidate that no loop around iterates may count; any other use observes it.
WalkFor(w, n, candidate) ==
    IF candidate = 0 \/ candidate \in w.active THEN WalkBodies(WalkAll(w, n.operands), n.bodies)
    ELSE LeaveNames(WalkBodies([w EXCEPT !.candidates[candidate].loops = @ \cup {n.span},
                                         !.active = @ \cup {candidate}], n.bodies), w)
\* Mutant: a closure is walked like a block.
WalkClosureOpen(w, n) == WalkBodies(w, n.bodies)
\* A closure observes every Range it mentions; Ranges declared inside it never count.
WalkClosure(w, n) ==
    LET inner == WalkBodies([w EXCEPT !.active = DOMAIN w.candidates], n.bodies)
    IN [LeaveNames(inner, w) EXCEPT !.candidates =
           [i \in DOMAIN @ |-> [@[i] EXCEPT !.observed = @ \/ i > Len(w.candidates)]]]
WalkLet(w, n) ==
    LET walked == WalkAll(w, n.operands)
        fresh == IsUnsharedRange(n.operands[1])
        added == IF fresh THEN [walked EXCEPT !.candidates = Append(@, [observed |-> FALSE, loops |-> {}])] ELSE walked
    IN DeclareName(added, n.name, IF fresh THEN Len(added.candidates) ELSE 0)
WalkNode(w, n) ==
    CASE n.is \in {"Variable", "Call", "Assign"} -> WalkAll(Observe(w, CandidateOf(w, n.name)), n.operands)
      [] n.is = "Property" /\ n.operands[1].is = "Variable" ->
           LET candidate == CandidateOf(w, n.operands[1].name)
           IN IF candidate \in w.active THEN Observe(w, candidate) ELSE w
      [] n.is = "Let" -> WalkLet(w, n)
      [] n.is = "For" -> WalkFor(w, n, IF n.operands[1].is = "Variable" THEN CandidateOf(w, n.operands[1].name) ELSE 0)
      [] n.is = "Closure" -> WalkClosure(w, n)
      [] OTHER -> WalkBodies(WalkAll(w, n.operands), n.bodies)
UnobservedRangeLoops(f) ==
    LET w == WalkAll(DeclareNames(NewWalker, f.parameters), f.block)
    IN UNION {w.candidates[i].loops : i \in {j \in DOMAIN w.candidates : ~w.candidates[j].observed}}

\* --- Bindings, captures and call edges -------------------------------------------------------------
\* The lowerer of a function or closure: `scopes` are visible names with their binding, `locals`
\* the bindings it declares itself; `program`, `next` and `closures` belong to the module.
NewLowerer(p, next, closures) ==
    [program |-> p, scopes |-> <<>>, closure |-> FALSE, locals |-> {}, captures |-> <<>>, calls |-> {}, callsBindings |-> FALSE,
     callsHost |-> FALSE, parallel |-> FALSE, loops |-> FALSE, unobserved |-> {}, next |-> next, closures |-> closures]
Declare(l, name) == [l EXCEPT !.scopes = Append(@, <<name, l.next>>), !.locals = @ \cup {l.next}, !.next = @ + 1]
DeclareAll(l, names) == FoldLeft(Declare, l, names)
ResolveName(l, name) ==
    LET i == SelectLastInSeq(l.scopes, LAMBDA entry : entry[1] = name) IN IF i = 0 THEN 0 ELSE l.scopes[i][2]
\* Only a closure captures, only what it does not own, and each binding once.
Capture(l, capture) ==
    IF ~l.closure \/ capture.binding \in l.locals \/ Contains(l.captures, capture) THEN l
    ELSE [l EXCEPT !.captures = Append(@, capture)]
Reference(l, name) ==
    IF ResolveName(l, name) = 0 THEN l ELSE Capture(l, [binding |-> ResolveName(l, name), name |-> name])
\* Mutant: a nested closure keeps its captures to itself.
ClosureEndAlone(l, inner, at) ==
    [l EXCEPT !.next = inner.next,
              !.closures = [inner.closures EXCEPT ![at] = [inner EXCEPT !.closures = <<>>, !.program = <<>>]]]
\* A nested closure's captures are captures of the closure around it, unless it owns them.
ClosureEnd(l, inner, at) ==
    [FoldLeft(Capture, l, inner.captures)
        EXCEPT !.next = inner.next,
               !.closures = [inner.closures EXCEPT ![at] = [inner EXCEPT !.closures = <<>>, !.program = <<>>]]]
RECURSIVE LowerNode(_, _), LowerAll(_, _), LowerBodies(_, _)
LowerAll(l, nodes) ==
    IF Evaluated(l) /\ nodes # <<>> THEN LowerAll(LowerNode(l, Head(nodes)), Tail(nodes)) ELSE l
LowerBody(l, body) == [LowerAll(DeclareAll(l, body.bindings), body.block) EXCEPT !.scopes = l.scopes]
LowerBodies(l, bodies) ==
    IF Evaluated(l) /\ bodies # <<>> THEN LowerBodies(LowerBody(l, Head(bodies)), Tail(bodies)) ELSE l
LowerInside(l, n) == LowerBodies(LowerAll(l, n.operands), n.bodies)
LowerClosure(l, n) ==
    LET closures == Append(l.closures, <<>>)
        opened == [NewLowerer(l.program, l.next, closures) EXCEPT !.scopes = l.scopes, !.closure = TRUE]
    IN ClosureEnd(l, LowerBodies(opened, n.bodies), Len(closures))
Called(l, n) == [l EXCEPT !.calls = @ \cup CallEdges(l.program, n),
                          !.callsBindings = @ \/ (n.is = "Call" /\ ResolveName(l, n.name) # 0),
                          !.callsHost = @ \/ n.is \in {"HostCall", "HostStream"},
                          !.parallel = @ \/ n.is \in {"ParallelStatic", "ParallelDynamic"}]
LowerNode(l, n) ==
    CASE n.is \in {"Variable", "Assign"} -> LowerAll(Reference(l, n.name), n.operands)
      [] n.is = "Call" -> LowerAll(Called(Reference(l, n.name), n), n.operands)
      [] n.is = "Let" -> Declare(LowerAll(l, n.operands), n.name)
      [] n.is = "For" ->
           LowerInside([l EXCEPT !.loops = @ \/ (~IsUnsharedRange(n.operands[1]) /\ n.span \notin l.unobserved)], n)
      [] n.is = "Closure" -> LowerClosure(l, n)
      [] OTHER -> LowerInside(Called(l, n), n)
LowerFunction(p, f) ==
    LowerAll(DeclareAll([NewLowerer(p, 1, <<>>) EXCEPT !.unobserved = UnobservedRangeLoops(f)], f.parameters), f.block)
\* Every function and method in source order, with its key.
Sources(p) ==
    [i \in DOMAIN p.functions |-> [key |-> p.functions[i].name, f |-> p.functions[i]]]
    \o FoldLeft(LAMBDA found, i : found \o [j \in DOMAIN i.methods |-> [key |-> i.type \o i.methods[j].name, f |-> i.methods[j]]],
                <<>>, p.implementations)
\* Bindings are numbered within their function here, closures in the order of the whole module.
LowerModule(p) ==
    LET functions == [i \in DOMAIN Sources(p) |-> [key |-> Sources(p)[i].key, hir |-> LowerFunction(p, Sources(p)[i].f)]]
    IN [functions |-> functions, closures |-> FlattenSeq([i \in DOMAIN functions |-> functions[i].hir.closures])]

\* --- Units -----------------------------------------------------------------------------------------
ClosureKey(id) == <<"$closure", ToString(id)>>
IsClosureKey(key) == Head(key) = "$closure"
ClosuresOf(block) == SelectSeq(NodesOf(block), LAMBDA n : n.is = "Closure")
\* The closures of the program in source order, with the capture names the lowering found.
LiftedFunctions(p, hir) ==
    LET closures == FoldLeft(LAMBDA found, s : found \o ClosuresOf(s.f.block), <<>>, Sources(p))
        Names(captures) == [i \in DOMAIN captures |-> captures[i].name]
    IN [id \in DOMAIN closures |->
           [key |-> ClosureKey(id), span |-> closures[id].span, entry |-> FALSE,
            captures |-> Names(hir.closures[id].captures),
            parameters |-> closures[id].bodies[1].bindings, types |-> closures[id].bodies[1].types,
            block |-> closures[id].bodies[1].block]]
UnitOf(s) == [key |-> s.key, span |-> 0, entry |-> s.f.entry, captures |-> <<>>, parameters |-> s.f.parameters,
              types |-> s.f.types, block |-> s.f.block]
AllUnits(p, lifted) == [i \in DOMAIN Sources(p) |-> UnitOf(Sources(p)[i])] \o lifted
KeysOf(units) == {units[i].key : i \in DOMAIN units}
WithKeys(units, keys) == SelectSeq(units, LAMBDA u : u.key \in keys)
===============================================================================
