------------------------------- MODULE Analysis -------------------------------
(* The passes over the units of a program: reachability, the units that may *)
(* suspend, and what the static tables name.                                *)
EXTENDS Units

\* --- Types ------------------------------------------------------------------------------------
\* `types` maps the name of a nominal type to [prelude, contains, texts, variants].
EnumOf(p, name) == {t \in DOMAIN p.types : Len(name) > 1 /\ Front(name) = t /\ Last(name) \in p.types[t].variants}
TypeNamed(p, name) == {name} \cap DOMAIN p.types
DeclaredTypes(p) == {t \in DOMAIN p.types : ~p.types[t].prelude}
RECURSIVE Contained(_, _)
Contained(p, used) ==
    LET more == used \cup UNION {p.types[t].contains : t \in used} IN IF more = used THEN used ELSE Contained(p, more)
AnnotatedTypes(p, annotation) == ToSet(annotation) \cap DOMAIN p.types
StreamType == <<"HostStream">>
\* The types an expression can build.
Builds(p, n) ==
    CASE n.is \in {"Variable", "Call", "StaticMethodCall"} -> EnumOf(p, n.name)
      [] n.is = "TypedObject" -> TypeNamed(p, n.name)
      [] n.is = "HostStream" -> {StreamType}
      [] OTHER -> {}

\* --- Reached units ------------------------------------------------------------------------------
RECURSIVE ContainsFor(_)
BodiesContainFor(n) == \E i \in DOMAIN n.bodies : ContainsFor(n.bodies[i].block)
StatementContainsFor(n) ==
    \/ n.is = "For"
    \/ n.is \in {"Block", "If", "While"} /\ BodiesContainFor(n)
    \/ \E m \in ToSet(Nodes(n)) : m.is = "Match" /\ BodiesContainFor(m)
ContainsFor(block) == \E i \in DOMAIN block : StatementContainsFor(block[i])
UnitEdges(p, u, bySpan) ==
    UNION {CallEdges(p, n) \cup (IF n.is = "Closure" THEN {bySpan[n.span]} ELSE {}) : n \in NodeSet(u.block)}
UnitBuilds(p, u) == UNION {Builds(p, n) : n \in NodeSet(u.block)}
\* The closure keys by the span of the closure's expression.
ClosureKeys(lifted) == [s \in {lifted[i].span : i \in DOMAIN lifted} |->
                            (CHOOSE u \in ToSet(lifted) : u.span = s).key]
\* Mutant: a loop reaches no Iterator of a type.
ReachedIteratorsNone(p, found) == {}
\* Loops reach the Iterators of the types the program can have values of.
ReachedIterators(p, found) ==
    IF \E u \in found : ContainsFor(u.block)
    THEN LET constructible == DeclaredTypes(p) \cup UNION {UnitBuilds(p, u) : u \in found}
         IN {t.key : t \in {x \in ToSet(OfTrait(p, "Iterator")) : x.method = "next" /\ x.type \in constructible}}
    ELSE {}
RECURSIVE Reach(_, _, _, _)
Reach(p, units, bySpan, keys) ==
    LET found == ToSet(WithKeys(units, keys))
        more == keys \cup UNION {UnitEdges(p, u, bySpan) : u \in found} \cup ReachedIterators(p, found)
    IN IF more = keys THEN WithKeys(units, keys) ELSE Reach(p, units, bySpan, more)
IsEntry(u) == u.entry /\ Len(u.key) = 1
ReachableUnits(p, units, lifted) == Reach(p, units, ClosureKeys(lifted), KeysOf(SelectSeq(units, IsEntry)))

\* --- Units that may suspend -----------------------------------------------------------------------
ParallelNodes(u) == {n \in NodeSet(u.block) : n.is \in {"ParallelStatic", "ParallelDynamic"}}
StaticTasks(n) == IF n.is = "ParallelStatic" THEN ToSet(n.operands) ELSE {}
IsDynamic(n) == n.is = "ParallelDynamic" \/ \E task \in StaticTasks(n) : task.is # "Closure"
\* The units that wait for tasks, and the closures that may be started as one.
ParallelUnits(reached, lifted) ==
    LET nodes == UNION {ParallelNodes(u) : u \in ToSet(reached)}
        waiting == {u.key : u \in {x \in ToSet(reached) : ParallelNodes(x) # {}}}
        listed == {ClosureKeys(lifted)[task.span] : task \in {x \in UNION {StaticTasks(n) : n \in nodes} : x.is = "Closure"}}
    IN waiting \cup listed
       \cup IF \E n \in nodes : IsDynamic(n) THEN {key \in KeysOf(reached) : IsClosureKey(key)} ELSE {}
AnalysisNode(key, l, isClosure) ==
    [key |-> key, suspends |-> l.callsHost \/ (~isClosure /\ l.parallel), calls |-> l.calls,
     callsBindings |-> l.callsBindings, iterates |-> ~isClosure /\ l.loops]
AnalysisNodes(hir) ==
    {AnalysisNode(hir.functions[i].key, hir.functions[i].hir, FALSE) : i \in DOMAIN hir.functions}
    \cup {AnalysisNode(ClosureKey(id), hir.closures[id], TRUE) : id \in DOMAIN hir.closures}
\* Mutant: a call of a binding never makes its unit resumable.
MustResumeDirect(p, node, resumable) ==
    \/ node.calls \cap resumable # {}
    \/ node.iterates /\ KeysOfTargets(OfTrait(p, "Iterator")) \cap resumable # {}
MustResume(p, node, resumable) ==
    \/ node.calls \cap resumable # {}
    \/ node.callsBindings /\ \E key \in resumable : IsClosureKey(key)
    \/ node.iterates /\ KeysOfTargets(OfTrait(p, "Iterator")) \cap resumable # {}
RECURSIVE Resuming(_, _, _)
Resuming(p, nodes, resumable) ==
    LET more == resumable \cup {n.key : n \in {x \in nodes : MustResume(p, x, resumable)}}
    IN IF more = resumable THEN resumable ELSE Resuming(p, nodes, more)
ResumableUnits(p, hir, reached, parallel) ==
    LET nodes == {n \in AnalysisNodes(hir) : n.key \in KeysOf(reached)}
    IN Resuming(p, nodes, {n.key : n \in {x \in nodes : x.suspends \/ x.key \in parallel}})

\* --- What the static tables name ----------------------------------------------------------------------
\* The types a node names; an assignment's target is not looked at.
NodeTypes(p, n) ==
    Builds(p, n) \cup
    CASE n.is = "StaticMethodCall" -> TypeNamed(p, Front(n.name))
      [] n.is = "IsType" -> AnnotatedTypes(p, n.types)
      [] n.is = "Match" -> UNION {TypeNamed(p, n.bodies[i].name) : i \in DOMAIN n.bodies}
      [] OTHER -> {}
RECURSIVE Assigned(_)
\* The statements of a block as the collector sees them: assignments keep their value only.
Visited(n) == IF n.is \in {"AssignProperty", "AssignIndex"} THEN [n EXCEPT !.operands = <<Last(n.operands)>>] ELSE n
Assigned(nodes) ==
    [i \in DOMAIN nodes |->
        [Visited(nodes[i]) EXCEPT !.bodies = [b \in DOMAIN @ |-> [@[b] EXCEPT !.block = Assigned(@)]]]]
\* Annotations of statements count where the statement is in a block of the unit itself.
StatementTypes(p, u) ==
    UNION {AnnotatedTypes(p, n.types) \cup UNION {AnnotatedTypes(p, n.bodies[i].types) : i \in DOMAIN n.bodies}
           : n \in {x \in NodeSet(u.block) : x.is \in {"Let", "For"}}}
UnitTypes(p, u) ==
    (IF Len(u.key) > 1 /\ ~IsClosureKey(u.key) THEN TypeNamed(p, Front(u.key)) ELSE {})
    \cup AnnotatedTypes(p, u.types) \cup StatementTypes(p, u)
    \cup UNION {NodeTypes(p, n) : n \in NodeSet(Assigned(u.block))}
UsedTypes(p, reached) == Contained(p, {<<"Ordering">>} \cup UNION {UnitTypes(p, u) : u \in ToSet(reached)})

\* Mutant: only the statements of the outermost block are visited.
TargetTextsOuter(block) == {n.name : n \in {x \in ToSet(block) : x.is = "AssignProperty"}}
\* Targets of assignments in the blocks of a unit; blocks inside expressions are not entered.
RECURSIVE TargetTexts(_)
TargetTexts(block) ==
    UNION {(IF n.is = "AssignProperty" THEN {n.name} ELSE {})
           \cup (IF n.is \in {"Block", "If", "While", "For"}
                 THEN UNION {TargetTexts(n.bodies[i].block) : i \in DOMAIN n.bodies} ELSE {})
           : n \in ToSet(block)}
AssertTexts == <<"assertion failed">>
NodeTexts(n) ==
    CASE n.is \in {"String", "Property"} -> {n.name}
      [] n.is = "Object" -> {<<n.name[i]>> : i \in DOMAIN n.name}
      [] n.is = "Call" /\ IsAssertEq(n.name) -> {AssertTexts}
      [] n.is = "HostStream" -> {<<"stream_open">>}
      [] OTHER -> {}
TableTexts(p, used) == UNION {p.types[t].texts \cup {t} : t \in used \cap DOMAIN p.types}
StringLiterals(p, reached, used) ==
    {<<"">>} \cup UNION {TargetTexts(u.block) \cup UNION {NodeTexts(n) : n \in NodeSet(u.block)} : u \in ToSet(reached)}
    \cup TableTexts(p, used)

===============================================================================
