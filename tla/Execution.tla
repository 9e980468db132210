------------------------------ MODULE Execution -------------------------------
(* A program runs, by the meaning of its source: names are found lexically   *)
(* and methods by the type of the receiver.  `event` is what the last step   *)
(* asked of the compiled module: a unit, a suspension, a type or text, the   *)
(* value of a name, the fields of a Range.                                   *)
(*                                                                           *)
(* A frame holds the nodes it still has to execute, operands first, and the  *)
(* values of those it has executed.  Its names are kept twice: `env` is the  *)
(* lexical environment, `locals` what the compiled function has, where a     *)
(* closure starts with the cells it captured.                                *)
EXTENDS Analysis

CONSTANTS CaseKeys, ProgramOf(_),
          MaxFrames, MaxIterations \* Bounds of the stack and of every loop.
VARIABLES program, hir, analysis, frames, cells, ranges, stale, event
vars == <<program, hir, analysis, frames, cells, ranges, stale, event>>

\* --- Values -----------------------------------------------------------------------------------
Value(is, type, parts) == [is |-> is, type |-> type, parts |-> parts, at |-> 0, env |-> <<>>, locals |-> <<>>]
Plain == Value("plain", <<>>, <<>>)
Nominal(type, parts) == Value("nominal", type, parts)
ListOf(parts) == Value("list", <<>>, parts)
RangeValue(id) == [Nominal(<<"Range">>, <<>>) EXCEPT !.at = id]
ClosureValue(key, env, locals) == [Value("closure", key, <<>>) EXCEPT !.env = env, !.locals = locals]
IsRange(v) == v.is = "nominal" /\ v.at # 0
IsComposite(v) == v.is \in {"list", "nominal"}

\* --- Events -------------------------------------------------------------------------------------
NoEvent == [units |-> {}, suspends |-> FALSE, types |-> {}, texts |-> {}, names |-> {}, reads |-> {}]
SuspendEvent == [NoEvent EXCEPT !.suspends = TRUE]
TypeEvent(t) == [NoEvent EXCEPT !.types = {t}]
TextEvent(texts) == [NoEvent EXCEPT !.texts = texts]

\* --- Frames -------------------------------------------------------------------------------------
Top == frames[Len(frames)]
RECURSIVE Flat(_), Flattened(_)
\* Operands come before their node; bodies are entered when their node is executed.
Flattened(n) == IF n.is = "Closure" THEN <<n>> ELSE Flat(n.operands) \o <<n>>
Flat(nodes) == IF nodes = <<>> THEN <<>> ELSE Flattened(Head(nodes)) \o Flat(Tail(nodes))
UnitAt(key) == CHOOSE u \in ToSet(analysis.units) : u.key = key
IsUnit(key) == key \in KeysOf(analysis.units)
Lookup(names, name) ==
    LET i == SelectLastInSeq(names, LAMBDA entry : entry[1] = name) IN IF i = 0 THEN 0 ELSE names[i][2]
Operand(n) == Top.values[Len(Top.values) - Len(n.operands) + 1]
Operands(n) == SubSeq(Top.values, Len(Top.values) - Len(n.operands) + 1, Len(Top.values))
\* The variable a name means, and the one the compiled function finds.
NameEvent(name) == [NoEvent EXCEPT !.names = {<<Lookup(Top.env, name), Lookup(Top.locals, name)>>}]
\* The top frame executes `code` next, `taken` values are gone and `pushed` are new.
Continue(code, taken, pushed) ==
    [frames EXCEPT ![Len(frames)].code = code \o Tail(@),
                   ![Len(frames)].values = SubSeq(@, 1, Len(@) - taken) \o pushed]
Entered(bindings, first) == [i \in DOMAIN bindings |-> <<bindings[i], first + i>>]
NewFrame(u, env, locals, count) ==
    LET names == Entered(SubSeq(u.parameters, 1, count), Len(cells)) IN
    [key |-> u.key, code |-> Flat(u.block) \o <<Node("End", <<>>, <<>>)>>, values |-> <<>>,
     env |-> env \o names, locals |-> locals \o names]
Keep == UNCHANGED <<program, hir, analysis>>
KeepMemory == UNCHANGED <<cells, ranges, stale>>
Push(n, value, what) ==
    /\ frames' = Continue(<<>>, Len(n.operands), <<value>>)
    /\ event' = what
    /\ KeepMemory
\* A call of a unit with `arguments`; the node that called leaves with its operands.
Enter(u, env, locals, arguments, code, taken, what) ==
    LET count == Min({Len(arguments), Len(u.parameters)}) IN
    /\ Len(frames) < MaxFrames
    /\ frames' = Append(Continue(code, taken, <<>>), NewFrame(u, env, locals, count))
    /\ cells' = cells \o SubSeq(arguments, 1, count)
    /\ event' = [what EXCEPT !.units = {u.key}]
    /\ UNCHANGED <<ranges, stale>>
CallUnit(n, key) == IsUnit(key) /\ Enter(UnitAt(key), <<>>, <<>>, Operands(n), <<>>, Len(n.operands), NoEvent)
CallClosure(v, arguments, taken, what) == Enter(UnitAt(v.type), v.env, v.locals, arguments, <<>>, taken, what)
\* The program ends with an error.
Fail == frames' = <<>> /\ event' = NoEvent /\ KeepMemory

\* --- Expressions --------------------------------------------------------------------------------
\* The value a part of `v` can be: host values and empty composites have no parts we know.
PartsOf(v) == IF v.parts = <<>> THEN {Plain} ELSE ToSet(v.parts)
\* The target of `targets` for a value, if its type has one.
TargetFor(targets, v) ==
    IF v.is # "nominal" THEN {} ELSE {t \in ToSet(targets) : t.type = v.type}
FirstKey(targets, v) == SelectSeq(targets, LAMBDA t : t.type = v.type)[1].key
ReadOf(v) == IF IsRange(v) THEN {v.at} ELSE {}

Leaf(n) ==
    \/ n.is = "Literal" /\ Push(n, Plain, NoEvent)
    \/ n.is = "String" /\ Push(n, Plain, TextEvent({n.name}))
    \/ n.is = "Object" /\ Push(n, Plain, TextEvent({<<n.name[i]>> : i \in DOMAIN n.name}))
    \/ n.is = "IsType" /\ Push(n, Plain, [NoEvent EXCEPT !.types = AnnotatedTypes(program, n.types)])
    \/ n.is = "TypedObject" /\ Push(n, Nominal(n.name, Operands(n)), TypeEvent(n.name))
    \/ n.is = "HostCall" /\ Push(n, Plain, SuspendEvent)
    \/ n.is = "HostStream" /\ Push(n, Nominal(StreamType, <<>>), [SuspendEvent EXCEPT !.types = {StreamType}])
Name(n) ==
    /\ n.is = "Variable"
    /\ IF Lookup(Top.env, n.name) # 0
       THEN Push(n, cells[Lookup(Top.env, n.name)], NameEvent(n.name))
       ELSE \E t \in EnumOf(program, n.name) : Push(n, Nominal(t, <<>>), TypeEvent(t))
ReadProperty(n) ==
    /\ n.is = "Property"
    /\ \E part \in PartsOf(Operand(n)) :
           Push(n, part, [TextEvent({n.name}) EXCEPT !.reads = ReadOf(Operand(n))])
\* A closure has the lexical environment; its function finds the cells it captured by name.
MakeClosure(n) ==
    LET key == analysis.closureKeys[n.span]
        captures == UnitAt(key).captures
    IN /\ n.is = "Closure"
       /\ Push(n, ClosureValue(key, Top.env, [i \in DOMAIN captures |-> <<captures[i], Lookup(Top.locals, captures[i])>>]),
               NoEvent)
\* The operands of == decide together; every other operator belongs to its left operand.
Operate(n) ==
    LET left == Operand(n)
        targets == Deciding(program, Head(n.name))
        equality == Head(n.name) \in {"Equal", "NotEqual"}
    IN /\ n.is = "Operation"
       /\ CASE n.name = <<"List">> -> Push(n, ListOf(Operands(n)), NoEvent)
            [] n.name = <<"Index">> -> \E part \in PartsOf(left) : Push(n, part, NoEvent)
            [] TargetFor(targets, left) # {} -> CallUnit(n, FirstKey(targets, left))
            [] equality /\ TargetFor(targets, left) = {} /\ IsComposite(left) -> CallUnit(n, EqualityHelper)
            [] OTHER -> Push(n, Plain, NoEvent)
Show(n) ==
    LET value == Operand(n)
        targets == OfTrait(program, "ToString")
    IN /\ n.is = "FormattedString"
       /\ CASE TargetFor(targets, value) # {} -> CallUnit(n, FirstKey(targets, value))
            [] TargetFor(targets, value) = {} /\ IsComposite(value) -> CallUnit(n, RenderHelper)
            [] OTHER -> Push(n, Plain, NoEvent)

\* --- Calls ----------------------------------------------------------------------------------------
CallName(n) ==
    LET bound == Lookup(Top.env, n.name) IN
    /\ n.is = "Call"
    /\ CASE bound # 0 /\ cells[bound].is = "closure" -> CallClosure(cells[bound], Operands(n), Len(n.operands), NameEvent(n.name))
         [] bound # 0 /\ cells[bound].is # "closure" -> Fail
         [] bound = 0 /\ EnumOf(program, n.name) # {} ->
              \E t \in EnumOf(program, n.name) : Push(n, Nominal(t, Operands(n)), TypeEvent(t))
         [] bound = 0 /\ IsAssertEq(n.name) /\ IsComposite(Operand(n)) ->
              IF TargetFor(Deciding(program, "Equal"), Operand(n)) # {}
              THEN CallUnit(n, FirstKey(Deciding(program, "Equal"), Operand(n)))
              ELSE CallUnit(n, EqualityHelper)
         [] bound = 0 /\ IsAssertEq(n.name) -> Push(n, Plain, TextEvent({AssertTexts}))
         [] OTHER -> CallUnit(n, n.name)
CallStatic(n) ==
    /\ n.is = "StaticMethodCall"
    /\ IF EnumOf(program, n.name) # {}
       THEN \E t \in EnumOf(program, n.name) : Push(n, Nominal(t, Operands(n)), TypeEvent(t))
       ELSE ~IsUnsharedRange(n) /\ CallUnit(n, n.name)
\* A Range is a new object with fields of its own.
MakeRange(n) ==
    /\ IsUnsharedRange(n)
    /\ frames' = Continue(<<>>, Len(n.operands), <<RangeValue(ranges + 1)>>)
    /\ ranges' = ranges + 1
    /\ event' = [TypeEvent(<<"Range">>) EXCEPT !.units = {n.name}]
    /\ UNCHANGED <<cells, stale>>
ServedBy(helper, v) == v.is \in helper.receivers
\* The type of the receiver decides, then the prelude, then a method built into the core.
CallMethod(n) ==
    LET receiver == Operand(n)
        targets == Instance(program, n.name)
        helped == HelperKeys(n.name) # {} /\ ServedBy(MethodHelpers[n.name], receiver)
    IN /\ n.is = "MethodCall"
       /\ CASE TargetFor(targets, receiver) # {} -> CallUnit(n, FirstKey(targets, receiver))
            [] TargetFor(targets, receiver) = {} /\ helped -> CallUnit(n, MethodHelpers[n.name].key)
            [] OTHER -> Push(n, Plain, NoEvent)
Task == Node("Task", <<>>, <<Literal(<<>>)>>)
\* A par suspends its function and starts every closure as a task; `par` of a value takes a list.
Fork(n) ==
    LET tasks == IF n.is = "ParallelStatic" THEN Operands(n) ELSE Operand(n).parts
        started == FoldLeft(LAMBDA code, t : code \o <<Task, Do(Literal(<<>>))>>, <<>>, tasks)
    IN /\ n.is \in {"ParallelStatic", "ParallelDynamic"}
       /\ frames' = Continue(started \o <<Operation("List", <<>>)>>, Len(n.operands), tasks)
       /\ event' = SuspendEvent
       /\ KeepMemory
StartTask(n) ==
    /\ n.is = "Task"
    /\ IF Operand(n).is = "closure" THEN CallClosure(Operand(n), <<>>, 1, NoEvent) ELSE Fail
Expression(n) ==
    \/ Leaf(n) \/ Name(n) \/ ReadProperty(n) \/ MakeClosure(n) \/ Operate(n) \/ Show(n)
    \/ CallName(n) \/ CallStatic(n) \/ MakeRange(n) \/ CallMethod(n) \/ Fork(n) \/ StartTask(n)

\* --- Statements --------------------------------------------------------------------------------------
\* The end of a block drops the names it declared.
LeaveNode == [is |-> "Leave", operands |-> <<>>, env |-> Top.env, locals |-> Top.locals]
\* Runs the body of `n` with values for its bindings, then `after`.
EnterBody(body, values, after, taken, what) ==
    /\ frames' = [Continue(Flat(body.block) \o <<LeaveNode>> \o after, taken, <<>>)
                     EXCEPT ![Len(frames)].env = @ \o Entered(body.bindings, Len(cells)),
                            ![Len(frames)].locals = @ \o Entered(body.bindings, Len(cells))]
    /\ cells' = cells \o values
    /\ event' = what
    /\ UNCHANGED ranges
Step(n, what) == frames' = Continue(<<>>, Len(n.operands), <<>>) /\ event' = what
Declared(n) ==
    /\ n.is = "Let"
    /\ frames' = [Continue(<<>>, 1, <<>>) EXCEPT ![Len(frames)].env = Append(@, <<n.name, Len(cells) + 1>>),
                                                 ![Len(frames)].locals = Append(@, <<n.name, Len(cells) + 1>>)]
    /\ cells' = Append(cells, Operand(n))
    /\ event' = [NoEvent EXCEPT !.types = AnnotatedTypes(program, n.types)]
    /\ UNCHANGED <<ranges, stale>>
Store(n) ==
    \/ /\ n.is = "Assign"
       /\ Step(n, NameEvent(n.name))
       /\ cells' = [cells EXCEPT ![Lookup(Top.env, n.name)] = Operand(n)]
       /\ UNCHANGED <<ranges, stale>>
    \/ n.is = "AssignProperty" /\ Step(n, [TextEvent({n.name}) EXCEPT !.reads = ReadOf(Operand(n))]) /\ KeepMemory
    \/ n.is \in {"AssignIndex", "Expression"} /\ Step(n, NoEvent) /\ KeepMemory
Leave(n) ==
    /\ n.is = "Leave"
    /\ frames' = [Continue(<<>>, 0, <<>>) EXCEPT ![Len(frames)].env = n.env, ![Len(frames)].locals = n.locals]
    /\ event' = NoEvent
    /\ KeepMemory
\* The caller of the top frame gets a value.
Leaving(n) ==
    /\ n.is \in {"Return", "End"}
    /\ frames' = IF Len(frames) = 1 THEN <<>>
                 ELSE [Front(frames) EXCEPT ![Len(frames) - 1].values =
                           Append(@, IF n.is = "Return" THEN Operand(n) ELSE Plain)]
    /\ event' = NoEvent
    /\ KeepMemory
\* Conditions are not evaluated: both sides are tried, and a loop ends after any iteration.
Branch(n) ==
    /\ n.is \in {"Block", "If", "Match"}
    /\ \E body \in ToSet(n.bodies) : \E part \in PartsOf(IF n.operands = <<>> THEN Plain ELSE Operand(n)) :
           EnterBody(body, [i \in DOMAIN body.bindings |-> part],
                     IF n.is = "Match" THEN <<Literal(<<>>)>> ELSE <<>>, Len(n.operands),
                     [NoEvent EXCEPT !.types = TypeNamed(program, body.name)])
    /\ UNCHANGED stale
Loop(n) ==
    /\ n.is = "While"
    /\ \/ Step(n, NoEvent) /\ KeepMemory
       \/ /\ n.span < MaxIterations
          /\ EnterBody(n.bodies[1], <<>>, Flat(n.operands) \o <<[n EXCEPT !.span = @ + 1]>>, 1, NoEvent)
          /\ UNCHANGED stale

\* --- Iteration -----------------------------------------------------------------------------------------
\* A loop over `over` that ran `count` times.
NextNode(n, over, count) == [is |-> "Next", operands |-> <<>>, loop |-> n, over |-> over, count |-> count]
StepNode(next) == [next EXCEPT !.is = "Step", !.operands = <<Literal(<<>>)>>]
IsCounted(n) == n.span \in analysis.counted \/ IsUnsharedRange(n.operands[1])
\* A counted Range keeps its fields as they were until the loop ends.
Iterate(n) ==
    /\ n.is = "For"
    /\ frames' = Continue(<<NextNode(n, Operand(n), 0)>>, 1, <<>>)
    /\ stale' = IF IsCounted(n) /\ IsRange(Operand(n)) THEN stale \cup {Operand(n).at} ELSE stale
    /\ event' = [NoEvent EXCEPT !.types = AnnotatedTypes(program, n.bodies[1].types)]
    /\ UNCHANGED <<cells, ranges>>
EndLoop(next) ==
    /\ Step(next, NoEvent)
    /\ stale' = IF IsCounted(next.loop) THEN stale \ ReadOf(next.over) ELSE stale
    /\ UNCHANGED <<cells, ranges>>
EnterLoop(next, value) ==
    /\ next.count < MaxIterations
    /\ EnterBody(next.loop.bodies[1], <<value>>, <<NextNode(next.loop, next.over, next.count + 1)>>,
                 Len(next.operands), NoEvent)
    /\ UNCHANGED stale
\* An element of a list or a counter needs no call; `next` of the type decides for the others.
Advance(next) ==
    LET targets == SelectSeq(OfTrait(program, "Iterator"), LAMBDA t : t.method = "next") IN
    /\ next.is = "Next"
    /\ IF IsCounted(next.loop) \/ TargetFor(targets, next.over) = {}
       THEN EndLoop(next) \/ \E part \in PartsOf(next.over) : EnterLoop(next, part)
       ELSE Enter(UnitAt(FirstKey(targets, next.over)), <<>>, <<>>, <<next.over>>, <<StepNode(next)>>, 0, NoEvent)
Stepped(next) ==
    /\ next.is = "Step"
    /\ EndLoop(next) \/ \E part \in PartsOf(Operand(next)) : EnterLoop(next, part)

Statement(n) ==
    \/ Declared(n) \/ Store(n) \/ Leave(n) \/ Leaving(n) \/ Branch(n) \/ Loop(n)
    \/ Iterate(n) \/ Advance(n) \/ Stepped(n)

\* --- Behaviour -------------------------------------------------------------------------------------------
Init ==
    /\ \E key \in CaseKeys : program = ProgramOf(key)
    /\ hir = <<>> /\ analysis = <<>>
    /\ frames = <<>> /\ cells = <<>> /\ ranges = 0 /\ stale = {} /\ event = NoEvent
Waiting == UNCHANGED <<program, frames, cells, ranges, stale, event>>
\* The compiler: bindings and captures, reached units, then everything that depends on them.
Lower ==
    /\ hir = <<>>
    /\ hir' = LowerModule(program)
    /\ UNCHANGED analysis /\ Waiting
Find ==
    /\ hir # <<>> /\ analysis = <<>>
    /\ LET lifted == LiftedFunctions(program, hir)
           units == AllUnits(program, lifted)
       IN analysis' = [units |-> units, lifted |-> lifted, closureKeys |-> ClosureKeys(lifted),
                       reached |-> KeysOf(ReachableUnits(program, units, lifted))]
    /\ UNCHANGED hir /\ Waiting
Resume ==
    /\ analysis # <<>> /\ "resumable" \notin DOMAIN analysis
    /\ LET reached == WithKeys(analysis.units, analysis.reached)
           used == UsedTypes(program, reached)
       IN analysis' = analysis
             @@ [resumable |-> ResumableUnits(program, hir, reached, ParallelUnits(reached, analysis.lifted)),
                 used |-> used, literals |-> StringLiterals(program, reached, used),
                 counted |-> UNION {UnobservedRangeLoops(s.f) : s \in ToSet(Sources(program))}]
    /\ UNCHANGED hir /\ Waiting
Start ==
    /\ analysis # <<>> /\ "resumable" \in DOMAIN analysis /\ frames = <<>> /\ cells = <<>>
    /\ \E u \in {x \in ToSet(analysis.units) : IsEntry(x)} :
          /\ cells' = [i \in DOMAIN u.parameters |-> Plain]
          /\ frames' = <<[key |-> u.key, code |-> Flat(u.block) \o <<Node("End", <<>>, <<>>)>>, values |-> <<>>,
                          env |-> Entered(u.parameters, 0), locals |-> Entered(u.parameters, 0)]>>
          /\ event' = [NoEvent EXCEPT !.units = {u.key}]
    /\ Keep /\ UNCHANGED <<ranges, stale>>
Run == frames # <<>> /\ Keep /\ LET n == Head(Top.code) IN Expression(n) \/ Statement(n)
Next == Lower \/ Find \/ Resume \/ Start \/ Run
Spec == Init /\ [][Next]_vars

\* --- Properties ----------------------------------------------------------------------------------------------
\* A module contains every unit one of its executions calls: reachability follows every form a
\* call has, through the prelude and through dispatch by type (reachability.rs).
UnitsReached == event # NoEvent => event.units \subseteq analysis.reached
\* The static tables name every type an execution builds, tests or converts to, and every text
\* it uses as a key or value (used_types.rs, string literals of reachability.rs).
TablesComplete == event # NoEvent => event.types \subseteq analysis.used /\ event.texts \subseteq analysis.literals
\* When the program suspends, every active unit can be resumed; a unit that can be resumed is
\* only ever called by one that can (resumable/analysis.rs:1-5).
SuspensionSound ==
    /\ event.suspends => \A i \in DOMAIN frames : frames[i].key \in analysis.resumable
    /\ \A i \in DOMAIN frames :
          i > 1 /\ frames[i].key \in analysis.resumable => frames[i - 1].key \in analysis.resumable
\* A compiled function finds, by the captures of its closure, the variable the source means
\* (hir.rs).
CapturesLexical ==
    \A variable \in event.names : variable[1] = variable[2]
\* Nothing reads or advances a Range while a loop counts without writing its fields
\* (range_variables.rs).
RangesUnobserved == event.reads \cap stale = {}
===============================================================================
