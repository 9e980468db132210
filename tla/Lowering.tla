------------------------------ MODULE Lowering ------------------------------
(* How a resumable unit is lowered to a continuation graph: a flat sequence *)
(* of operations over durable frame slots, each one a state the unit can be *)
(* suspended at (GraphBuilder and ContinuationGraph).  A builder b holds    *)
(* the lexical scopes (names to slots), the next free slot, the operations  *)
(* emitted so far and the loops being lowered; lowering an expression       *)
(* leaves the slot its value is in as `slot`.  States and slots count from  *)
(* 0, as in the code.                                                       *)
EXTENDS Synchronous

\* --- The builder -------------------------------------------------------------------
State(b) == Len(b.ops)
Emit(b, operation) == [b EXCEPT !.ops = Append(@, operation)]
Temporary(b) == [b EXCEPT !.next = @ + 1, !.slot = b.next]
\* An operation whose result goes to a new temporary.
EmitTo(b, operation(_)) == Emit(Temporary(b), operation(b.next))
\* Goes on from the builder `b`.
With(b, Next(_)) == Next(b)

Visible(b, x) == {i \in DOMAIN b.scopes : x \in DOMAIN b.scopes[i]}
Binding(b, x) == b.scopes[Max(Visible(b, x))][x]
PushScope(b) == [b EXCEPT !.scopes = Append(@, <<>>)]
Bind(b, x, slot, cell) ==
    [b EXCEPT !.scopes[Len(b.scopes)] =
        [n \in DOMAIN @ \union {x} |-> IF n = x THEN [slot |-> slot, cell |-> cell] ELSE @[n]]]

\* A binding in `slot` becomes a Cell when a closure captures its name.
DefineSlot(c, b, x, slot) ==
    Bind(IF x \in c.cells THEN Emit(b, [op |-> "CellNew", from |-> slot, to |-> slot]) ELSE b,
         x, slot, x \in c.cells)

Goto(target, checkpoint) == [op |-> "Goto", target |-> target, checkpoint |-> checkpoint]
Branch(slot, t, f) == [op |-> "Branch", from |-> slot, when_true |-> t, when_false |-> f]
SetBranchTargets(b, state, t, f) ==
    [b EXCEPT !.ops[state + 1].when_true = t, !.ops[state + 1].when_false = f]
SetGotoTarget(b, state, target) == [b EXCEPT !.ops[state + 1].target = target]
SetGotoTargets(b, states, target) ==
    [b EXCEPT !.ops = [i \in DOMAIN @ |-> IF i - 1 \in states THEN [@[i] EXCEPT !.target = target]
                                          ELSE @[i]]]

\* --- What a direct statement depends on ----------------------------------------------
LoopHead(st) == IF st.is = "While" THEN st.condition ELSE st.iterable

NoFacts == [names |-> {}, assigned |-> {}, escapes |-> FALSE, nested |-> FALSE, excluded |-> FALSE]
\* The facts of several parts together.
Joined(fs) ==
    [names |-> UNION {fs[i].names : i \in DOMAIN fs},
     assigned |-> UNION {fs[i].assigned : i \in DOMAIN fs},
     escapes |-> \E i \in DOMAIN fs : fs[i].escapes,
     nested |-> \E i \in DOMAIN fs : fs[i].nested,
     excluded |-> \E i \in DOMAIN fs : fs[i].excluded]

\* The expressions directly inside an expression.
Inside(e) ==
    CASE e.is \in {"Literal", "Variable", "Closure"} -> <<>>
      [] e.is \in {"Apply", "Construct", "Call"} -> e.operands
      [] e.is = "Formatted" -> e.parts
      [] e.is = "Typed" -> [i \in DOMAIN e.properties |-> e.properties[i].value]
      [] e.is = "Logical" -> <<e.left, e.right>>
      [] e.is = "Propagate" -> <<e.operand>>
      [] e.is = "Match" -> <<e.subject>>

RECURSIVE ExpressionFacts(_, _), StatementFacts(_, _)
OfExpressions(es, loops) == Joined([i \in DOMAIN es |-> ExpressionFacts(es[i], loops)])
OfStatements(ss, loops) == Joined([i \in DOMAIN ss |-> StatementFacts(ss[i], loops)])
ArmFacts(arm, loops) ==
    IF arm.body.is = "Expression" THEN ExpressionFacts(arm.body.value, loops)
    ELSE OfStatements(arm.body.block, loops)

\* The facts of an expression, with those of the statements of its match arm blocks.
ExpressionFacts(e, loops) ==
    LET own == [NoFacts EXCEPT
                    !.names = IF e.is = "Variable" THEN {e.name} ELSE {},
                    !.excluded = e.is = "Closure" \/ (e.is = "Apply" /\ e.op = "host")]
        arms == IF e.is = "Match" THEN [i \in DOMAIN e.arms |-> ArmFacts(e.arms[i], loops)]
                ELSE <<>> IN
    Joined(<<own, OfExpressions(Inside(e), loops)>> \o arms)

\* The facts of one statement inside `loops` loops of the statement being examined.
StatementFacts(st, loops) ==
    CASE st.is \in {"Let", "Do", "Return"} -> ExpressionFacts(st.value, loops)
      [] st.is = "Assign" ->
            Joined(<<ExpressionFacts(st.value, loops),
                     [NoFacts EXCEPT !.names = {st.name}, !.assigned = {st.name}]>>)
      [] st.is = "IndexSet" -> OfExpressions(<<st.receiver, st.index, st.value>>, loops)
      [] st.is = "Scope" -> OfStatements(st.block, loops)
      [] st.is = "If" ->
            Joined(<<ExpressionFacts(st.condition, loops), OfStatements(st.then \o st.else, loops)>>)
      [] st.is \in {"While", "For"} ->
            [Joined(<<ExpressionFacts(LoopHead(st), loops), OfStatements(st.body, loops + 1)>>)
                EXCEPT !.nested = TRUE]
      [] OTHER -> [NoFacts EXCEPT !.escapes = (loops = 0)]

\* The facts of a statement that might run directly: its own loop is not a nested one.
FactsOf(st) ==
    IF st.is = "If" THEN StatementFacts(st, 0)
    ELSE Joined(<<ExpressionFacts(LoopHead(st), 0), OfStatements(st.body, 1)>>)

\* Whether an operation may suspend its frame or call a unit that runs as a frame.
MaySuspend(operation) ==
    operation.op \in {"HostCall", "HostResume", "ChildCall", "ClosureCall", "Closure"}

RECURSIVE LowerExpression(_, _, _), LowerOperand(_, _, _, _), LowerOperands(_, _, _, _),
          LowerApply(_, _, _), LowerParts(_, _, _, _), LowerFormatted(_, _, _),
          LowerFields(_, _, _, _), LowerConstruct(_, _, _), LowerProperties(_, _, _, _),
          LowerTyped(_, _, _), LowerLogical(_, _, _), LowerBody(_, _, _),
          LowerArm(_, _, _, _, _), LowerTested(_, _, _, _, _), LowerArms(_, _, _, _, _, _),
          LowerMatch(_, _, _), LowerCall(_, _, _), LowerAll(_, _, _), LowerBlock(_, _, _),
          LowerIf(_, _, _), LowerWhile(_, _, _), LowerFor(_, _, _), LowerStates(_, _, _),
          LowerCompound(_, _, _), LowerStatement(_, _, _)

\* --- Expressions -----------------------------------------------------------------------
\* The variable's own slot, whatever follows.
LowerOperandInPlace(c, b, e, later) == LowerExpression(c, b, e)

\* An operand that is read only after the ones that follow it: a plain variable is copied
\* when a later operand runs statements, which may rebind it.
LowerOperand(c, b, e, later) ==
    With(LowerExpression(c, b, e), LAMBDA t :
        IF later /\ e.is = "Variable" /\ ~Binding(t, e.name).cell
        THEN EmitTo(t, LAMBDA to : [op |-> "Copy", from |-> t.slot, to |-> to])
        ELSE t)

\* Leaves the operands' slots as `slot`.
LowerOperands(c, b, es, done) ==
    IF es = <<>> THEN [b EXCEPT !.slot = done]
    ELSE With(LowerOperand(c, b, es[1], RunsStatements(Tail(es))), LAMBDA t :
              LowerOperands(c, t, Tail(es), Append(done, t.slot)))

\* A host call is two states, so that the task can wait between them.
EmitHostCall(b) ==
    EmitTo(b, LAMBDA to : [op |-> "HostCall", operands |-> b.slot, to |-> to])
LowerApply(c, b, e) ==
    With(LowerOperands(c, b, e.operands, <<>>), LAMBDA t :
        IF e.op = "host"
        THEN With(EmitHostCall(t), LAMBDA call :
                  Emit(call, [op |-> "HostResume", to |-> call.slot]))
        ELSE EmitTo(t, LAMBDA to :
                  [op |-> "Perform", perform |-> e.op, operands |-> t.slot, to |-> to]))

LowerParts(c, b, es, builder) ==
    IF es = <<>> THEN b
    ELSE With(LowerExpression(c, b, es[1]), LAMBDA t :
              LowerParts(c, Emit(t, [op |-> "FormatPush", from |-> t.slot, to |-> builder]),
                         Tail(es), builder))
LowerFormatted(c, b, e) ==
    With(EmitTo(b, LAMBDA to : [op |-> "FormatNew", to |-> to]), LAMBDA new :
        EmitTo(LowerParts(c, new, e.parts, new.slot),
               LAMBDA to : [op |-> "FormatFinish", from |-> new.slot, to |-> to]))

\* Payload fields are validated one by one, as they are evaluated.
LowerFields(c, b, fields, done) ==
    IF fields = <<>> THEN [b EXCEPT !.slot = done]
    ELSE LET later == \E i \in 2..Len(fields) : ContainsStatements(fields[i].value) IN
         With(LowerOperand(c, b, fields[1].value, later), LAMBDA t :
              LowerFields(c, Emit(t, [op |-> "Validate", from |-> t.slot,
                                      contract |-> fields[1].contract]),
                          Tail(fields), Append(done, t.slot)))
LowerConstruct(c, b, e) ==
    With(LowerFields(c, b, PayloadFields(e), <<>>), LAMBDA t :
        EmitTo(t, LAMBDA to : [op |-> "Enum", tag |-> e.tag, operands |-> t.slot, to |-> to]))

\* Each property is validated and stored as soon as it is evaluated, then the fields left
\* out are validated as None.
SetProperty(b, object, key, slot, contract) ==
    Emit(Emit(b, [op |-> "Validate", from |-> slot, contract |-> contract]),
         [op |-> "PropertySet", object |-> object, key |-> key, from |-> slot])
LowerProperties(c, b, e, properties) ==
    IF properties = <<>> THEN b
    ELSE With(LowerExpression(c, b, properties[1].value), LAMBDA t :
              LowerProperties(c, SetProperty(t, e.object, properties[1].key, t.slot,
                                             FieldContract(e, properties[1].key)),
                              e, Tail(properties)))
LowerTyped(c, b, e) ==
    LET absent == [i \in DOMAIN Missing(e) |-> [key |-> Missing(e)[i].key, value |-> Literal(None)]] IN
    IF InvalidProperties(e)
    THEN With(EmitTo(b, LAMBDA to : [op |-> "Literal", value |-> None, to |-> to]), LAMBDA none :
              Emit(none, [op |-> "Validate", from |-> none.slot, contract |-> "Never"]))
    ELSE With(EmitTo(b, LAMBDA to : [op |-> "TypedObject", to |-> to]), LAMBDA object :
              [LowerProperties(c, object, [declared |-> e.declared, object |-> object.slot],
                               e.properties \o absent) EXCEPT !.slot = object.slot])

\* Short-circuiting: both operands branch, and each outcome writes its Bool.
LogicalOutcomes(isOr, slot, state, dest) ==
    <<Branch(slot, state + 1, state + 3),
      [op |-> "Literal", value |-> Truth(TRUE), to |-> dest], Goto(state + 7, FALSE),
      [op |-> "Literal", value |-> Truth(FALSE), to |-> dest], Goto(state + 7, FALSE),
      [op |-> "Literal", value |-> Truth(isOr), to |-> dest], Goto(state + 7, FALSE)>>
LowerLogical(c, b, e) ==
    With(LowerExpression(c, b, e.left), LAMBDA left :
    With(LowerExpression(c, Emit(Temporary(left), Branch(left.slot, 0, 0)), e.right), LAMBDA right :
        LET branch == State(left)
            short == State(right) + 5 IN
        SetBranchTargets(
            [right EXCEPT !.ops = @ \o LogicalOutcomes(e.isOr, right.slot, State(right), left.next),
                          !.slot = left.next],
            branch, IF e.isOr THEN short ELSE branch + 1, IF e.isOr THEN branch + 1 ELSE short)))

\* The arm's payload bindings, in a scope of its own.
LowerPattern(c, b, subject, pattern) ==
    LET names == IF pattern.is = "Variant" THEN pattern.bindings ELSE <<>>
        Bound2[n \in 0..Len(names)] ==
            IF n = 0 THEN PushScope(b)
            ELSE With(EmitTo(Bound2[n - 1], LAMBDA to :
                          [op |-> "EnumField", from |-> subject, index |-> n, to |-> to]),
                      LAMBDA t : DefineSlot(c, t, names[n], t.slot)) IN
    Bound2[Len(names)]
LowerBody(c, b, body) ==
    IF body.is = "Expression" THEN LowerExpression(c, b, body.value)
    ELSE EmitTo(LowerAll(c, PushScope(b), body.block),
                LAMBDA to : [op |-> "Literal", value |-> UnitValue, to |-> to])
\* One arm, ending with its value in `dest` and a jump out of the match.
LowerArm(c, b, subject, arm, dest) ==
    With(LowerBody(c, LowerPattern(c, b, subject, arm.pattern), arm.body), LAMBDA t :
        Emit(Emit([t EXCEPT !.scopes = b.scopes], [op |-> "Copy", from |-> t.slot, to |-> dest]),
             Goto(0, FALSE)))

\* An arm that may be passed over tests its pattern first.
LowerTested(c, b, subject, arm, dest) ==
    IF arm.pattern.is = "Wildcard"
    THEN [LowerArm(c, b, subject, arm, dest) EXCEPT !.covered = TRUE]
    ELSE With(EmitTo(b, LAMBDA to :
                  [op |-> "Matches", pattern |-> arm.pattern, from |-> subject, to |-> to]),
              LAMBDA test :
         With(LowerArm(c, Emit(test, Branch(test.slot, 0, 0)), subject, arm, dest), LAMBDA t :
              SetBranchTargets(t, State(test), State(test) + 1, State(t))))

\* The arms in order, then the Error of a match that none of them covers.
LowerArms(c, b, arms, subject, dest, exits) ==
    IF arms = <<>>
    THEN With(IF b.covered THEN b ELSE Emit(b, [op |-> "MatchError", from |-> subject]),
              LAMBDA last : [SetGotoTargets(last, exits, State(last)) EXCEPT !.slot = dest])
    ELSE With(LowerTested(c, b, subject, arms[1], dest), LAMBDA t :
              LowerArms(c, t, Tail(arms), subject, dest, exits \union {State(t) - 1}))
LowerMatch(c, b, e) ==
    With(LowerExpression(c, b, e.subject), LAMBDA subject :
        [LowerArms(c, [Temporary(subject) EXCEPT !.covered = FALSE], e.arms,
                   subject.slot, subject.next, {}) EXCEPT !.covered = b.covered])

\* A closure binding is read before the arguments; a function runs as a child frame when it
\* may suspend.
LowerCallee(c, b, e) ==
    LET callee == Binding(b, e.callee) IN
    CASE callee.cell ->
            EmitTo(b, LAMBDA to : [op |-> "CellGet", cell |-> callee.slot, to |-> to])
      [] ~callee.cell /\ RunsStatements(e.operands) ->
            EmitTo(b, LAMBDA to : [op |-> "Copy", from |-> callee.slot, to |-> to])
      [] OTHER -> [b EXCEPT !.slot = callee.slot]
LowerCall(c, b, e) ==
    IF Visible(b, e.callee) # {}
    THEN With(LowerCallee(c, b, e), LAMBDA callee :
         With(LowerOperands(c, callee, e.operands, <<>>), LAMBDA t :
              EmitTo(t, LAMBDA to : [op |-> "ClosureCall", closure |-> callee.slot,
                                     operands |-> t.slot, to |-> to])))
    ELSE With(LowerOperands(c, b, e.operands, <<>>), LAMBDA t :
              EmitTo(t, LAMBDA to :
                  [op |-> IF c.program.units[e.callee].suspends THEN "ChildCall" ELSE "DirectCall",
                   unit |-> e.callee, operands |-> t.slot, to |-> to]))

LowerExpression(c, b, e) ==
    CASE e.is = "Literal" -> EmitTo(b, LAMBDA to : [op |-> "Literal", value |-> e.value, to |-> to])
      [] e.is = "Variable" ->
            IF Binding(b, e.name).cell
            THEN EmitTo(b, LAMBDA to :
                    [op |-> "CellGet", cell |-> Binding(b, e.name).slot, to |-> to])
            ELSE [b EXCEPT !.slot = Binding(b, e.name).slot]
      [] e.is = "Closure" ->
            LET names == c.program.units[e.key].captures IN
            EmitTo(b, LAMBDA to :
                [op |-> "Closure", key |-> e.key, to |-> to,
                 operands |-> [i \in DOMAIN names |-> Binding(b, names[i]).slot]])
      [] e.is = "Apply" -> LowerApply(c, b, e)
      [] e.is = "Formatted" -> LowerFormatted(c, b, e)
      [] e.is = "Construct" -> LowerConstruct(c, b, e)
      [] e.is = "Typed" -> LowerTyped(c, b, e)
      [] e.is = "Logical" -> LowerLogical(c, b, e)
      [] e.is = "Propagate" ->
            With(LowerExpression(c, b, e.operand), LAMBDA t :
                EmitTo(t, LAMBDA to : [op |-> "Propagate", from |-> t.slot, to |-> to]))
      [] e.is = "Match" -> LowerMatch(c, b, e)
      [] e.is = "Call" -> LowerCall(c, b, e)

\* --- Statements ------------------------------------------------------------------------
LowerAll(c, b, ss) == IF ss = <<>> THEN b ELSE LowerAll(c, LowerStatement(c, b, ss[1]), Tail(ss))
LowerBlock(c, b, ss) == [LowerAll(c, PushScope(b), ss) EXCEPT !.scopes = b.scopes]

LowerIf(c, b, st) ==
    With(LowerExpression(c, b, st.condition), LAMBDA condition :
    With(LowerBlock(c, Emit(condition, Branch(condition.slot, 0, 0)), st.then), LAMBDA then :
    With(LowerBlock(c, Emit(then, Goto(0, FALSE)), st.else), LAMBDA else :
        SetGotoTarget(SetBranchTargets(else, State(condition), State(condition) + 1, State(then) + 1),
                      State(then), State(else)))))

OpenLoop(b) == [b EXCEPT !.loops = Append(@, [breaks |-> {}, continues |-> {}])]
CloseLoop(b, breakTo, continueTo) ==
    LET loop == b.loops[Len(b.loops)] IN
    [SetGotoTargets(SetGotoTargets(b, loop.breaks, breakTo), loop.continues, continueTo)
        EXCEPT !.loops = SubSeq(@, 1, Len(@) - 1)]

LowerWhile(c, b, st) ==
    With(LowerExpression(c, b, st.condition), LAMBDA condition :
    With(LowerBlock(c, OpenLoop(Emit(condition, Branch(condition.slot, 0, 0))), st.body), LAMBDA body :
    With(Emit(body, Goto(State(b), TRUE)), LAMBDA looped :
        CloseLoop(SetBranchTargets(looped, State(condition), State(condition) + 1, State(looped)),
                  State(looped), State(b)))))

\* Takes the next item of a private copy, at the state the loop returns to.
EmitNextItem(b) ==
    EmitTo(b, LAMBDA to : [op |-> "NativeIterNext", from |-> b.slot, to |-> to,
                           when_item |-> State(b) + 1, when_done |-> 0])
LowerFor(c, b, st) ==
    With(LowerExpression(c, b, st.iterable), LAMBDA iterable :
    With(EmitTo(iterable, LAMBDA to : [op |-> "IterSnapshot", from |-> iterable.slot, to |-> to]),
         LAMBDA start :
    With(EmitNextItem(start), LAMBDA next :
    With(LowerAll(c, OpenLoop(DefineSlot(c, PushScope(next), st.name, next.slot)), st.body), LAMBDA body :
    With(Emit(body, Goto(State(start), TRUE)), LAMBDA looped :
        CloseLoop([looped EXCEPT !.ops[State(next)].when_done = State(looped), !.scopes = b.scopes],
                  State(looped), State(body)))))))

\* A `while`, `for` or `if` statement: one direct operation when it cannot suspend and can
\* yield where a module with `par` needs it to, graph states otherwise.
LowerStates(c, b, st) ==
    CASE st.is = "If" -> LowerIf(c, b, st)
      [] st.is = "While" -> LowerWhile(c, b, st)
      [] st.is = "For" -> LowerFor(c, b, st)
EmitDirect(c, b, st, facts) ==
    LET used == {x \in facts.names : Visible(b, x) # {}} IN
    Emit(b, [op |-> "Direct", statement |-> st,
             bindings |-> [x \in used |-> Binding(b, x).slot],
             assigned |-> {x \in used \intersect facts.assigned : ~Binding(b, x).cell},
             checkpoint |-> c.program.parallel /\ st.is = "While"])
Restartable(c, st, facts) == ~c.program.parallel \/ (~facts.nested /\ st.is # "For")
LowerCompound(c, b, st) ==
    With(FactsOf(st), LAMBDA facts :
    With(LowerStates(c, b, st), LAMBDA states :
        IF /\ ~facts.escapes
           /\ ~facts.excluded
           /\ Restartable(c, st, facts)
           /\ \A i \in State(b) + 1..State(states) : ~MaySuspend(states.ops[i])
        THEN EmitDirect(c, b, st, facts)
        ELSE states))

\* A `continue` that is no checkpoint.
LowerLoopBranchUnchecked(b, isBreak) ==
    LET loop == Len(b.loops)
        jump == Emit(b, Goto(0, FALSE)) IN
    IF isBreak THEN [jump EXCEPT !.loops[loop].breaks = @ \union {State(b)}]
    ELSE [jump EXCEPT !.loops[loop].continues = @ \union {State(b)}]

\* `break` and `continue` jump to targets their loop patches in later.
LowerLoopBranch(b, isBreak) ==
    LET loop == Len(b.loops)
        jump == Emit(b, Goto(0, ~isBreak)) IN
    IF isBreak THEN [jump EXCEPT !.loops[loop].breaks = @ \union {State(b)}]
    ELSE [jump EXCEPT !.loops[loop].continues = @ \union {State(b)}]

LowerStatement(c, b, st) ==
    CASE st.is = "Let" ->
            With(LowerExpression(c, b, st.value), LAMBDA t :
            With(EmitTo(t, LAMBDA to : [op |-> "Copy", from |-> t.slot, to |-> to]), LAMBDA bound :
                DefineSlot(c, bound, st.name, bound.slot)))
      [] st.is = "Assign" ->
            With(LowerExpression(c, b, st.value), LAMBDA t :
                LET target == Binding(b, st.name) IN
                Emit(t, IF target.cell THEN [op |-> "CellSet", cell |-> target.slot, from |-> t.slot]
                        ELSE [op |-> "Copy", from |-> t.slot, to |-> target.slot]))
      [] st.is = "IndexSet" ->
            With(LowerExpression(c, b, st.receiver), LAMBDA receiver :
            With(LowerExpression(c, receiver, st.index), LAMBDA index :
            With(LowerExpression(c, index, st.value), LAMBDA value :
                Emit(value, [op |-> "IndexSet",
                             operands |-> <<receiver.slot, index.slot, value.slot>>]))))
      [] st.is = "Return" ->
            With(LowerExpression(c, b, st.value), LAMBDA t :
                Emit(t, [op |-> "Return", from |-> t.slot]))
      [] st.is = "Do" -> LowerExpression(c, b, st.value)
      [] st.is = "Scope" -> LowerBlock(c, b, st.block)
      [] st.is \in {"If", "While", "For"} -> LowerCompound(c, b, st)
      [] st.is = "Break" -> LowerLoopBranch(b, TRUE)
      [] st.is = "Continue" -> LowerLoopBranch(b, FALSE)

\* The continuation graph of one unit: captures and parameters in the first slots, captured
\* parameters moved to Cells, the body, and the implicit return of Unit.
Graph(program, unit) ==
    LET c == Context(program, unit.contract)
        names == unit.captures \o unit.params
        captured == Len(unit.captures)
        slots == [x \in {names[i] : i \in DOMAIN names} |->
                     LET i == CHOOSE j \in DOMAIN names : names[j] = x IN
                     [slot |-> i - 1, cell |-> i <= captured \/ x \in c.cells]]
        empty == [scopes |-> <<slots>>, next |-> Len(names), ops |-> <<>>, loops |-> <<>>,
                  slot |-> 0, covered |-> FALSE]
        Cells[n \in 0..Len(unit.params)] ==
            IF n = 0 THEN empty
            ELSE IF unit.params[n] \notin c.cells THEN Cells[n - 1]
            ELSE Emit(Cells[n - 1], [op |-> "CellNew", from |-> captured + n - 1,
                                     to |-> captured + n - 1])
        none == EmitTo(LowerAll(c, Cells[Len(unit.params)], unit.body),
                       LAMBDA to : [op |-> "Literal", value |-> UnitValue, to |-> to]) IN
    With(none, LAMBDA last : [ops |-> Append(last.ops, [op |-> "Return", from |-> last.slot])])

\* The value every reader of a slot sees when one literal is its only writer.
Writes(operation) ==
    CASE operation.op = "Direct" -> {operation.bindings[x] : x \in operation.assigned}
      [] "to" \in DOMAIN operation /\ operation.op # "FormatPush" -> {operation.to}
      [] OTHER -> {}
Constants(graph) ==
    LET writers(slot) == {i \in DOMAIN graph.ops : slot \in Writes(graph.ops[i])}
        constant == {i \in DOMAIN graph.ops :
                        /\ graph.ops[i].op = "Literal"
                        /\ writers(graph.ops[i].to) = {i}} IN
    [slot \in {graph.ops[i].to : i \in constant} |->
        graph.ops[CHOOSE i \in constant : graph.ops[i].to = slot].value]

\* A resumable unit's graph and the values of its constant slots.
CompiledUnit(program, unit) ==
    With(Graph(program, unit), LAMBDA graph : [ops |-> graph.ops, constants |-> Constants(graph)])

\* A compiled program, with what its synchronous code computes.
CompiledModule(program) ==
    [program |-> program,
     code |-> [u \in {n \in DOMAIN program.units : program.units[n].suspends} |->
                  CompiledUnit(program, program.units[u])],
     expected |-> Outcome(program)]
=============================================================================
