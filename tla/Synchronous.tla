---------------------------- MODULE Synchronous ----------------------------
(* What the synchronous code of one unit computes: the code                 *)
(* FunctionCompiler emits, run on Wasm locals.  A state s of a running unit *)
(* holds the compile-time scopes (names to local indices), the locals, the  *)
(* world, the value on the stack, the locals of evaluated operands, and how *)
(* control leaves the construct just run: "on", "break", "continue",        *)
(* "return", or "yield" when a loop ran as many iterations as it was given. *)
EXTENDS Syntax, CoreOperations, FiniteSetsExt

\* The context of the unit being compiled.
Context(program, contract) ==
    [program |-> program, cells |-> CellNames(program), contract |-> contract]

Running(scopes, locals, world) ==
    [scopes |-> scopes, locals |-> locals, world |-> world, flow |-> "on",
     value |-> UnitValue, at |-> 0]

Bound(s, x) == {i \in DOMAIN s.scopes : x \in DOMAIN s.scopes[i]}
Lookup(s, x) == s.scopes[Max(Bound(s, x))][x]

Push(s, v) == [s EXCEPT !.value = v]
Leave(s, v) == [s EXCEPT !.flow = "return", !.value = v]
\* Continues with Next(s) unless control already left.
Then(s, Next(_)) == IF s.flow = "on" THEN Next(s) ELSE s
\* Pops the value into a new local.
StoreNew(s) == [s EXCEPT !.locals = Append(@, s.value), !.at = Len(s.locals) + 1]

\* Binds `x` in the innermost scope to the local just stored, wrapped in a new Cell when a
\* closure captures the name.
WrapInCell(c, x, s) ==
    IF x \in c.cells
    THEN LET w == Allocate(s.world, s.locals[s.at]) IN
         [s EXCEPT !.world = w, !.locals[s.at] = <<"cell", Newest(w)>>]
    ELSE s
Define(c, x, s) ==
    LET t == WrapInCell(c, x, s) IN
    [t EXCEPT !.scopes[Len(t.scopes)] =
        [n \in DOMAIN @ \union {x} |-> IF n = x THEN t.at ELSE @[n]]]

PushBinding(c, x, s) ==
    LET v == s.locals[Lookup(s, x)] IN
    Push(s, IF x \in c.cells THEN s.world.heap[v[2]] ELSE v)
AssignBinding(c, x, s) ==
    LET at == Lookup(s, x) IN
    IF x \in c.cells
    THEN [s EXCEPT !.world.heap[s.locals[at][2]] = s.value]
    ELSE [s EXCEPT !.locals[at] = s.value]

\* The value as a condition: anything but a Bool leaves the function.
Condition(c, s) ==
    IF s.value[1] = "bool" THEN s ELSE Leave(s, Escaping(Error("condition"), c.contract))

\* Operators whose operands may stay in the binding's own local.
Aliasing == {"add", "less"}

\* The operands of a chain of `+`, left to right; of anything else, its own operands.
RECURSIVE Chain(_)
Chain(e) ==
    IF e.operands[1].is = "Apply" /\ e.operands[1].op = "add"
    THEN Append(Chain(e.operands[1]), e.operands[2])
    ELSE e.operands
OperandsOf(e) == IF e.op = "add" THEN Chain(e) ELSE e.operands

RECURSIVE Evaluate(_, _, _), Operands(_, _, _, _, _), Fields(_, _, _, _),
          ConstructTyped(_, _, _), Parts(_, _, _, _), Arms(_, _, _, _),
          Invoke(_, _, _, _, _), EvaluateCall(_, _, _), EvaluateLogical(_, _, _),
          Execute(_, _, _), ExecuteAll(_, _, _), Block(_, _, _), Iterate(_, _, _, _),
          ForEach(_, _, _, _)

\* Evaluates es[1..] in order into locals; the result's `at` is the sequence of them.
Operands(c, es, aliasing, s, done) ==
    IF es = <<>> THEN [s EXCEPT !.at = done]
    ELSE LET stable == aliasing /\ ~RunsStatements(Tail(es))
             e == es[1]
             t == IF stable /\ e.is = "Variable" /\ e.name \notin c.cells
                  THEN [s EXCEPT !.at = Lookup(s, e.name)]
                  ELSE Then(Evaluate(c, e, s), StoreNew) IN
         Then(t, LAMBDA q : Operands(c, Tail(es), aliasing, q, Append(done, q.at)))

Values(s) == [i \in DOMAIN s.at |-> s.locals[s.at[i]]]

\* Performs `op` on the operand locals; a chain of `+` adds left to right.
Operate(op, s) ==
    LET vs == Values(s)
        Sum[n \in 1..Len(vs)] ==
            IF n = 1 THEN vs[1] ELSE Perform("add", <<Sum[n - 1], vs[n]>>, s.world).value
        done == Perform(op, vs, s.world) IN
    IF op = "add" THEN Push(s, Sum[Len(vs)])
    ELSE [s EXCEPT !.value = done.value, !.world = done.world]

\* Checked fields of an enum constructor or a nominal Object, in source order.
Fields(c, fields, s, done) ==
    IF fields = <<>> THEN [s EXCEPT !.at = done]
    ELSE Then(Then(Evaluate(c, fields[1].value, s), StoreNew), LAMBDA q :
         IF Conforms(q.value, fields[1].contract)
         THEN Fields(c, Tail(fields), q, Append(done, q.at))
         ELSE Leave(q, Mismatch(c.contract)))

\* The fields an enum constructor checks.
PayloadFields(e) ==
    [i \in DOMAIN e.operands |-> [value |-> e.operands[i], contract |-> e.contracts[i]]]

\* The declared contract of the field `key`.
FieldContract(e, key) ==
    LET i == CHOOSE j \in DOMAIN e.declared : e.declared[j].key = key IN
    e.declared[i].contract
Written(e) == {e.properties[i].key : i \in DOMAIN e.properties}
\* An undeclared or repeated property makes the whole construction fail first.
InvalidProperties(e) ==
    \/ Written(e) \ {e.declared[i].key : i \in DOMAIN e.declared} # {}
    \/ Cardinality(Written(e)) < Len(e.properties)
Missing(e) == SelectSeq(e.declared, LAMBDA f : f.key \notin Written(e))

ConstructTyped(c, e, s) ==
    LET checked == Fields(c, [i \in DOMAIN e.properties |->
                                 [value |-> e.properties[i].value,
                                  contract |-> FieldContract(e, e.properties[i].key)]],
                          s, <<>>)
        object(q) == [k \in {e.declared[i].key : i \in DOMAIN e.declared} |->
                         IF \E i \in DOMAIN e.properties : e.properties[i].key = k
                         THEN q.locals[q.at[CHOOSE i \in DOMAIN e.properties :
                                               e.properties[i].key = k]]
                         ELSE None] IN
    IF InvalidProperties(e) THEN Leave(s, Mismatch(c.contract))
    ELSE Then(checked, LAMBDA q :
         IF \E i \in DOMAIN Missing(e) : ~Conforms(None, Missing(e)[i].contract)
         THEN Leave(q, Mismatch(c.contract))
         ELSE LET w == Allocate(q.world, object(q)) IN
              [q EXCEPT !.world = w, !.value = <<"object", Newest(w)>>])

\* Every part of a formatted string is rendered as soon as it is evaluated.
Parts(c, es, s, done) ==
    IF es = <<>> THEN Push(s, <<"text", done>>)
    ELSE Then(Evaluate(c, es[1], s), LAMBDA q :
              Parts(c, Tail(es), q, Append(done, Rendered(q.value, q.world, 3))))

\* Whether an arm's pattern matches `v`.
Matches(pattern, v) ==
    CASE pattern.is = "Wildcard" -> TRUE
      [] pattern.is = "Literal" -> v = pattern.value
      [] pattern.is = "Variant" -> v[1] = "enum" /\ v[2] = pattern.tag

BindFields(c, names, subject, s) ==
    LET Bind[n \in 0..Len(names)] ==
          IF n = 0 THEN [s EXCEPT !.scopes = Append(@, <<>>)]
          ELSE Define(c, names[n], StoreNew(Push(Bind[n - 1], subject[3][n]))) IN
    Bind[Len(names)]

Arms(c, arms, subject, s) ==
    IF arms = <<>> THEN Leave(s, Escaping(Error("match"), c.contract))
    ELSE IF ~Matches(arms[1].pattern, subject) THEN Arms(c, Tail(arms), subject, s)
    ELSE LET names == IF arms[1].pattern.is = "Variant" THEN arms[1].pattern.bindings ELSE <<>>
             q == BindFields(c, names, subject, s)
             body == arms[1].body
             t == IF body.is = "Expression" THEN Evaluate(c, body.value, q)
                  ELSE Then(ExecuteAll(c, body.block, [q EXCEPT !.scopes = Append(@, <<>>)]),
                            LAMBDA r : Push(r, UnitValue)) IN
         [t EXCEPT !.scopes = s.scopes]

\* What a unit yields when its body leaves off at `s`: Unit when it falls off its end.
ReturnOf(unit, s) ==
    [world |-> s.world,
     value |-> CASE s.flow = "return" -> s.value
                 [] Conforms(UnitValue, unit.contract) -> UnitValue
                 [] OTHER -> Mismatch(unit.contract)]

\* A fresh frame of locals; captured parameters move to Cells.
Entered(c, unit, cells, arguments, w) ==
    LET names == unit.captures \o unit.params
        scope == [x \in {names[i] : i \in DOMAIN names} |->
                     CHOOSE i \in DOMAIN names : names[i] = x]
        Wrapped[n \in 0..Len(unit.params)] ==
            IF n = 0 THEN Running(<<scope>>, cells \o arguments, w)
            ELSE WrapInCell(c, unit.params[n],
                            [Wrapped[n - 1] EXCEPT !.at = Len(cells) + n]) IN
    Wrapped[Len(unit.params)]

\* Runs a unit on argument values.
Invoke(program, unit, cells, arguments, w) ==
    LET c == Context(program, unit.contract) IN
    ReturnOf(unit, ExecuteAll(c, unit.body, Entered(c, unit, cells, arguments, w)))

\* After a direct call: a fatal Error leaves the caller too.
Returned(done, s) ==
    LET t == [s EXCEPT !.value = done.value, !.world = done.world] IN
    IF IsFatal(done.value) THEN Leave(t, done.value) ELSE t

\* A closure binding is read after the arguments; other names are functions.
EvaluateCall(c, e, s) ==
    Then(Operands(c, e.operands, FALSE, s, <<>>), LAMBDA q :
      IF Bound(q, e.callee) = {}
      THEN Returned(Invoke(c.program, c.program.units[e.callee], <<>>, Values(q), q.world), q)
      ELSE LET f == PushBinding(c, e.callee, q).value
               unit == c.program.units[f[2]] IN
           IF f[1] # "closure" THEN Push(q, Error("callable"))
           ELSE IF Len(unit.params) # Len(e.operands)
                THEN Returned([value |-> Error("arity"), world |-> q.world], q)
           ELSE Returned(Invoke(c.program, unit, f[3], Values(q), q.world), q))

EvaluateLogical(c, e, s) ==
    Then(Evaluate(c, e.left, s), LAMBDA l :
    Then(Condition(c, l), LAMBDA q :
      IF q.value[2] = e.isOr THEN Push(q, Truth(e.isOr))
      ELSE Then(Evaluate(c, e.right, q), LAMBDA r : Condition(c, r))))

Evaluate(c, e, s) ==
    CASE e.is = "Literal" -> Push(s, e.value)
      [] e.is = "Variable" -> PushBinding(c, e.name, s)
      [] e.is = "Closure" ->
            LET names == c.program.units[e.key].captures IN
            Push(s, <<"closure", e.key, [i \in DOMAIN names |-> s.locals[Lookup(s, names[i])]]>>)
      [] e.is = "Apply" ->
            Then(Operands(c, OperandsOf(e), e.op \in Aliasing, s, <<>>),
                 LAMBDA q : Operate(e.op, q))
      [] e.is = "Formatted" -> Parts(c, e.parts, s, <<>>)
      [] e.is = "Construct" ->
            Then(Fields(c, PayloadFields(e), s, <<>>),
                 LAMBDA q : Push(q, <<"enum", e.tag, Values(q)>>))
      [] e.is = "Typed" -> ConstructTyped(c, e, s)
      [] e.is = "Logical" -> EvaluateLogical(c, e, s)
      [] e.is = "Propagate" ->
            Then(Evaluate(c, e.operand, s), LAMBDA q :
              LET p == Propagated(q.value, c.contract) IN
              IF p.leaves THEN Leave(q, p.value) ELSE Push(q, p.value))
      [] e.is = "Match" ->
            Then(Evaluate(c, e.subject, s), LAMBDA q : Arms(c, e.arms, q.value, StoreNew(q)))
      [] e.is = "Call" -> EvaluateCall(c, e, s)

\* Statements in order, then the end of their scope.
ExecuteAll(c, ss, s) ==
    IF ss = <<>> THEN s
    ELSE Then(Execute(c, ss[1], s), LAMBDA q : ExecuteAll(c, Tail(ss), q))
Block(c, ss, s) ==
    [ExecuteAll(c, ss, [s EXCEPT !.scopes = Append(@, <<>>)]) EXCEPT !.scopes = s.scopes]

\* Where a loop goes after its body: `continue` and falling off the end go on.
AfterBody(s) == IF s.flow = "continue" THEN [s EXCEPT !.flow = "on"] ELSE s
AfterLoop(s) == IF s.flow = "break" THEN [s EXCEPT !.flow = "on"] ELSE s

\* A `while` loop of at most `n` iterations (no bound when n is negative).
Iterate(c, loop, s, n) ==
    IF n = 0 THEN [s EXCEPT !.flow = "yield"]
    ELSE Then(Then(Evaluate(c, loop.condition, s), LAMBDA q : Condition(c, q)), LAMBDA q :
         IF ~q.value[2] THEN q
         ELSE LET t == AfterBody(Block(c, loop.body, q)) IN
              AfterLoop(Then(t, LAMBDA r : Iterate(c, loop, r, n - 1))))

\* A `for` loop over a private copy of the items.
ForEach(c, loop, items, s) ==
    IF items = <<>> THEN s
    ELSE LET q == Define(c, loop.name, StoreNew(Push([s EXCEPT !.scopes = Append(@, <<>>)],
                                                     items[1])))
             t == AfterBody([ExecuteAll(c, loop.body, q) EXCEPT !.scopes = s.scopes]) IN
         AfterLoop(Then(t, LAMBDA r : ForEach(c, loop, Tail(items), r)))

Execute(c, st, s) ==
    CASE st.is = "Let" ->
            Then(Evaluate(c, st.value, s), LAMBDA q : Define(c, st.name, StoreNew(q)))
      [] st.is = "Assign" ->
            Then(Evaluate(c, st.value, s), LAMBDA q : AssignBinding(c, st.name, q))
      [] st.is = "IndexSet" ->
            Then(Operands(c, <<st.receiver, st.index, st.value>>, FALSE, s, <<>>), LAMBDA q :
              LET vs == Values(q)
                  done == StoreIndex(vs[1], vs[2], vs[3], q.world) IN
              IF done.value # vs[3] THEN Leave(q, Escaping(done.value, c.contract))
              ELSE [q EXCEPT !.world = done.world])
      [] st.is = "Return" ->
            Then(Evaluate(c, st.value, s), LAMBDA q :
              Leave(q, IF Conforms(q.value, c.contract) THEN q.value
                       ELSE Mismatch(c.contract)))
      [] st.is = "Do" -> Evaluate(c, st.value, s)
      [] st.is = "Scope" -> Block(c, st.block, s)
      [] st.is = "If" ->
            Then(Then(Evaluate(c, st.condition, s), LAMBDA q : Condition(c, q)), LAMBDA q :
              Block(c, IF q.value[2] THEN st.then ELSE st.else, q))
      [] st.is = "While" -> Iterate(c, st, s, -1)
      [] st.is = "For" ->
            Then(Evaluate(c, st.iterable, s), LAMBDA q :
              LET items == Snapshot(q.value, q.world) IN
              IF items.ok THEN ForEach(c, st, items.items, q)
              ELSE Leave(q, Escaping(items.error, c.contract)))
      [] st.is = "Break" -> [s EXCEPT !.flow = "break"]
      [] st.is = "Continue" -> [s EXCEPT !.flow = "continue"]

\* What can be seen of a run.
Observed(value, w) == [result |-> Rendered(value, w, 4), trace |-> w.trace]
OutcomeOf(done) == Observed(done.value, done.world)
\* What a program computes when its entry runs as synchronous code.
Outcome(program) ==
    OutcomeOf(Invoke(program, program.units["main"], <<>>, <<>>, EmptyWorld))
=============================================================================
