------------------------------ MODULE Stepping ------------------------------
(* A resumable program at work: the step functions the StepEmitter emits    *)
(* for the continuation graphs of Lowering, run on durable frames.  Every   *)
(* action is one operation of the active frame; a unit may be left and      *)
(* resumed between any two of them, at a host call, in a child frame or at  *)
(* a scheduler checkpoint.  The synchronous code of the same program is the *)
(* reference it is compared with.                                           *)
EXTENDS Lowering, SequencesExt

CONSTANTS Modules,        \* the compiled programs examined, by an index
          MaxIterations   \* the most iterations a direct loop runs before it is made to yield

ASSUME ModulesAssumption == DOMAIN Modules # {}
ASSUME IterationsAssumption == MaxIterations \in Nat

VARIABLES module,    \* the compiled program being run
          frames,    \* the frames of its root task, innermost last
          world,     \* the heap and the effects so far
          answer,    \* the result of the host call in progress
          waiting,   \* whether the task waits for the runner to resume it
          result     \* what the entry returned
vars == <<module, frames, world, answer, waiting, result>>

\* A frame at its first state; a slot is there once it is written.
NewFrame(u, values, to) ==
    [unit |-> u, state |-> 0, to |-> to,
     slots |-> [i \in 0..Len(values) - 1 |-> values[i + 1]]]
WithSlot(slots, slot, v) == [i \in DOMAIN slots \union {slot} |-> IF i = slot THEN v ELSE slots[i]]

Init ==
    /\ \E m \in DOMAIN Modules : module = Modules[m]
    /\ frames = <<NewFrame("main", <<>>, 0)>>
    /\ world = EmptyWorld
    /\ answer = None
    /\ waiting = FALSE
    /\ result = None

Active == frames[Len(frames)]
Units == module.program.units
Code == module.code[Active.unit]
Operation == Code.ops[Active.state + 1]
Contract == Units[Active.unit].contract
At(op) == frames # <<>> /\ ~waiting /\ Operation.op = op

\* The value of a slot, or its constant.
GetSlot(slot) == IF slot \in DOMAIN Code.constants THEN Code.constants[slot]
                 ELSE Active.slots[slot]
GetSlots(slots) == [i \in DOMAIN slots |-> GetSlot(slots[i])]

\* The active frame continues at `state` after writing `slots`.
ContinueWith(state, slots) ==
    frames' = [frames EXCEPT ![Len(frames)].state = state, ![Len(frames)].slots = slots]
Continue1(state) == ContinueWith(state, Active.slots)
Store(slot, v) == ContinueWith(Active.state + 1, WithSlot(Active.slots, slot, v))

\* The active frame completes with `v`: its parent goes on with it, except that a fatal
\* Error completes every frame.
Complete(v) ==
    IF Len(frames) = 1 \/ IsFatal(v)
    THEN frames' = <<>> /\ result' = v
    ELSE /\ frames' = [Front(frames) EXCEPT ![Len(frames) - 1].slots = WithSlot(@, Active.to, v)]
         /\ UNCHANGED result

Quiet == UNCHANGED <<module, answer, waiting>>

\* --- Operations that compute a value ----------------------------------------------------
\* The value an operation stores in its destination and the world after it.
Computed(o) ==
    CASE o.op = "Literal" -> [value |-> o.value, world |-> world]
      [] o.op = "Copy" -> [value |-> GetSlot(o.from), world |-> world]
      [] o.op = "CellNew" ->
            LET w == Allocate(world, GetSlot(o.from)) IN
            [value |-> <<"cell", Newest(w)>>, world |-> w]
      [] o.op = "CellGet" -> [value |-> world.heap[GetSlot(o.cell)[2]], world |-> world]
      [] o.op = "Closure" ->
            [value |-> <<"closure", o.key, GetSlots(o.operands)>>, world |-> world]
      [] o.op = "Perform" -> Perform(o.perform, GetSlots(o.operands), world)
      [] o.op = "Enum" -> [value |-> <<"enum", o.tag, GetSlots(o.operands)>>, world |-> world]
      [] o.op = "Matches" ->
            [value |-> Truth(Matches(o.pattern, GetSlot(o.from))), world |-> world]
      [] o.op = "EnumField" -> [value |-> GetSlot(o.from)[3][o.index], world |-> world]
      [] o.op = "FormatNew" -> [value |-> <<"text", <<>>>>, world |-> world]
      [] o.op = "FormatPush" ->
            [value |-> <<"text", Append(GetSlot(o.to)[2], Rendered(GetSlot(o.from), world, 3))>>,
             world |-> world]
      [] o.op = "FormatFinish" -> [value |-> GetSlot(o.from), world |-> world]
      [] o.op = "TypedObject" ->
            LET w == Allocate(world, <<>>) IN [value |-> <<"object", Newest(w)>>, world |-> w]

ValueOperations == {"Literal", "Copy", "CellNew", "CellGet", "Closure", "Perform", "Enum",
                    "Matches", "EnumField", "FormatNew", "FormatPush", "FormatFinish",
                    "TypedObject"}

Compute ==
    /\ \E op \in ValueOperations : At(op)
    /\ LET done == Computed(Operation) IN
       /\ world' = done.world
       /\ Store(Operation.to, done.value)
    /\ Quiet /\ UNCHANGED result

\* --- Operations that change an existing object ---------------------------------------------
SetCell ==
    /\ At("CellSet")
    /\ world' = [world EXCEPT !.heap[GetSlot(Operation.cell)[2]] = GetSlot(Operation.from)]
    /\ Continue1(Active.state + 1)
    /\ Quiet /\ UNCHANGED result

SetProperty1 ==
    /\ At("PropertySet")
    /\ world' = [world EXCEPT !.heap[GetSlot(Operation.object)[2]] =
                    [k \in DOMAIN @ \union {Operation.key} |->
                        IF k = Operation.key THEN GetSlot(Operation.from) ELSE @[k]]]
    /\ Continue1(Active.state + 1)
    /\ Quiet /\ UNCHANGED result

SetIndex ==
    /\ At("IndexSet")
    /\ LET vs == GetSlots(Operation.operands)
           done == StoreIndex(vs[1], vs[2], vs[3], world) IN
       /\ world' = done.world
       /\ IF done.value # vs[3] THEN Complete(Escaping(done.value, Contract))
          ELSE Continue1(Active.state + 1) /\ UNCHANGED result
    /\ Quiet

\* --- Operations that may leave the unit -----------------------------------------------------
Check ==
    /\ At("Validate")
    /\ IF Conforms(GetSlot(Operation.from), Operation.contract)
       THEN Continue1(Active.state + 1) /\ UNCHANGED result
       ELSE Complete(Mismatch(Contract))
    /\ Quiet /\ UNCHANGED world

PropagateValue ==
    /\ At("Propagate")
    /\ LET p == Propagated(GetSlot(Operation.from), Contract) IN
       IF p.leaves THEN Complete(p.value)
       ELSE Store(Operation.to, p.value) /\ UNCHANGED result
    /\ Quiet /\ UNCHANGED world

NoArm ==
    /\ At("MatchError")
    /\ Complete(Escaping(Error("match"), Contract))
    /\ Quiet /\ UNCHANGED world

ReturnValue ==
    /\ At("Return")
    /\ LET v == GetSlot(Operation.from) IN
       Complete(IF Conforms(v, Contract) THEN v ELSE Mismatch(Contract))
    /\ Quiet /\ UNCHANGED world

\* --- Control -------------------------------------------------------------------------------
TakeBranch ==
    /\ At("Branch")
    /\ LET v == GetSlot(Operation.from) IN
       IF v[1] # "bool" THEN Complete(Escaping(Error("condition"), Contract))
       ELSE /\ Continue1(IF v[2] THEN Operation.when_true ELSE Operation.when_false)
            /\ UNCHANGED result
    /\ Quiet /\ UNCHANGED world

\* A jump; at a checkpoint the task may yield, and continues at the target when it runs again.
Jump ==
    /\ At("Goto")
    /\ Continue1(Operation.target)
    /\ Quiet /\ UNCHANGED <<world, result>>

TakeSnapshot ==
    /\ At("IterSnapshot")
    /\ LET items == Snapshot(GetSlot(Operation.from), world)
           w == Allocate(world, Reverse(items.items)) IN
       IF items.ok
       THEN world' = w /\ Store(Operation.to, <<"list", Newest(w)>>) /\ UNCHANGED result
       ELSE Complete(Escaping(items.error, Contract)) /\ UNCHANGED world
    /\ Quiet

\* The last item of the reversed snapshot is the next one.
NextItem ==
    /\ At("NativeIterNext")
    /\ LET list == GetSlot(Operation.from)[2]
           left == world.heap[list] IN
       IF left = <<>> THEN Continue1(Operation.when_done) /\ UNCHANGED world
       ELSE /\ world' = [world EXCEPT !.heap[list] = Front(left)]
            /\ ContinueWith(Operation.when_item, WithSlot(Active.slots, Operation.to, Last(left)))
    /\ Quiet /\ UNCHANGED result

\* --- Direct statements -----------------------------------------------------------------------
\* Synchronous code over locals loaded from the frame.  A checkpointing loop may yield before
\* any iteration: it stores its assigned bindings and later restarts at its condition.
Loaded(o) ==
    LET names == SetToSeq(DOMAIN o.bindings) IN
    Running(<<[x \in DOMAIN o.bindings |-> CHOOSE i \in DOMAIN names : names[i] = x]>>,
            [i \in DOMAIN names |-> GetSlot(o.bindings[names[i]])], world)
StoredBack(o, s) ==
    [slot \in DOMAIN Active.slots |->
        IF \E x \in o.assigned : o.bindings[x] = slot
        THEN s.locals[Lookup(s, CHOOSE x \in o.assigned : o.bindings[x] = slot)]
        ELSE Active.slots[slot]]
AfterDirect(o, s) ==
    /\ world' = s.world
    /\ IF s.flow = "return" THEN Complete(s.value)
       ELSE /\ ContinueWith(Active.state + (IF s.flow = "yield" THEN 0 ELSE 1), StoredBack(o, s))
            /\ UNCHANGED result
RunDirect ==
    /\ At("Direct")
    /\ LET c == Context(module.program, Contract)
           st == Operation.statement IN
       \/ /\ ~Operation.checkpoint
          /\ AfterDirect(Operation, Execute(c, st, Loaded(Operation)))
       \/ /\ Operation.checkpoint
          /\ \E n \in 0..MaxIterations \union {-1} :
                 AfterDirect(Operation, Iterate(c, st, Loaded(Operation), n))
    /\ Quiet

\* --- Calls ------------------------------------------------------------------------------------
StartChild(u, values) ==
    frames' = Append([frames EXCEPT ![Len(frames)].state = @ + 1],
                     NewFrame(u, values, Operation.to))

CallChild ==
    /\ At("ChildCall")
    /\ StartChild(Operation.unit, GetSlots(Operation.operands))
    /\ Quiet /\ UNCHANGED <<world, result>>

\* A call of a unit that cannot suspend runs it to its end.
Finished(done) ==
    /\ world' = done.world
    /\ IF IsFatal(done.value) THEN Complete(done.value)
       ELSE Store(Operation.to, done.value) /\ UNCHANGED result
CallDirect ==
    /\ At("DirectCall")
    /\ Finished(Invoke(module.program, Units[Operation.unit], <<>>,
                       GetSlots(Operation.operands), world))
    /\ Quiet

\* The closure decides at run time: one that may suspend runs as a child frame, any other
\* value is called like synchronous code.
CallClosure ==
    /\ At("ClosureCall")
    /\ LET f == GetSlot(Operation.closure)
           values == GetSlots(Operation.operands)
           unit == Units[f[2]]
           fits == Len(unit.params) = Len(values) IN
       CASE f[1] # "closure" -> Finished([value |-> Error("callable"), world |-> world])
         [] f[1] = "closure" /\ ~fits -> Finished([value |-> Error("arity"), world |-> world])
         [] f[1] = "closure" /\ fits /\ unit.suspends ->
                StartChild(f[2], f[3] \o values) /\ UNCHANGED <<world, result>>
         [] OTHER -> Finished(Invoke(module.program, unit, f[3], values, world))
    /\ Quiet

\* --- Host calls ---------------------------------------------------------------------------------
\* The host answers at once, or the task waits to be resumed at the next state.
StartHostCall ==
    /\ At("HostCall")
    /\ LET done == Perform("host", GetSlots(Operation.operands), world) IN
       world' = done.world /\ answer' = done.value
    /\ Continue1(Active.state + 1)
    /\ waiting' \in BOOLEAN
    /\ UNCHANGED <<module, result>>

Resume ==
    /\ waiting
    /\ waiting' = FALSE
    /\ UNCHANGED <<module, frames, world, answer, result>>

TakeAnswer ==
    /\ At("HostResume")
    /\ Store(Operation.to, answer)
    /\ answer' = None
    /\ UNCHANGED <<module, world, waiting, result>>

Finish == frames = <<>> /\ UNCHANGED vars

Next ==
    \/ Compute \/ SetCell \/ SetProperty1 \/ SetIndex
    \/ Check \/ PropagateValue \/ NoArm \/ ReturnValue
    \/ TakeBranch \/ Jump \/ TakeSnapshot \/ NextItem \/ RunDirect
    \/ CallChild \/ CallDirect \/ CallClosure
    \/ StartHostCall \/ Resume \/ TakeAnswer
    \/ Finish

Spec == Init /\ [][Next]_vars

-----------------------------------------------------------------------------
\* Where and how a program runs never shows: a program that may be suspended between any
\* two operations returns what its synchronous code returns, and its effects happen in the
\* same order (graph_builder.rs, graph_expression.rs and direct.rs against statements.rs and
\* expressions.rs).
LoweringsAgree ==
    frames = <<>> =>
        Observed(result, world) = module.expected

\* The states an operation may continue at in its own frame, other than the following one.
Targets(o) ==
    CASE o.op = "Goto" -> {o.target}
      [] o.op = "Branch" -> {o.when_true, o.when_false}
      [] o.op = "NativeIterNext" -> {o.when_item, o.when_done}
      [] OTHER -> {}

RECURSIVE HasLoop(_)
HasLoop(ss) ==
    \E i \in DOMAIN ss :
        \/ ss[i].is \in {"While", "For"}
        \/ ss[i].is = "If" /\ (HasLoop(ss[i].then) \/ HasLoop(ss[i].else))
        \/ ss[i].is = "Scope" /\ HasLoop(ss[i].block)

\* In a module with `par` no task can hold the scheduler off by looping: a state only leads
\* back to an earlier one through a checkpoint, and a loop that runs as synchronous code
\* either checks the scheduler before each of its iterations or is not there (flow.rs and
\* direct.rs).
LoopsCheckpoint ==
    frames # <<>> /\ module.program.parallel =>
        \A i \in DOMAIN Code.ops :
            LET o == Code.ops[i] IN
            /\ \A t \in Targets(o) : t < i => o.op = "Goto" /\ o.checkpoint
            /\ o.op = "Direct" =>
                /\ o.statement.is # "For"
                /\ o.statement.is = "While" => o.checkpoint /\ ~HasLoop(o.statement.body)
                /\ o.statement.is = "If" => ~HasLoop(<<o.statement>>)
=============================================================================
