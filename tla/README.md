# Formal models of ExS

TLA+ models of the ExS system in `src/` - a small language compiled to WebAssembly, its
runtime inside the module and the runners that execute it - with TLC runs on small
instances and TLAPS proofs. Module text refers to the Rust sources by file and function;
`PROJECT.json` maps every definition to the lines it stands for.

## The system and its parts

An ExS source is compiled to one Wasm module: generated code linked with a runtime
template (`exs-core`). A *runner* (server: Wasmtime, browser: JavaScript) instantiates the
module and drives one *execution*: it calls the start export, hands over the answers of
host calls through the resume export, and reads the result image. Inside the module the
generated step functions and the scheduler of `exs-core` run *tasks* cooperatively. A guest
may also be written in Rust with `exs-guest`, which speaks the same exports.

| Part | State | Operations | Interacts by | What must hold |
|---|---|---|---|---|
| task scheduler (`exs-core/src/tasks`) | task objects, linked run queue, registers of the running task, shared Error trace, join counters | start, checkpoint, call, return, par start and join, suspend, deliver, end | calls from generated code; permits and host calls of the runner | run queue exact; joins neither early nor lost; the answer reaches its task; no scheduler deadlock; permits exact; FIFO |
| resumable codegen (`codegen/continuation`, `codegen/resumable`) | frames, slots, resume points | lowering to a graph, emission of steps, run loop, checkpoints | calls the scheduler; must agree with synchronous code | same effects in the same order as the synchronous code wherever it is suspended; loops yield |
| server runner (`exs-runner/src/lib.rs`) | guest status, pending futures, pc of the drive loop | execute, poll, complete, respond, cancel | Wasm exports and imports, host futures | no call lost or answered twice; cancellation and deadline end it; errors named after their cause |
| host ABI state (`host_abi.rs`) | ready responses and their bytes, pending table, slots, streams, permits, limits | imports of the guest | called from guest code, drained by the drive loop | counters exact, limits kept, one consumer per stream |
| cancellation (`cancellation.rs`, `deadline.rs`) | flag, list of wakers | cancel, register, refresh, unregister, poll, drop | shared by executions and threads through a mutex | no lost wake-up, no leaked waker |
| timer (`timer.rs`) | two tables, condition variable, per-sleep flag and waker | register, cancel, poll, complete | one thread, any number of executors | no lost wake-up, never early, nothing left behind |
| heap (`allocator.rs`, `pages.rs`, `collector.rs`, `memory.rs`) | page headers, free runs, free lists with cursors, mark bits, mark stack | allocate, collect | called from all runtime code | live objects are kept and not overlapped, free lists are disjoint |
| browser runner (`exs-runner/src/browser`) | controllers, executions, promises, streams, the kept module | load, execute, drive over `Promise.race`, cancel, release | JavaScript event loop | every call answered once and to its caller; cancellation ends what waits |
| Rust guest (`exs-guest`) | one execution, buffers, responses, call ids | exports of `execution.rs`, `HostCall` futures | the same exports | the protocol of compiled modules |
| value boundary (`exs-abi`, `exs-core/src/image*.rs`, `wire.rs`, serde) | image under construction, adopted objects on the root stack | write, read, adopt, decode, serialize | both sides of the Wasm boundary | a value arrives as it left; limits are the same on both sides; nothing is freed half way |
| module graph, linker, constants (`loaded_project.rs`, `module_graph.rs`, `constants.rs`) | loaded sources, import edges, the search for cycles, bindings, linked declarations | load, search, bind, resolve, inline, rewrite | compiler | exactly what is reachable is loaded; a name denotes what scope and visibility say |
| unit analysis (`reachability.rs`, resumable analysis, captures, ranges) | worklists over functions and closures | fixpoints | compiler | what can run is compiled, what can suspend is resumable, captures are lexical |
| parser and formatter (`parser/`, `formatter.rs`) | token cursor; writer with pending comments | parse, format | command line, editor | formatting keeps the meaning and every comment, and is stable |
| module cache, registry, built-in methods, runtime template, standard libraries, command line, completion, highlighting | none that outlives a call, or see *Not modelled* | | | |

Hard behaviours: tasks interleave at checkpoints; host answers come in any order; a
cancellation, the clock or the timer may strike between any two steps of the drive loop;
wakers are registered, refreshed and taken by several threads; limits are counted by hand
beside the tables they bound; memory runs out in helper calls; one program is compiled by
two code generators; passes over syntax trees each walk them with code of their own and may
disagree about which names, units and types there are. `hazards` in `PROJECT.json` lists
each at its line with the properties that cover it.

## Modules

Runtime and runners (state machines):

| Module | Models | State and actions |
|---|---|---|
| `StructuredTasks` | what the scheduler promises a program: a tree of tasks, each ready, asking the host or joined; a join gets all results in source order | abstract specification |
| `Tasks` | scheduler, frames, guest host calls and the generated dispatch loop, one execution | `vm` and `saved` are the registers in `VmState.task` and in task objects, `queue` the linked run queue, `trace` the Error trace stack; one action per step of generated code up to its next scheduling point (`LoopCheckpoint`, `Call`, `Return`, `HostCallPending`, `ParallelStart`, `CompleteChild`, ...) and one per export (`Start`, `Resume`, `Cancel`). `Schedule` is `scheduler::schedule` with the trace rebuilt |
| `Runner` | `execute_with` with `HostAbiState`, limiter, deadline, cancellation, one execution | `pc` is the place in `execute_with`, `abi` the `HostAbiState`, `pending` and `cursor` the vector and index of `poll_fn`; the guest is any sequence of imports, growth, traps, yields and returns, or with `Conforming` one that keeps the protocol of `Tasks` |
| `Cancellation` | the futures of executions that share a cancellation control | each critical section of the mutex, and each step of `CancellableHostFuture::poll`, is an action |
| `Timer` | `TimerService`, its thread and the sleeps | each critical section is an action; the flag `completed` is set and read outside of the mutex |
| `ObjectHeap` | what the heap promises generated code: what a root reaches keeps its address and contents, a new object is unlike those | abstract specification |
| `Heap` | page runs, size classes and the collector, under code that moves references between roots and fields | `runs` holds the page headers and the list of free runs, `cells` the free list and cursor of each class, `marker` the `Marker`; allocation and collection go root by root, object by object and run by run, so that what holds half way can be stated |
| `Guest`, `Browser` | an instance of a Rust guest, as operators from instance to instance; the browser runner that drives several of them over JavaScript promises | `kept` is the module compiled last with its controller, `controller` and `id` say which controller an execution is one of and its identity there; `running` is the execution on the JavaScript stack; every `await` is the end of an action, so that another execution may come in between |

Compiler and values (operators, with a state machine that runs what they produce):

| Module | Models |
|---|---|
| `Syntax`, `CoreOperations` | the tree both code generators lower, and the core operations that emitted code calls |
| `Synchronous` | what the synchronous code of a unit computes, statement by statement, on locals |
| `Lowering` | `GraphBuilder`: how a resumable unit becomes a flat graph of operations over frame slots |
| `Stepping` | the emitted step functions at work on durable frames, suspended anywhere, beside the synchronous code of the same program |
| `Loading` | the loader and its search for cycles: a step is one import, one prefix of a path or one edge; `files`, `edges`, `libraries` and `bytes` are the fields of `Loader`, `index`, `imported`, `named` and `segments` the places of its loops, `states` and `stack` those of `find_cycle`, each stacked source with the next edge its frame of `visit` will follow |
| `SourceTree`, `Linking` | the parser's tree; binding, constants and rewriting of a loaded project, and a definition of what a name denotes |
| `Units`, `Analysis`, `Execution` | units and captures of a linked program; reachability, suspension, type and string tables, counted ranges; the program running by the meaning of its source |
| `Parsing`, `Declarations`, `Formatting` | the recursive-descent parser over tokens; the formatter with its replay of comments and blank lines |
| `ExsValues`, `Images`, `GuestValues`, `Adoption`, `Bindings`, `RustValues`, `Crossing` | values and limits; images with both writers and readers; values on the heap of a module with the root stack; adoption and comparison; annotated bindings decoded against a wire schema; the serde layer; one call across the boundary |

`TasksProofs`, `RunnerProofs`, `CancellationProofs`, `TimerProofs`, `BrowserProofs`,
`HeapProofs`, `CollectorProofs` and `LoadingProofs` hold theorems and proofs. A module `MCx` only
gives the corpora and constants of the run of `x`.

How they fit: `Tasks` is shown to implement `StructuredTasks` (`ImplementsStructuredTasks`)
and `Heap` to implement `ObjectHeap` (`ImplementsObjectHeap`). `Runner` abstracts the guest,
`Tasks` the runner; each assumes of the other what the other's properties give:
`CallIdsFresh` and `PendingCanResume` of `Tasks` are the protocol `Conforming` stands for,
`CallsSound` of `Runner` is what `Resume` of `Tasks` relies on. In the same way `Wake` of
`Runner` relies on `InterruptsEnd` of `Cancellation`, whose `TimerSignals` relies on
`DueSleepsEnd` of `Timer`. `Stepping` takes the scheduler as `Tasks` promises it: a frame
continues where it was left. `Linking` takes the steps of `Loading` first and leaves its
variables alone from then on, so that what `LoadSpec` keeps true is true of linking as well.
`GuestValues` assumes of the collector what `Heap` shows, that
exactly what no root reaches is freed.

Abstractions. Of `Tasks`, `Runner` and `Browser`: a task is named by the order of its
creation, a value by where it comes from (the response to call c is c), a response by its
size; frame contents, encodings and texts are left out. The quantum's wrapping countdown is
modelled; the 64-bit identifiers of wakers, sleeps and calls are taken not to overflow. Of
the compiler: names are sequences of segments, a failure is its diagnostic code, tokens are
strings, indentation and the spelling of literals are left out, a condition is
nondeterministic in `Execution`. Of values: a text by its byte length and character count
where only these matter, a record of an image by its offset and not by its bytes, integers
of 32 bits where the code has 64, and no exhausted memory.

## Runs

| Run | Question and result | Bounds |
|---|---|---|
| `tasks` | safety, action, refinement and liveness properties of the scheduler hold | 4 tasks, 2 host calls, quantum 2, trace of 2: nested `par` with two siblings, answers in both orders, an overfull trace, a quantum that ends inside a call |
| `runner` | with a conforming guest no call is lost or doubled, streams have one consumer, no protocol error is reported; with any guest the budgets are exact and cancellation and deadline end the execution | two guests in one run: a conforming one with 5 ids, so that a slot is used again, 4 calls and 1 stream; any guest, with 2 ids which it may reuse, 3 calls, 2 streams and sizes 1 and 3 around the byte limit 2. 2 slots, 1 ready response, 1 task |
| `cancellation` | no wake-up is lost, no registration leaks or is removed by another; cancel and deadline end a waiting execution | one execution, two futures, two wakers; the theorems cover more executions on one control |
| `timer` | sleeps end when due and not before, wake-ups are not lost, tables stay exact | two sleeps, two wakers, instants 0 and 1: a due one and a future one |
| `heap` | pages and cells are handed out once, a collection keeps exactly what the roots reach, reachable objects keep their place and contents | 3 pages, one class with 2 cells a page, large objects of 2 pages, 2 root slots, 3 objects with 1 field, which a chain needs for a rescan to push: the mark stack of one entry overflows, grows beside class pages, or is rescanned and fills again |
| `browser` | every answer reaches the call that asked; a stream has one consumer, nothing is kept of an execution that is over, and only the end of an execution of another controller with the same identity can take a stream away; every execution ends, a cancelled one without entering its guest again | 2 executions of one or of two modules, loaded and run at once; 1 stream, which two consumers can ask, and 2 other operations. `NamedInOrder` leaves out behaviours that differ in the names of executions and modules only, which no action tells apart |
| `lowering` | resumable code has the effects, in order, and the result of synchronous code; its loops reach checkpoints | every two of 16 operands in 13 contexts, every two of 16 statements in both loops, with and without `par`; 2 iterations |
| `linking` | exactly the reachable sources are loaded, and every name denotes what scope and visibility say | 2,304 graphs of 5 sources with room for all or for 3, 4 sizes at or over the byte limits, about 5,000 probes of names, scopes, declarations, tests and imports |
| `units` | what a run enters is compiled, what it suspends in is resumable, tables hold what it asks for, captures are lexical | about 6,100 programs, frames 6 deep, 1 iteration |
| `formatting` | the output parses to the same module, is stable, and keeps comments and documentation | about 36,000 sources: 38 expression forms inside each other and in 12 statements, declarations and blocks with gaps |
| `formatting_annotations` | violated: a type annotation of `let` and `for` is not written | the same with annotated bindings |
| `values` | what the host sends the program sees, and the reverse; limits agree on both sides; a Rust value makes the round trip | about 7,900 values two or three layers deep, 15 annotations, 17 Rust types, native depth 2, value depth 3 |

Each passing run fires every action of its modules. The counts are the smallest in which two
actors interfere and a third value is distinguished from both; the theorems below show the
safety properties of `Tasks`, `Runner`, `Cancellation`, `Timer`, `Browser` and `Loading`, and
allocation and collection of the heap, for all values.
The corpora of the compiler runs are products, so that every form meets every other form in
every place, and not samples.

Properties were chosen from the hazards. Among them: `JoinCounts` and `PendingCanResume`
(the scheduler cannot wake a parent early, or hand back an execution nothing can resume),
`SchedulerConsistent` and `TraceExact` (run queue, quanta and the shared Error trace after
every switch), `CallsSound` (each awaited call is in exactly one of table, drive loop and
hand-over), `SleeperIsReachable` and `SleepersSound` (the lost wake-up stated as an
invariant), `LoweringsAgree` (two code generators, one meaning), `SuspensionSound` (no
synchronous caller of what suspends), `HostSeesValue` and `ProgramSeesValue` (with a
collection at every allocation, so that a missing root shows).

### Fairness

- `Tasks`: the dispatch loop runs (`WF GuestStep`); a running task reaches checkpoints again
  and again, because every loop's back edge and every resumable call is one
  (`SF SchedulingPoint`; `LoopsCheckpoint` shows it of the lowering). The runner owes nothing.
- `Runner`: the executor polls a woken execution; the unguarded exports return. Code in the
  start and resume exports need not return, but its fuel makes it yield (`WF GuestLeaves`).
- `Cancellation`: a woken execution is polled and its poll goes on, `cancel` wakes all it
  took, the timer signals what is due. Nobody has to cancel or to answer.
- `Timer`: woken sleeps are polled, and the thread runs. Spurious wake-ups, unasked polls,
  drops and the clock are not owed. The model lets a wake-up count only on the waker of the
  last poll, which is the weakest contract of a Rust future.
- `Browser`: the event loop runs what is ready, a guest on the stack returns control, and
  the Promise of a host function settles in the end (the browser runner has no deadline of
  its own, so without that an execution may wait forever).

### Findings

- `formatting_annotations`: the formatter drops the type annotation of `let` and `for`
  bindings, so formatting a program changes what it checks, although its comment promises
  canonical source of the same module.

### Observations

Other disagreements met while modelling. Those of the compiler and of values are left out of
a corpus, so that the run can ask about the rest. Where a set or a value is named, giving it
to the constant makes TLC find the property violated.

- Browser: `mod.rs:95` promises stream state "isolated to one root execution". Identities of
  executions restart with each controller while all controllers share one table of streams
  (`bindings.rs:62`), and `load` awaits between its look at the kept module and its own
  controller. Two executions that start at once, or one of another module while the first
  runs, have one identity; the end of one releases the open streams of the other. The run
  `browser` contains these executions; `StreamsReleased` says what is true of them, and the
  promise, `StreamsIsolated`, is violated in a behaviour of ten states under the same constants.
- Runner: `guest_limiter.rs:5` promises that a trap after a refused growth is reported as the
  exceeded memory limit; `write_input` and `write_response` (`lib.rs:647` and `575`) do not
  look. `RefusalReported` as an invariant with `Guest <- MCCompiled` shows it.
- Resumable lowering of an index or property assignment reads its receiver and index after
  the value has rebound them (`graph_builder.rs:115` hands out the slot of the binding);
  synchronous code reads them before: `LoweringsAgree` with `Modules <- AssignmentModules`
  of `MCStepping`. Synchronous `a + b + c` and the callee of a closure call are read in
  another order than in resumable code.
- `module_graph.rs:1066` leaves a name that a library does not know as it is, so that it
  links to a declaration of the root, also a private one: `NamesDenote` with
  `Cases <- UnboundCases` of `MCLinking`. `rewrite_expression` does not look at locals for a
  callee.
- Suspension analysis does not count a loop in a closure body (`analysis.rs:101`), so that
  synchronous code calls a resumable `next`: `SuspensionSound` with
  `CaseKeys <- ClosureCaseKeys` of `MCUnits`. The walk over assignment targets does not enter
  the blocks of match arms (`reachability.rs:345`), so that a valid program fails with E0999:
  `TablesComplete` with `CaseKeys <- ArmCaseKeys`. `used_types` of an assignment visits the
  value and not the target.
- Values: the cause of an Error is not rooted while the Error is allocated (`image.rs:575`),
  so that a collection there leaves it dangling: `ProgramSeesValue` with
  `CaseKeys <- MCCauseKeys` of `MCCrossing`. A host value decoded into a prelude `Range` is
  not iterable. `Color::Red == {}` is true. Nominal unions convert by the first fitting
  member; an Object bound to a type is adopted unchecked. The host reader ignores character
  counts and repeated keys, and its nesting limit is off by one from the writer's.
- Cancellation: `expires_at` falls back to the start of the execution when the instant
  overflows, so that a very long timeout ends at once, while `is_expired` never comes true.
  `LastInstant` smaller than `Timeout` shows it.
- Formatter: `(x is T) < y` and `(x is T) is U` lose their parentheses; so does an Object
  literal at the start of a statement, match arm or closure body that an operator follows;
  receivers of assignments are written at the lowest strength (`(a + b).c = 1`); string keys
  that spell a keyword become bare; `while (y == E::A) {}` reads as a literal of fields; a
  trailing `///` comment moves above the next declaration.
- Lexer: the start byte of a formatted string inside another is relative to the inner text
  (`lexer.rs:519`).
- The comment "Waiting in the run queue" of `TaskState::Runnable` is not true of the root
  task before its first stop; harmless.

## Proofs

Every theorem holds for all values of the constants under the assumptions named in the
modules (`TasksAssumption`, `RunnerAssumption`, `CancellationAssumption`, `TimerAssumption`,
`BrowserAssumption`, `HeapAssumption`, `ProjectsAssumption`): the constants are naturals, positive where the code
has positive constants, sets of futures and sleeps are numbered, sets of executions are
finite, there are finitely many size classes, none of them called "large", no address is `Nil`, and
what a project imports, names and provides are sources (`IsProject`), as the resolver is a
function from paths to sources or nothing.

`TasksProofs`: `TypeCorrect`, `RunQueueIsExact`, `OneTaskRuns`, `JoinsCount`,
`CallsHaveWaiters`, `PermitsAreExact`, `TasksTakeOwnResponse`, `QuantumStaysArmed`,
`PendingIsResumable`, `CallIdsAreFresh`, `WaitingTasksAreUndisturbed`, and from them
`SchedulerIsConsistent` and `CallsAreConsistent`, the properties of the run. They follow from
one inductive invariant, `IInv`. The properties alone are not inductive: that a woken parent
is queued once needs that its state says it waits (`TreeInv`: inner tasks are in state
`children` and children are younger than parents), that the counters reach zero exactly when
the last child completes needs `JoinInv`, and that a delivered response belongs to its task
needs the one-to-one `CallInv` with `ResumeInv`, which says where waiting tasks continue.
`QueueInv`, `CallInv` and `ResumeInv` take the state as parameters, so that `ScheduleInv` and
`ScheduleIInv` can be stated of the intermediate state an action passes to `Schedule`.
`NextInv` has one lemma per group of actions. `PendingIsResumable` (no scheduler deadlock) is
an induction on the age of tasks: the youngest live task has no children, so in a pending
execution it waits for the host.

Also in `TasksProofs`: `TraceIsExact` and `QueueIsFirstInFirstOut`. `RebuildTrace` is recursive over
parents, `Entries` over frames; both are instances of one chain (`ChainStep`), for which
existence (`ChainExists`), the recursive equation (`ChainIs`) and agreement on closed sets of
places (`ChainsAgree`) are proved once, each by the least place where it fails. From them
`RebuildSame` (equal frames of a task and its ancestors give equal traces) and
`RebuildIs`. `TraceInv` adds to `TraceExact` that the trace of every live task also fits
while the execution is pending, and that parents are older than children, without which the
recursion is not one. One lemma per step then shows both that `TraceInv` is kept and what
the step *shows* of the tasks (`Shows`): their modes, calls and responses, whichever task
runs afterwards.

`TasksProofs` ends with `TasksImplementStructuredTasks`, the refinement of `StructuredTasks`.
With `Shows`, a switch of tasks is invisible to the structured tasks, and every step maps to one
of theirs: a checkpoint, call or return to a stutter, `HostCallPending` to `Ask`, a resumed
call to `Answer`, `HostCallTake` to `Read`, a completed child to `Finish`, the end to `Over`.
It needs two more invariants: `ReadInv` (a task that does not wait for the host or is about
to take a response has neither call nor response, so that nobody asks twice or finds an old
answer) and `ResultInv` (an element of a result List without a value belongs to a child that
lives, so that the List is complete when the last child is gone). `JoinInv` gives that the
counter reaches zero exactly when the finishing child is the only one left.

`RunnerProofs`: `CallsAreSound` and `BudgetsHold`, for any limits and any guests: what the
host counts is what it holds. The invariant states the owned bytes as the cardinality of a
set of pairs, one per byte (`OwnedBytes`), since a sum over a set is an induction; `Delivery`
says what the driver has in hand between two imports. The calls are accounted for under
`Conforming` only, as in the run: a guest that reuses an id is refused, which the budgets
cover.

`CancellationProofs`: `ControlIsSound` (the list is exactly what waiting futures registered)
and `SleepersAreReachable` (no lost wake-up), for any number of executions on one control.
`RegistrationsOwned` needs that identifiers are given once (`IdentifierInv`);
`SleeperIsReachable` speaks of sleeping executions and is not inductive, because a poll
collects its registrations one by one: `Reaches` says what holds of the futures a poll has
passed, and of the one whose registration it is about to check again. `UnregisterList` is the
lemma about `swap_remove`.

`TimerProofs`: `SleepersAreSound` (the two tables agree, whoever sleeps has its waker where
the thread will find it, the thread's wait covers the earliest deadline, nobody is woken
early), for any number of sleeps. Its inductive invariant follows a sleep from registration
through the hands of the thread.

`BrowserProofs`: `CallsAreMatched`, `CancellationTakesEffect` and `StreamsAreReleased`, for
any executions of any modules, loaded and run at once in any order, and any operations.
`CallsInv` gives every awaited call one place and `OpsInv` says that operations stay what they
were made as, across every `await`. `ControllersInv` says that a controller gives no identity
twice, so that executions which share one have different controllers; `StreamsInv` that what
the table holds of a stream belongs to the execution that opened it and goes with it
(`Belongs`), and that an execution which lost a stream it needs shares its identity with one
that is over. That no execution loses one (`StreamsIsolated`) is what the code promises and
does not keep, see *Observations*.

`HeapProofs`: `SpaceIsSound`, for any number of pages, any classes and cells, objects of any
size and a mark stack of any capacity: no page and no cell is handed out twice, through first
fit with the split of a run, carving, the mark stack that moves to a run twice as long, the
cells linked at the cursor, and the sweep that rebuilds all lists. The walk of the runs is a
recursive function (`RunStarts`); `Tiling` states without recursion what it reaches, and
`RunStartsAre` shows the two equal, by the least page where they differ. From there every
change of the runs is one of four changes of a tiling (`CarveTiling`, `SplitTiling`,
`MergeTiling`, or a new header), and `TakenReused` and `ReleasedFreed` say of `take_pages`
and `release_run` which runs stay. What holds outside a sweep (`GoodRuns`) does not hold
within: `Swept` says that the list holds the free runs below the pages found and not yet
released, and that the mark stack is not among these, `SweptCells` that no list and no cursor
is left in them. That a freed page has no cell in a list needs that lists have cells below
the front of the sweep only, and that its cursor is dropped with it, which is the hazard at
`allocator.rs:137`. `Traced` and `Dead` are folds: `RepeatedKeeps` is the
induction, once for all.

`CollectorProofs`: `CollectionIsExact` (a collection keeps exactly what the roots reach and
leaves no mark) and `HeapImplementsObjectHeap`, for the same heaps and any graph of objects,
with a mark stack that overflows and is rescanned any number of times.
- `Reachable` iterates a step as often as there are objects; `LeastReached` shows that the
  iteration has then come to the least set that the references do not leave, since a step that
  adds nothing is the last and every other adds an object. The proofs use this set only.
- `ReachInv` is the invariant beside `IInv`. Between collections references lead to objects of
  the heap and nothing is marked. While marking, `Colored` says that only reachable objects
  are marked, and that a marked object has its references marked, or is on the stack, or the
  overflow flag is set, or the rescan has not come to it; so when the stack is empty and the
  flag is not set, the marked objects are those the roots reach (`DrainEndReach`). An object
  that was marked without being pushed is covered by the flag until the rescan begins and by
  its place from then on; an overflow during the rescan sets the flag again.
- `SweepInv` says that behind the sweep objects are reachable and without mark, before it
  marked exactly if reachable. That no object moves or appears when pages are released, and
  that exactly those of the run go that the sweep frees, is `FlushedRoom` and `AddRoom`, on
  the set of addresses that may hold objects (`Room`).
- `Effect` lists what a step can do to objects and references; each maps to an action of
  `ObjectHeap` or to a stutter, and a step of the sweep to `Reclaim`, with `Reachable` as what
  stays.

`LoadingProofs`: `LoadTypeCorrect` and `SourcesAreLoadedExactly` (`LoadedExactly`), for any
project, with cycles, wrong imports and sources found in any order, and any limits. What a
project should load is defined without the loader: the least set with the root that imports
and named libraries do not leave (`Reachable`), and a part of it in which everybody imports
somebody of the part (`Circular`), which a finite set has just when there is a cycle.
- `FilesInv` says that what is loaded was reached, `ScanInv` that what was scanned, up to the
  import or prefix the loops have come to, has its imports and libraries loaded. When nothing is
  left to scan the loaded sources are closed, and so all that is reached (`LoadedReachable`).
  That an edge leads where its import says although the source was found before by another
  path is `EdgeExact`, which needs that no two loaded sources share an identity.
- `SearchInv` is about the depth-first search. `StackInv`: the stack holds just the sources
  being visited, each leads to the next, and its earlier edges lead to visited sources. So an
  edge back to a source being visited closes a cycle (`BackEdge`; the position that
  `find_cycle` looks for always exists), and a source that is left leads to visited sources
  only. No circular part of the visited sources exists: one that contains the source just left
  would without it be circular too.
- The property alone is not inductive: it says nothing while the loader or the search is at
  work.

The limits are in the model; that a project refused with `E0010` exceeds one depends on the
order in which its sources are found, and no property states it.

Checked by TLC only: all liveness (`QueuedTasksRun`, `InterruptsStop`, `InterruptsEnd`,
`DueSleepsEnd`, `ExecutionsEnd`), which needs ENABLED; and the other compiler modules and the
value modules, whose operators are recursive and whose properties compare what two recursive definitions
compute. Liveness under fairness and induction over data are out of the prover's reach.

## Not modelled

- Module cache: two short critical sections over one vector; the second looks again under its
  lock. Registry: built before executions start, read only afterwards.
- Meaning of built-in methods on numbers, texts, bytes and dates, standard libraries (I/O and
  text formats), highlighting, documentation pages, completion, command line.
- Of code generation: the Wasm instructions themselves, layout of tables and the generated
  text of type checks; in `Lowering`, methods and trait operators inside resumable bodies and
  how `par` fills its List; in `Units`, constants and private methods.
- Of the heap: widths, the kinds of objects, static objects, and the buffer runs that
  `execution.rs` takes; when the allocation volume demands a collection is a free choice.
- Of the parser: characters of tokens, escapes, the nesting limit and recovery after an
  error. Comments appear between declarations, statements and members only.
- Of the modelled parts: Wasmtime itself, the contents of frames, the executor, panics inside
  a critical section (locks recover from poisoning), and, in `Runner`, several executions at
  once, which share only the cache, the control and the timer.
