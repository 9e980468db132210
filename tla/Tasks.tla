-------------------------------- MODULE Tasks --------------------------------
(***************************************************************************)
(* The tasks of one resumable execution: the cooperative scheduler of      *)
(* exs-core (tasks/scheduler.rs, frames.rs, host.rs) together with the     *)
(* dispatch loop the compiler generates around it (codegen/resumable/).    *)
(*                                                                         *)
(* The guest is one Wasm instance on one thread, so every action below is  *)
(* what one step function does up to its next scheduling point.  What the  *)
(* program computes is left open: at each step the running task may pass a *)
(* checkpoint, call, return, call the host, start a `par` or trap.  The    *)
(* runner is reduced to what it does to the guest: it answers the calls it *)
(* accepted as pending, in any order, or cancels the execution.            *)
(*                                                                         *)
(* A task is named by the order of its creation (its heap address in the   *)
(* code), and a value by what it came from: the response to host call c is *)
(* c, the result of the `par` child t is t, and 0 is "no value".           *)
(***************************************************************************)
EXTENDS Integers, Sequences, FiniteSets

CONSTANTS
  MaxTasks,     \* bound of the model: tasks one execution creates
  MaxCalls,     \* bound of the model: host calls one execution starts
  TaskQuantum,  \* TASK_QUANTUM, checkpoints a task passes before it yields
  TraceLimit,   \* entries the VM's trace stack holds
  TaskLimit     \* task permits the runner grants

ASSUME TasksAssumption ==
  /\ MaxTasks \in Nat \ {0}
  /\ MaxCalls \in Nat
  /\ TaskQuantum \in Nat \ {0}
  /\ TraceLimit \in Nat \ {0}
  /\ TaskLimit \in Nat \ {0}

VARIABLES
  phase,        \* what the runner last saw of the execution
  current,      \* VmState.task.current, 0 when no task runs
  vm,           \* the running task's registers in VmState.task
  state,        \* the state word of each task object, "none" when not linked
  saved,        \* the registers each task object keeps while it does not run
  resume,       \* where each task's active frame continues
  queue,        \* the run queue, head first
  parent,       \* TaskObject.parent, 0 for the root task
  index,        \* TaskObject.index, the child's element of the result List
  waiting,      \* TaskObject.waiting, `par` children not completed
  results,      \* the result List of the `par` each task waits in
  trace,        \* the VM's Error trace stack, outermost first
  permits,      \* task permits the runner has handed out
  outstanding,  \* host calls the runner keeps pending
  nextTask,     \* the next task created
  nextCall      \* VmState.task.next_host_call

vars == <<phase, current, vm, state, saved, resume, queue, parent, index,
          waiting, results, trace, permits, outstanding, nextTask, nextCall>>

TaskId == 1..MaxTasks
Root == 1

(* The trace word of a frame that records no Error trace entry. *)
Untraced == 0

Ended == {"complete", "cancelled", "trapped"}

NoRegisters == [frames |-> <<>>, ready |-> 0, hostCall |-> 0, quantum |-> 0]

Live == {t \in TaskId : state[t] # "none"}
Children(p) == {t \in Live : parent[t] = p}
Queued == {queue[i] : i \in DOMAIN queue}
-----------------------------------------------------------------------------
(* The trace entries among the words of the frames, outermost first. *)
Entries(frames) ==
  LET entries[i \in 0..Len(frames)] ==
        IF i = 0 THEN <<>>
        ELSE entries[i - 1] \o (IF frames[i] = Untraced THEN <<>> ELSE <<frames[i]>>)
  IN  entries[Len(frames)]

(* The trace entries of the task t and of the tasks it was started from,   *)
(* outermost first, from the frames their objects keep.                    *)
RebuildTrace(regs, parents, t) ==
  LET traceOf[u \in 0..MaxTasks] ==
        IF u = 0 THEN <<>> ELSE traceOf[parents[u]] \o Entries(regs[u].frames)
  IN  traceOf[t]

(* Runs the first task of the queue q, or leaves the guest to the runner   *)
(* when it is empty, once the caller left the tasks in the states st with  *)
(* the registers regs.  A rebuilt trace that does not fit traps.           *)
Schedule(q, st, regs, parents) ==
  /\ saved' = regs
  /\ \/ /\ q = <<>>
        /\ phase' = "pending"
        /\ current' = 0
        /\ vm' = [vm EXCEPT !.frames = <<>>, !.ready = 0, !.hostCall = 0]
        /\ state' = st
        /\ queue' = q
        /\ UNCHANGED trace
     \/ /\ q # <<>>
        /\ LET t == Head(q)
               rebuilt == RebuildTrace(regs, parents, t)
           IN  /\ phase' = IF Len(rebuilt) > TraceLimit THEN "trapped" ELSE "running"
               /\ trace' = rebuilt
               /\ current' = t
               /\ vm' = regs[t]
               /\ state' = [st EXCEPT ![t] = "running"]
        /\ queue' = Tail(q)

(* The task objects' registers once the running task stopped with the      *)
(* registers regs.                                                         *)
StoppedFrameOnly(regs) == [saved EXCEPT ![current].frames = regs.frames]

Stopped(regs) == [saved EXCEPT ![current] = regs]

(* The registers of a new task with the given frames. *)
TaskRegisters(frames) ==
  [frames |-> frames, ready |-> 0, hostCall |-> 0, quantum |-> TaskQuantum]

(* The run queue with the task t appended. *)
EnqueueBehindHead(q, t) == IF q = <<>> THEN <<t>> ELSE <<Head(q), t>> \o Tail(q)

Enqueue(q, t) == Append(q, t)

(* The same without the yield. *)
PassCheckpointAlone(regs, top, left) ==
  /\ vm' = [regs EXCEPT !.quantum = IF left = 0 THEN TaskQuantum ELSE left]
  /\ trace' = top
  /\ UNCHANGED <<phase, current, state, saved, queue>>

(* The running task, whose registers are regs and whose trace is top,      *)
(* passes a checkpoint with left more to go.  At 0 its quantum restarts    *)
(* and it yields to the run queue, unless that is empty.                   *)
PassCheckpoint(regs, top, left) ==
  \/ /\ left # 0 \/ queue = <<>>
     /\ vm' = [regs EXCEPT !.quantum = IF left = 0 THEN TaskQuantum ELSE left]
     /\ trace' = top
     /\ UNCHANGED <<phase, current, state, saved, queue>>
  \/ /\ left = 0
     /\ queue # <<>>
     /\ Schedule(Enqueue(queue, current), [state EXCEPT ![current] = "runnable"],
                 Stopped([regs EXCEPT !.quantum = TaskQuantum]), parent)

(* The permits given back when every task ends. *)
Released == Cardinality({t \in Live : parent[t] # 0}) + 1

(* Every task ends: the permits of the `par` children and then the root    *)
(* task's are released and the scheduler is cleared.  Unanswered calls     *)
(* stay with the runner, which drops them with the execution.              *)
EndTasks(ended) ==
  /\ phase' = ended
  /\ permits' = permits - Released
  /\ current' = 0
  /\ vm' = [NoRegisters EXCEPT !.quantum = vm.quantum]
  /\ state' = [t \in TaskId |-> "none"]
  /\ saved' = [t \in TaskId |-> NoRegisters]
  /\ queue' = <<>>
  /\ trace' = <<>>
  /\ UNCHANGED <<resume, parent, index, waiting, results, outstanding,
                 nextTask, nextCall>>
-----------------------------------------------------------------------------
Init ==
  /\ phase = "idle"
  /\ current = 0
  /\ vm = NoRegisters
  /\ state = [t \in TaskId |-> "none"]
  /\ saved = [t \in TaskId |-> NoRegisters]
  /\ resume = [t \in TaskId |-> "step"]
  /\ queue = <<>>
  /\ parent = [t \in TaskId |-> 0]
  /\ index = [t \in TaskId |-> 0]
  /\ waiting = [t \in TaskId |-> 0]
  /\ results = [t \in TaskId |-> <<>>]
  /\ trace = <<>>
  /\ permits = 0
  /\ outstanding = {}
  /\ nextTask = 1
  /\ nextCall = 1

(* __exs_start_<name> with too many arguments: the ArityError is the       *)
(* result before any task exists.                                          *)
StartArityError ==
  /\ phase = "idle"
  /\ phase' = "complete"
  /\ UNCHANGED <<current, vm, state, saved, resume, queue, parent, index, waiting,
                 results, trace, permits, outstanding, nextTask, nextCall>>

(* __exs_start_<name>: the root task starts as the running task with one   *)
(* traced frame.  frame_start leaves its state word at Runnable.           *)
Start ==
  /\ phase = "idle"
  /\ phase' = "running"
  /\ permits' = permits + 1
  /\ current' = Root
  /\ vm' = TaskRegisters(<<Root>>)
  /\ state' = [state EXCEPT ![Root] = "runnable"]
  /\ saved' = [saved EXCEPT ![Root] = vm']
  /\ trace' = <<Root>>
  /\ nextTask' = Root + 1
  /\ UNCHANGED <<resume, queue, parent, index, waiting, results, outstanding, nextCall>>

(* The running task is about to take the given kind of step. *)
Running(at) == phase = "running" /\ resume[current] = at

(* The back edge of a loop. *)
LoopCheckpoint ==
  /\ Running("step")
  /\ PassCheckpoint(vm, trace, vm.quantum - 1)
  /\ UNCHANGED <<resume, parent, index, waiting, results, permits, outstanding,
                 nextTask, nextCall>>

(* The trace stack has room for one more entry. *)
TraceRoom == Len(trace) < TraceLimit

(* A call of a resumable function: its frame becomes the active one and    *)
(* records its trace entry, then the call is a checkpoint.                 *)
Call ==
  /\ Running("step")
  /\ TraceRoom
  /\ PassCheckpoint([vm EXCEPT !.frames = Append(@, current)], Append(trace, current),
                    IF vm.quantum = 0 THEN 0 ELSE vm.quantum - 1)
  /\ UNCHANGED <<resume, parent, index, waiting, results, permits, outstanding,
                 nextTask, nextCall>>

Top(s) == s[Len(s)]
Pop(s) == SubSeq(s, 1, Len(s) - 1)

(* The trace once the active frame returned to its caller. *)
TraceAfterReturnKept == trace

TraceAfterReturn == IF Top(vm.frames) # Untraced THEN Pop(trace) ELSE trace

(* The active frame returns a value that is no fatal Error to its caller. *)
Return ==
  /\ Running("step")
  /\ Len(vm.frames) > 1
  /\ vm' = [vm EXCEPT !.frames = Pop(@)]
  /\ trace' = TraceAfterReturn
  /\ UNCHANGED <<phase, current, state, saved, resume, queue, parent, index, waiting,
                 results, permits, outstanding, nextTask, nextCall>>

(* The children of p not completed once one more completed. *)
LeftWaitingStale(p) == waiting[p]

LeftWaiting(p) == IF waiting[p] = 0 THEN 0 ELSE waiting[p] - 1

(* Whether a completed child leaves its parent p nothing to wait for. *)
WakesParentAlways(p, left) == TRUE

WakesParentAtFirst(p, left) == state[p] = "children"

WakesParentEarly(p, left) == left = 1 /\ state[p] = "children"

WakesParent(p, left) == left = 0 /\ state[p] = "children"

(* The element of the result List the child t fills, counted from 1. *)
Element(t) == index[t] + 1

(* The root frame of a `par` child returns: the child fills its element of *)
(* the result List, the last sibling makes the parent runnable, and the    *)
(* next task of the run queue runs.                                        *)
CompleteChild ==
  /\ Running("step")
  /\ Len(vm.frames) = 1
  /\ parent[current] # 0
  /\ LET p == parent[current]
         left == LeftWaiting(p)
         wakes == WakesParent(p, left)
         gone == [state EXCEPT ![current] = "none"]
     IN  /\ waiting' = [waiting EXCEPT ![p] = left]
         /\ results' = [results EXCEPT ![p][Element(current)] = current]
         /\ Schedule(IF wakes THEN Enqueue(queue, p) ELSE queue,
                     IF wakes THEN [gone EXCEPT ![p] = "runnable"] ELSE gone,
                     Stopped(NoRegisters), parent)
  /\ permits' = permits - 1
  /\ UNCHANGED <<resume, parent, index, outstanding, nextTask, nextCall>>

(* The root task's root frame returns, or any frame returns a fatal Error. *)
Complete ==
  /\ Running("step")
  /\ EndTasks("complete")

(* Host::call that is answered at once: by a local TypeError, which takes  *)
(* no call id, by a SerializationError, or by the runner.  The result is   *)
(* taken in the same step.                                                 *)
HostCallReady ==
  /\ Running("step")
  /\ nextCall <= MaxCalls
  /\ nextCall' \in {nextCall, nextCall + 1}
  /\ vm' = [vm EXCEPT !.ready = 0, !.hostCall = 0]
  /\ UNCHANGED <<phase, current, state, saved, resume, queue, parent, index, waiting,
                 results, trace, permits, outstanding, nextTask>>

(* The id the next host call gets once this one took its own. *)
NextCallId == nextCall + 1

(* The states of the tasks once the running one waits for the runner. *)
Suspended == [state EXCEPT ![current] = "host"]

(* Host::call the runner keeps pending: the task suspends. *)
HostCallPending ==
  /\ Running("step")
  /\ nextCall <= MaxCalls
  /\ nextCall' = NextCallId
  /\ outstanding' = outstanding \cup {nextCall}
  /\ resume' = [resume EXCEPT ![current] = "take"]
  /\ Schedule(queue, Suspended,
              Stopped([vm EXCEPT !.hostCall = nextCall]), parent)
  /\ UNCHANGED <<parent, index, waiting, results, permits, nextTask>>

(* HostResume: the task takes the response it was resumed with.  Without   *)
(* one the runner has no ready response either and the guest traps.        *)
HostCallTake ==
  /\ Running("take")
  /\ phase' = IF vm.ready = 0 THEN "trapped" ELSE phase
  /\ vm' = [vm EXCEPT !.ready = 0, !.hostCall = 0]
  /\ resume' = [resume EXCEPT ![current] = "step"]
  /\ UNCHANGED <<current, state, saved, queue, parent, index, waiting, results,
                 trace, permits, outstanding, nextTask, nextCall>>

(* A `par` of n closures: its children are created in source order with an *)
(* untraced root frame, then the parent waits for them.                    *)
ParallelStart(n) ==
  LET new == nextTask .. nextTask + n - 1
      parents == [t \in TaskId |-> IF t \in new THEN current ELSE parent[t]]
      started == [t \in TaskId |-> IF t \in new THEN "runnable" ELSE state[t]]
  IN  /\ Running("step")
      /\ nextTask + n - 1 <= MaxTasks
      /\ permits + n <= TaskLimit
      /\ nextTask' = nextTask + n
      /\ permits' = permits + n
      /\ parent' = parents
      /\ index' = [t \in TaskId |-> IF t \in new THEN t - nextTask ELSE index[t]]
      /\ waiting' = [waiting EXCEPT ![current] = @ + n]
      /\ results' = [results EXCEPT ![current] = [i \in 1..n |-> 0]]
      /\ resume' = [resume EXCEPT ![current] = "join"]
      /\ Schedule(queue \o [i \in 1..n |-> nextTask + i - 1],
                  [started EXCEPT ![current] = "children"],
                  [t \in TaskId |-> IF t \in new THEN TaskRegisters(<<Untraced>>)
                                   ELSE Stopped(vm)[t]],
                  parents)
      /\ UNCHANGED <<outstanding, nextCall>>

(* A dynamic `par` of an empty List waits for nothing. *)
ParallelEmpty ==
  /\ Running("step")
  /\ results' = [results EXCEPT ![current] = <<>>]
  /\ resume' = [resume EXCEPT ![current] = "join"]
  /\ UNCHANGED <<phase, current, vm, state, saved, queue, parent, index, waiting,
                 trace, permits, outstanding, nextTask, nextCall>>

(* ParallelTake: the result List becomes the value of the `par`. *)
ParallelTake ==
  /\ Running("join")
  /\ results' = [results EXCEPT ![current] = <<>>]
  /\ resume' = [resume EXCEPT ![current] = "step"]
  /\ UNCHANGED <<phase, current, vm, state, saved, queue, parent, index, waiting,
                 trace, permits, outstanding, nextTask, nextCall>>

(* The guest traps: memory, the trace stack, the permits or the runner's   *)
(* limits are exhausted.  Nothing of a trapped instance is used again.     *)
Trap ==
  /\ phase = "running"
  /\ phase' = "trapped"
  /\ UNCHANGED <<current, vm, state, saved, resume, queue, parent, index, waiting,
                 results, trace, permits, outstanding, nextTask, nextCall>>
-----------------------------------------------------------------------------
(* The live tasks that wait for host call c. *)
AnyWaiters(c) == {t \in Live : state[t] = "host"}

Waiters(c) == {t \in Live : state[t] = "host" /\ saved[t].hostCall = c}

(* __exs_resume_host: the runner answers the pending call c.  A call no    *)
(* task waits for is refused with STATUS_CANCELLED.                        *)
Resume(c) ==
  /\ phase = "pending"
  /\ c \in outstanding
  /\ outstanding' = outstanding \ {c}
  /\ IF Waiters(c) = {}
     THEN /\ phase' = "refused"
          /\ UNCHANGED <<current, vm, state, saved, queue, trace>>
     ELSE \E t \in Waiters(c) :
            Schedule(Enqueue(queue, t), [state EXCEPT ![t] = "runnable"],
                     [saved EXCEPT ![t].ready = c], parent)
  /\ UNCHANGED <<resume, parent, index, waiting, results, permits, nextTask, nextCall>>

(* __exs_cancel, which the runner calls while the guest is suspended. *)
Cancel ==
  /\ phase = "pending"
  /\ EndTasks("cancelled")

(* The runner calls an ended instance no more. *)
Terminated == phase \in Ended /\ UNCHANGED vars

GuestStep ==
  \/ StartArityError \/ Start
  \/ LoopCheckpoint \/ Call \/ Return \/ CompleteChild \/ Complete
  \/ HostCallReady \/ HostCallPending \/ HostCallTake
  \/ \E n \in 1..MaxTasks : ParallelStart(n)
  \/ ParallelEmpty \/ ParallelTake \/ Trap

Next ==
  \/ GuestStep
  \/ \E c \in outstanding : Resume(c)
  \/ Cancel
  \/ Terminated

Spec == Init /\ [][Next]_vars

(* A step that reaches a scheduling point or ends the execution. *)
SchedulingPoint ==
  \/ LoopCheckpoint \/ Call \/ CompleteChild \/ Complete
  \/ HostCallPending \/ Trap
  \/ \E n \in 1..MaxTasks : ParallelStart(n)

(* The dispatch loop of an export runs until the execution ends or waits   *)
(* for the runner.  Every loop's back edge and every call of resumable     *)
(* code is a checkpoint, so a running task reaches one again and again;    *)
(* synchronous code, which runs without interruption, is taken to return.  *)
(* Nothing obliges the runner.                                             *)
FairSpec == Spec /\ WF_vars(GuestStep) /\ SF_vars(SchedulingPoint)
-----------------------------------------------------------------------------
(* s is a prefix of t. *)
IsPrefix(s, t) == Len(s) <= Len(t) /\ \A i \in DOMAIN s : s[i] = t[i]

Registers ==
  [frames: Seq(0..MaxTasks), ready: 0..MaxCalls, hostCall: 0..MaxCalls,
   quantum: 0..TaskQuantum]

TaskStates == {"none", "runnable", "running", "host", "children"}

(* The type invariant of the scheduler's state.  What the trace holds is   *)
(* TraceMatchesFrames.                                                     *)
TypeOK ==
  /\ phase \in {"idle", "running", "pending"} \cup Ended
  /\ current \in 0..MaxTasks
  /\ vm \in Registers
  /\ state \in [TaskId -> TaskStates]
  /\ saved \in [TaskId -> Registers]
  /\ resume \in [TaskId -> {"step", "take", "join"}]
  /\ queue \in Seq(TaskId)
  /\ parent \in [TaskId -> 0..MaxTasks]
  /\ index \in [TaskId -> Nat]
  /\ waiting \in [TaskId -> Nat]
  /\ results \in [TaskId -> Seq(0..MaxTasks)]
  /\ permits \in Nat
  /\ outstanding \in SUBSET (1..MaxCalls)
  /\ nextTask \in 1..(MaxTasks + 1)
  /\ nextCall \in 1..(MaxCalls + 1)

(* The run queue holds exactly the runnable tasks, each once: a yield, a   *)
(* delivered response and the last child of a `par` neither lose a task    *)
(* nor run it twice.  Only the root task is Runnable while it runs, from   *)
(* frame_start to its first stop.                                          *)
RunQueueExact ==
  /\ \A i, j \in DOMAIN queue : queue[i] = queue[j] => i = j
  /\ Queued = {t \in Live : state[t] = "runnable"} \ {current}

(* The guest has a running task exactly while an export runs; when control *)
(* is back with the runner no runnable task was left behind.               *)
OneRunningTask ==
  /\ \A t \in TaskId : state[t] = "running" => t = current
  /\ phase = "running" => current \in Live
  /\ phase = "pending" => current = 0 /\ queue = <<>> /\ Live # {}

(* A task that waits for its `par` waits for children that are alive, and  *)
(* no child outlives the wait: the counter is the number of live children. *)
JoinCounts ==
  \A p \in Live :
    /\ waiting[p] = Cardinality(Children(p))
    /\ state[p] = "children" <=> Children(p) # {}

(* Every call the runner keeps pending has exactly one task that waits for *)
(* it and the other way round, so a resumed call is never refused as       *)
(* cancelled and every waiting task can still be answered.                 *)
CallsMatchWaiters ==
  phase \in {"running", "pending"} =>
    LET waiters == {t \in Live : state[t] = "host"}
    IN  /\ outstanding = {saved[t].hostCall : t \in waiters}
        /\ \A t, u \in waiters : saved[t].hostCall = saved[u].hostCall => t = u

(* An execution handed back as pending waits for at least one call: the    *)
(* runner never finds a suspended guest that nothing can resume, for which *)
(* it would report a deadlock.                                             *)
PendingCanResume == phase = "pending" => outstanding # {}

(* The runner's permits are the live tasks, and all are back at the end    *)
(* of an execution that did not trap.                                      *)
PermitsExact == phase # "trapped" => permits = Cardinality(Live)

(* A suspended host call goes on with the response to the call its own     *)
(* task made, whatever ran and was answered in between.                    *)
TakesOwnResponse ==
  phase = "running" /\ resume[current] = "take" =>
    vm.hostCall # 0 /\ vm.ready = vm.hostCall

(* While a task runs the Error trace is the one rebuilt for it: the        *)
(* entries pushed and popped since it was scheduled agree with its frames. *)
TraceMatchesFrames ==
  phase = "running" => trace = RebuildTrace(Stopped(vm), parent, current)

(* Rebuilding the trace of any live task fits the trace stack, so that     *)
(* scheduling never traps.                                                 *)
RebuildFits ==
  phase = "running" =>
    \A t \in Live : Len(RebuildTrace(Stopped(vm), parent, t)) <= TraceLimit

(* No checkpoint counts down a used-up quantum, which generated code does  *)
(* with a wrapping subtraction.                                            *)
QuantumArmed ==
  /\ phase = "running" => vm.quantum > 0
  /\ \A t \in Live : saved[t].quantum > 0

(* The scheduler's registers agree with one another at every instant: the  *)
(* run queue, the running task and its armed quantum.                      *)
SchedulerConsistent == TypeOK /\ RunQueueExact /\ OneRunningTask /\ QuantumArmed

(* The guest's tasks, the runner's pending calls and the runner's permits  *)
(* tell one story, and each answer reaches the task that asked.            *)
CallsConsistent == CallsMatchWaiters /\ PermitsExact /\ TakesOwnResponse

(* The one trace stack all tasks share is right for the task that runs and *)
(* can be rebuilt for each of the others.                                  *)
TraceExact == TraceMatchesFrames /\ RebuildFits

(* The run queue is first in, first out: while tasks wait in it, the one   *)
(* that starts to run is its head and nothing gets in front of the others. *)
FirstInFirstOut ==
  [][phase' = "running" /\ queue # <<>> =>
       \/ current' = current /\ IsPrefix(queue, queue')
       \/ current' = Head(queue) /\ IsPrefix(Tail(queue), queue')]_vars

(* A host call is answered at most once, and call ids are never reused. *)
CallIdsFresh == [][\A c \in outstanding' \ outstanding : nextCall <= c /\ c < nextCall']_vars

(* Only the task that runs and the tasks it releases change: a task that   *)
(* waits keeps its registers, apart from the response it is handed.        *)
WaitingTasksUndisturbed ==
  [][\A t \in Live :
       t # current /\ phase' \notin Ended =>
         \/ saved'[t] = saved[t]
         \/ /\ state[t] = "host"
            /\ saved'[t] = [saved[t] EXCEPT !.ready = saved[t].hostCall]]_vars

(* Cooperative scheduling starves no task: one in the run queue runs, or   *)
(* the execution ends.                                                     *)
QueuedTasksRun ==
  \A t \in TaskId : (t \in Queued) ~> (current = t \/ phase \in Ended)

(* What the scheduler's state says of the structured tasks the language    *)
(* promises: of one that runs, the VM holds the registers.                 *)
Register(t) == IF t = current THEN vm ELSE saved[t]

Stage == CASE phase = "idle" -> "new"
           [] phase \in {"running", "pending"} -> "active"
           [] OTHER -> "over"

Mode == [t \in TaskId |->
           IF phase = "trapped" \/ state[t] = "none" THEN "none"
           ELSE CASE state[t] = "host" -> "asking"
                  [] state[t] = "children" -> "joining"
                  [] OTHER -> "ready"]

Asked == [t \in TaskId |-> IF phase = "trapped" THEN 0 ELSE Register(t).hostCall]

Answered == [t \in TaskId |-> IF phase = "trapped" THEN 0 ELSE Register(t).ready]

Structured == INSTANCE StructuredTasks WITH
  stage <- Stage, mode <- Mode, place <- index, asked <- Asked, answer <- Answered,
  gathered <- results, calls <- outstanding

(* The scheduler implements the structured tasks. *)
ImplementsStructuredTasks == Structured!Spec
==============================================================================
