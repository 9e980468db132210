----------------------------- MODULE TasksProofs -----------------------------
(***************************************************************************)
(* Proofs about Tasks for every number of tasks, host calls, permits and   *)
(* every quantum.  The inductive invariant IInv is a conjunction of what   *)
(* each part of the scheduler keeps true; the operators take the parts of  *)
(* the state as parameters, so that they can be stated of the intermediate *)
(* state an action hands to Schedule.                                      *)
(*                                                                         *)
(* The second part is about the Error trace and the order of the run       *)
(* queue.  That no switch of tasks traps rests on the trace of every live  *)
(* task, rebuilt from the frames of the task and of those it was started   *)
(* from, so it begins with that function.                                  *)
(*                                                                         *)
(* The last part proves that Tasks implements StructuredTasks.  A step of  *)
(* the scheduler is one of the structured tasks or leaves them alone;      *)
(* which one is read off the states and registers the step shows (Shows),  *)
(* whatever task runs after it.                                            *)
(***************************************************************************)
EXTENDS Tasks, FiniteSetTheorems, SequenceTheorems, WellFoundedInduction, TLAPS

Kids(st, par, p) == {t \in TaskId : st[t] # "none" /\ par[t] = p}

(* The queue q holds the runnable tasks other than cur, each once. *)
QueueInv(q, st, cur) ==
  /\ \A i, j \in DOMAIN q : q[i] = q[j] => i = j
  /\ \A i \in DOMAIN q : st[q[i]] = "runnable" /\ q[i] # cur
  /\ \A t \in TaskId : st[t] = "runnable" /\ t # cur => \E i \in DOMAIN q : q[i] = t

(* The live tasks form a tree below the root task; inner tasks wait. *)
TreeInv(st, par, next) ==
  \A t \in TaskId : st[t] # "none" =>
    /\ t < next
    /\ par[t] = 0 <=> t = Root
    /\ par[t] # 0 => par[t] < t /\ st[par[t]] = "children"

(* The waiting counters count the live children. *)
JoinInv(st, par, wait) ==
  \A p \in TaskId : st[p] # "none" =>
    /\ wait[p] = Cardinality(Kids(st, par, p))
    /\ st[p] = "children" => Kids(st, par, p) # {}

(* Pending calls and waiting tasks correspond one to one. *)
CallInv(st, regs, out) ==
  /\ \A t \in TaskId : st[t] = "host" => regs[t].hostCall \in out
  /\ \A t, u \in TaskId :
       st[t] = "host" /\ st[u] = "host" /\ regs[t].hostCall = regs[u].hostCall => t = u
  /\ \A c \in out : \E t \in TaskId : st[t] = "host" /\ regs[t].hostCall = c

(* Where the tasks that do not run continue, and with which response. *)
ResumeInv(st, regs, rs, cur) ==
  \A t \in TaskId : t # cur =>
    /\ st[t] = "host" => rs[t] = "take"
    /\ st[t] = "children" => rs[t] = "join"
    /\ st[t] = "runnable" /\ rs[t] = "take" =>
         regs[t].hostCall # 0 /\ regs[t].ready = regs[t].hostCall

Active == phase \in {"running", "pending"}

(* What each phase says of the running task and of the live tasks. *)
PhaseInv ==
  /\ phase = "running" =>
       /\ current \in TaskId
       /\ (state[current] = "running") \/ (current = Root /\ state[Root] = "runnable")
  /\ phase = "pending" => current = 0 /\ queue = <<>>
  /\ Active => state[Root] # "none"
  /\ \A t \in TaskId : state[t] = "running" => t = current
  /\ phase = "idle" =>
       current = 0 /\ outstanding = {} /\ nextTask = 1 /\ parent[Root] = 0
  /\ phase \in {"idle", "complete", "cancelled"} =>
       queue = <<>> /\ \A t \in TaskId : state[t] = "none"

(* Tasks not created yet. *)
FreshInv ==
  \A t \in TaskId : t >= nextTask =>
    state[t] = "none" /\ waiting[t] = 0 /\ resume[t] = "step"

QuantumInv ==
  /\ phase = "running" => vm.quantum > 0
  /\ \A t \in TaskId : state[t] # "none" => saved[t].quantum > 0

IInv ==
  /\ TypeOK
  /\ PhaseInv
  /\ QueueInv(queue, state, current)
  /\ TreeInv(state, parent, nextTask)
  /\ JoinInv(state, parent, waiting)
  /\ FreshInv
  /\ Active => CallInv(state, saved, outstanding)
  /\ \A c \in outstanding : c < nextCall
  /\ ResumeInv(state, saved, resume, current)
  /\ TakesOwnResponse
  /\ QuantumInv
  /\ permits = Cardinality(Live)
-----------------------------------------------------------------------------
LEMMA KidsFinite ==
  ASSUME NEW st, NEW par, NEW p
  PROVE  /\ IsFiniteSet(Kids(st, par, p))
         /\ Cardinality(Kids(st, par, p)) \in Nat
         /\ Cardinality(Kids(st, par, p)) = 0 <=> Kids(st, par, p) = {}
<1>1. IsFiniteSet(TaskId)
  BY FS_Interval, TasksAssumption DEF TaskId
<1>2. Kids(st, par, p) \subseteq TaskId
  BY DEF Kids
<1>3. IsFiniteSet(Kids(st, par, p))
  BY <1>1, <1>2, FS_Subset
<1>4. QED
  BY <1>3, FS_CardinalityType, FS_EmptySet

LEMMA LiveFinite == IsFiniteSet(Live) /\ Cardinality(Live) \in Nat
<1>1. IsFiniteSet(TaskId)
  BY FS_Interval, TasksAssumption DEF TaskId
<1>2. IsFiniteSet(Live)
  BY <1>1, FS_Subset DEF Live
<1>3. QED
  BY <1>2, FS_CardinalityType

(* The task states and registers an action hands to Schedule, with no task *)
(* running. *)
LEMMA ScheduleInv ==
  ASSUME NEW q \in Seq(TaskId), NEW st \in [TaskId -> TaskStates],
         NEW regs \in [TaskId -> Registers], NEW par,
         vm \in Registers,
         QueueInv(q, st, 0),
         \A t \in TaskId : st[t] # "running",
         Schedule(q, st, regs, par)
  PROVE  /\ phase' \in {"running", "pending", "trapped"}
         /\ saved' = regs
         /\ queue' \in Seq(TaskId)
         /\ state' \in [TaskId -> TaskStates]
         /\ current' \in 0..MaxTasks
         /\ vm' \in Registers
         /\ QueueInv(queue, state, current)'
         /\ \A t \in TaskId : t # current' => state'[t] = st[t]
         /\ \A t \in TaskId : state'[t] = "running" <=> t = current'
         /\ phase' = "pending" => current' = 0 /\ queue' = <<>> /\ state' = st
         /\ phase' # "pending" =>
              /\ current' \in TaskId
              /\ st[current'] = "runnable"
              /\ vm' = regs[current']
<1>1. CASE q = <<>>
  <2>1. /\ phase' = "pending" /\ current' = 0 /\ state' = st /\ queue' = q
        /\ saved' = regs
        /\ vm' = [vm EXCEPT !.frames = <<>>, !.ready = 0, !.hostCall = 0]
    BY <1>1 DEF Schedule
  <2>2. vm' \in Registers
    <3>1. <<>> \in Seq(0..MaxTasks) /\ 0 \in 0..MaxCalls
      BY TasksAssumption
    <3>2. QED
      BY <2>1, <3>1 DEF Registers
  <2>3. QueueInv(queue, state, current)'
    BY <2>1 DEF QueueInv
  <2>4. QED
    BY <1>1, <2>1, <2>2, <2>3, TasksAssumption DEF TaskId
<1>2. CASE q # <<>>
  <2> DEFINE h == Head(q)
  <2>1. /\ phase' \in {"running", "trapped"} /\ current' = h /\ queue' = Tail(q)
        /\ saved' = regs /\ vm' = regs[h]
        /\ state' = [st EXCEPT ![h] = "running"]
    BY <1>2 DEF Schedule
  <2>2. h \in TaskId /\ h = q[1] /\ 1 \in DOMAIN q
    BY <1>2
  <2>3. st[h] = "runnable"
    BY <2>2 DEF QueueInv
  <2>4. /\ queue' \in Seq(TaskId)
        /\ \A i \in DOMAIN queue' : i + 1 \in DOMAIN q /\ queue'[i] = q[i + 1]
    BY <1>2, <2>1
  <2>5. \A i \in DOMAIN q : i # 1 => i - 1 \in DOMAIN queue' /\ queue'[i - 1] = q[i]
    BY <1>2, <2>1
  <2>6. state' \in [TaskId -> TaskStates]
    BY <2>1, <2>2 DEF TaskStates
  <2>7. \A t \in TaskId : state'[t] = IF t = h THEN "running" ELSE st[t]
    BY <2>1, <2>2
  <2>8. QueueInv(queue', state', current')
    <3>1. \A i, j \in DOMAIN queue' : queue'[i] = queue'[j] => i = j
      <4> SUFFICES ASSUME NEW i \in DOMAIN queue', NEW j \in DOMAIN queue',
                          queue'[i] = queue'[j]
                   PROVE  i = j
        OBVIOUS
      <4>1. i + 1 = j + 1
        BY <2>4 DEF QueueInv
      <4>2. i \in Nat /\ j \in Nat
        BY <2>4
      <4>3. QED
        BY <4>1, <4>2
    <3>2. \A i \in DOMAIN queue' : queue'[i] # h
      <4> SUFFICES ASSUME NEW i \in DOMAIN queue', queue'[i] = h
                   PROVE  FALSE
        OBVIOUS
      <4>1. i + 1 = 1
        BY <2>4, <2>2 DEF QueueInv
      <4>2. i \in Nat /\ i > 0
        BY <2>4
      <4>3. QED
        BY <4>1, <4>2
    <3>3. \A i \in DOMAIN queue' : queue'[i] \in TaskId /\ st[queue'[i]] = "runnable"
      BY <2>4 DEF QueueInv
    <3>4. \A t \in TaskId : state'[t] = "runnable" /\ t # current' =>
            \E i \in DOMAIN queue' : queue'[i] = t
      <4> SUFFICES ASSUME NEW t \in TaskId, st[t] = "runnable", t # h
                   PROVE  \E i \in DOMAIN queue' : queue'[i] = t
        BY <2>1, <2>7
      <4>1. t # 0
        BY TasksAssumption DEF TaskId
      <4>2. PICK i \in DOMAIN q : q[i] = t
        BY <4>1 DEF QueueInv
      <4>3. i # 1
        BY <4>2, <2>2
      <4>4. QED
        BY <4>2, <4>3, <2>5
    <3>5. QED
      BY <2>1, <2>7, <3>1, <3>2, <3>3, <3>4 DEF QueueInv
  <2>9. QED
    BY <2>1, <2>2, <2>3, <2>4, <2>6, <2>7, <2>8, TasksAssumption DEF TaskId, QueueInv
<1>3. QED
  BY <1>1, <1>2

(* Every part of the invariant that holds before the next task is picked   *)
(* holds again once Schedule picked it. *)
LEMMA ScheduleIInv ==
  ASSUME NEW q \in Seq(TaskId), NEW st \in [TaskId -> TaskStates],
         NEW regs \in [TaskId -> Registers], NEW par,
         vm \in Registers,
         Schedule(q, st, regs, par),
         QueueInv(q, st, 0),
         \A t \in TaskId : st[t] # "running",
         st[Root] # "none",
         \A t \in TaskId : st[t] # "none" => regs[t].quantum > 0,
         \A t \in TaskId : t >= nextTask' =>
           st[t] = "none" /\ waiting'[t] = 0 /\ resume'[t] = "step",
         TreeInv(st, parent', nextTask'),
         JoinInv(st, parent', waiting'),
         CallInv(st, regs, outstanding'),
         ResumeInv(st, regs, resume', 0),
         \A c \in outstanding' : c < nextCall',
         resume' \in [TaskId -> {"step", "take", "join"}],
         parent' \in [TaskId -> 0..MaxTasks],
         index' \in [TaskId -> Nat],
         waiting' \in [TaskId -> Nat],
         results' \in [TaskId -> Seq(0..MaxTasks)],
         permits' = Cardinality({t \in TaskId : st[t] # "none"}),
         outstanding' \in SUBSET (1..MaxCalls),
         nextTask' \in 1..(MaxTasks + 1),
         nextCall' \in 1..(MaxCalls + 1)
  PROVE  IInv'
<1> DEFINE Alive == {t \in TaskId : st[t] # "none"}
<1>1. /\ phase' \in {"running", "pending", "trapped"}
      /\ saved' = regs
      /\ queue' \in Seq(TaskId)
      /\ state' \in [TaskId -> TaskStates]
      /\ current' \in 0..MaxTasks
      /\ vm' \in Registers
      /\ QueueInv(queue, state, current)'
      /\ \A t \in TaskId : t # current' => state'[t] = st[t]
      /\ \A t \in TaskId : state'[t] = "running" <=> t = current'
      /\ phase' = "pending" => current' = 0 /\ queue' = <<>> /\ state' = st
      /\ phase' # "pending" =>
           /\ current' \in TaskId
           /\ st[current'] = "runnable"
           /\ vm' = regs[current']
  BY ScheduleInv
<1>2. Root \in TaskId /\ 0 \notin TaskId
  BY TasksAssumption DEF Root, TaskId
<1>3. \A t \in TaskId : /\ state'[t] = "none" <=> st[t] = "none"
                        /\ state'[t] = "host" <=> st[t] = "host"
                        /\ state'[t] = "children" <=> st[t] = "children"
                        /\ state'[t] = "runnable" => st[t] = "runnable"
  BY <1>1, <1>2
<1>4. Live' = Alive
  BY <1>3 DEF Live
<1>5. permits' \in Nat /\ permits' = Cardinality(Live')
  <2>1. IsFiniteSet(TaskId)
    BY FS_Interval, TasksAssumption DEF TaskId
  <2>2. IsFiniteSet(Alive)
    BY <2>1, FS_Subset
  <2>3. QED
    BY <2>2, <1>4, FS_CardinalityType
<1>6. TypeOK'
  BY <1>1, <1>5 DEF TypeOK, Ended
<1>7. PhaseInv'
  BY <1>1, <1>2, <1>3 DEF PhaseInv, Active
<1>8. TreeInv(state, parent, nextTask)'
  <2>1. ASSUME NEW t \in TaskId, state'[t] # "none"
        PROVE  /\ t < nextTask'
               /\ parent'[t] = 0 <=> t = Root
               /\ parent'[t] # 0 => parent'[t] < t /\ state'[parent'[t]] = "children"
    <3>1. /\ t < nextTask'
          /\ parent'[t] = 0 <=> t = Root
          /\ parent'[t] # 0 => parent'[t] < t /\ st[parent'[t]] = "children"
      BY <2>1, <1>3 DEF TreeInv
    <3>2. parent'[t] # 0 => parent'[t] \in TaskId
      <4>1. PICK p \in 0..MaxTasks : p = parent'[t]
        BY Zenon
      <4>2. p # 0 => p \in TaskId
        BY TasksAssumption DEF TaskId
      <4>3. QED
        BY <4>1, <4>2, Zenon
    <3>3. parent'[t] # 0 => state'[parent'[t]] = "children"
      BY <3>1, <3>2, <1>3, Zenon
    <3>4. QED
      BY <3>1, <3>3, Zenon
  <2>2. QED
    BY <2>1 DEF TreeInv
<1>9. JoinInv(state, parent, waiting)'
  <2>1. \A p \in TaskId : Kids(state', parent', p) = Kids(st, parent', p)
    BY <1>3 DEF Kids
  <2>2. QED
    BY <2>1, <1>3 DEF JoinInv
<1>10. FreshInv'
  BY <1>3 DEF FreshInv
<1>11. CallInv(state, saved, outstanding)'
  BY <1>1, <1>3 DEF CallInv
<1>12. ResumeInv(state, saved, resume, current)'
  BY <1>1, <1>2, <1>3 DEF ResumeInv
<1>13. TakesOwnResponse'
  <2> SUFFICES ASSUME phase' = "running", resume'[current'] = "take"
               PROVE  vm'.hostCall # 0 /\ vm'.ready = vm'.hostCall
    BY DEF TakesOwnResponse
  <2>1. current' \in TaskId /\ st[current'] = "runnable" /\ vm' = regs[current']
    BY <1>1
  <2>2. current' # 0
    BY <2>1, <1>2
  <2>3. QED
    BY <2>1, <2>2 DEF ResumeInv
<1>14. QuantumInv'
  BY <1>1, <1>3 DEF QuantumInv
<1>15. (\A c \in outstanding : c < nextCall)'
  OBVIOUS
<1>16. QueueInv(queue, state, current)'
  BY <1>1
<1>17. QED
  BY <1>5, <1>6, <1>7, <1>8, <1>9, <1>10, <1>11, <1>12, <1>13, <1>14, <1>15, <1>16
  DEF IInv

(* What the invariant says while a task runs. *)
LEMMA RunningFacts ==
  ASSUME IInv, phase = "running"
  PROVE  /\ current \in TaskId /\ current # 0
         /\ state[current] \in {"running", "runnable"}
         /\ current < nextTask
         /\ current \in Live
         /\ Root \in TaskId /\ state[Root] # "none"
         /\ vm.quantum \in 1..TaskQuantum /\ vm.quantum > 0
         /\ vm \in Registers
         /\ resume \in [TaskId -> {"step", "take", "join"}]
         /\ results \in [TaskId -> Seq(0..MaxTasks)]
         /\ nextCall \in 1..(MaxCalls + 1) /\ nextCall >= nextCall
<1>1. current \in TaskId /\ state[current] \in {"running", "runnable"}
  BY DEF IInv, PhaseInv
<1>2. current < nextTask
  BY <1>1 DEF IInv, TreeInv
<1>3. vm.quantum \in 1..TaskQuantum
  <2>1. vm.quantum \in 0..TaskQuantum
    BY DEF IInv, TypeOK, Registers
  <2>2. vm.quantum > 0
    BY DEF IInv, QuantumInv
  <2>3. QED
    BY <2>1, <2>2, TasksAssumption
<1>4. /\ vm \in Registers
      /\ resume \in [TaskId -> {"step", "take", "join"}]
      /\ results \in [TaskId -> Seq(0..MaxTasks)]
      /\ nextCall \in 1..(MaxCalls + 1)
  BY DEF IInv, TypeOK
<1>5. nextCall >= nextCall /\ vm.quantum > 0
  BY <1>3, <1>4
<1>6. QED
  BY <1>1, <1>2, <1>3, <1>4, <1>5, TasksAssumption
  DEF IInv, PhaseInv, Active, Root, TaskId, Live

LEMMA ParentType ==
  ASSUME TypeOK
  PROVE  \A t \in TaskId : parent[t] # 0 => parent[t] \in TaskId
BY TasksAssumption DEF TypeOK, TaskId

(* A step of the running task that schedules nothing. *)
LEMMA LocalStep ==
  ASSUME IInv, phase = "running", phase' \in {"running", "trapped"},
         UNCHANGED <<current, state, saved, queue, parent, index, waiting, permits,
                     outstanding, nextTask>>,
         vm' \in Registers, vm'.quantum > 0,
         resume' \in [TaskId -> {"step", "take", "join"}],
         \A t \in TaskId : t # current => resume'[t] = resume[t],
         resume'[current] = "take" => phase' = "trapped" /\ resume' = resume,
         results' \in [TaskId -> Seq(0..MaxTasks)],
         nextCall' \in 1..(MaxCalls + 1), nextCall' >= nextCall
  PROVE  IInv'
<1>1. /\ current \in TaskId
      /\ state[current] \in {"running", "runnable"}
      /\ current < nextTask
      /\ state[Root] # "none"
  BY RunningFacts
<1>2. TypeOK'
  BY DEF IInv, TypeOK, Ended
<1>3. PhaseInv'
  BY DEF IInv, PhaseInv, Active
<1>4. FreshInv'
  <2>1. \A t \in TaskId : t >= nextTask => t # current
    BY <1>1 DEF IInv, TypeOK, TaskId
  <2>2. QED
    BY <2>1 DEF IInv, FreshInv
<1>5. (Active => CallInv(state, saved, outstanding))'
  BY DEF IInv, CallInv, Active
<1>6. (\A c \in outstanding : c < nextCall)'
  <2> SUFFICES ASSUME NEW c \in outstanding
               PROVE  c < nextCall'
    OBVIOUS
  <2>1. c < nextCall /\ c \in Int /\ nextCall \in Int /\ nextCall' \in Int
    BY TasksAssumption DEF IInv, TypeOK
  <2>2. QED
    BY <2>1
<1>7. ResumeInv(state, saved, resume, current)'
  BY DEF IInv, ResumeInv
<1>8. TakesOwnResponse'
  BY DEF TakesOwnResponse
<1>9. QuantumInv'
  BY DEF IInv, QuantumInv
<1>10. /\ QueueInv(queue, state, current)'
       /\ TreeInv(state, parent, nextTask)'
       /\ JoinInv(state, parent, waiting)'
  BY DEF IInv, QueueInv, TreeInv, JoinInv
<1>11. (permits = Cardinality(Live))'
  <2>1. Live' = Live
    BY DEF Live
  <2>2. QED
    BY <2>1 DEF IInv
<1>12. QED
  BY <1>2, <1>3, <1>4, <1>5, <1>6, <1>7, <1>8, <1>9, <1>10, <1>11 DEF IInv

LEMMA PopType ==
  ASSUME NEW S, NEW s \in Seq(S), Len(s) > 1
  PROVE  Pop(s) \in Seq(S)
<1> DEFINE n == Len(s) - 1
<1>1. n \in Int /\ 1 \in Int
  BY LenProperties
<1>2. \A i \in 1..n : s[i] \in S
  BY LenProperties, ElementOfSeq
<1>3. SubSeq(s, 1, n) \in Seq(S)
  BY <1>1, <1>2, SubSeqProperties
<1>4. QED
  BY <1>3 DEF Pop

(* The registers of the running task stay well typed under the updates the *)
(* steps make. *)
LEMMA RegisterUpdates ==
  ASSUME NEW r \in Registers
  PROVE  /\ \A n \in 0..TaskQuantum : [r EXCEPT !.quantum = n] \in Registers
         /\ [r EXCEPT !.ready = 0, !.hostCall = 0] \in Registers
         /\ \A c \in 0..MaxCalls : /\ [r EXCEPT !.ready = c] \in Registers
                                   /\ [r EXCEPT !.hostCall = c] \in Registers
         /\ \A t \in 0..MaxTasks :
              [r EXCEPT !.frames = Append(@, t)] \in Registers
         /\ Len(r.frames) > 1 => [r EXCEPT !.frames = Pop(@)] \in Registers
<1>1. r.frames \in Seq(0..MaxTasks)
  BY DEF Registers
<1>2. \A t \in 0..MaxTasks : Append(r.frames, t) \in Seq(0..MaxTasks)
  BY <1>1
<1>3. Len(r.frames) > 1 => Pop(r.frames) \in Seq(0..MaxTasks)
  BY <1>1, PopType
<1>4. 0 \in 0..MaxCalls
  BY TasksAssumption
<1>5. QED
  BY <1>1, <1>2, <1>3, <1>4 DEF Registers

LEMMA NewRegisters ==
  ASSUME NEW t \in 0..MaxTasks
  PROVE  /\ TaskRegisters(<<t>>) \in Registers
         /\ TaskRegisters(<<t>>).quantum > 0
         /\ NoRegisters \in Registers
<1>1. <<t>> \in Seq(0..MaxTasks) /\ <<>> \in Seq(0..MaxTasks)
  OBVIOUS
<1>2. TaskQuantum \in 0..TaskQuantum /\ TaskQuantum > 0 /\ 0 \in 0..MaxCalls
      /\ 0 \in 0..TaskQuantum
  BY TasksAssumption
<1>3. QED
  BY <1>1, <1>2 DEF TaskRegisters, NoRegisters, Registers

LEMMA TrapInv ==
  ASSUME IInv, Trap
  PROVE  IInv'
<1>1. phase = "running" /\ phase' = "trapped" /\ UNCHANGED <<current, vm, state, saved,
        resume, queue, parent, index, waiting, results, trace, permits, outstanding,
        nextTask, nextCall>>
  BY DEF Trap
<1>2. vm.quantum > 0 /\ nextCall \in Int
  BY <1>1, RunningFacts DEF IInv, TypeOK
<1>3. UNCHANGED <<current, state, saved, queue, parent, index, waiting, permits,
                  outstanding, nextTask>>
  BY <1>1
<1>4. /\ vm' \in Registers /\ vm'.quantum > 0
      /\ resume' \in [TaskId -> {"step", "take", "join"}]
      /\ results' \in [TaskId -> Seq(0..MaxTasks)]
      /\ nextCall' \in 1..(MaxCalls + 1) /\ nextCall' >= nextCall
      /\ resume' = resume
  BY <1>1, <1>2 DEF IInv, TypeOK
<1>5. QED
  BY <1>1, <1>3, <1>4, LocalStep

(* Shapes of steps of the running task that schedule nothing. *)
LEMMA ReturnInv ==
  ASSUME IInv, Return
  PROVE  IInv'
<1>1. /\ phase = "running" /\ phase' = phase /\ Len(vm.frames) > 1
      /\ vm' = [vm EXCEPT !.frames = Pop(@)]
      /\ UNCHANGED <<current, state, saved, queue, parent, index, waiting, permits,
                     outstanding, nextTask>>
      /\ resume' = resume /\ resume[current] = "step"
      /\ results' = results /\ nextCall' = nextCall
  BY DEF Return, Running
<1>2. vm \in Registers /\ vm.quantum > 0 /\ nextCall \in 1..(MaxCalls + 1)
  BY <1>1, RunningFacts
<1>3. vm' \in Registers
  BY <1>1, <1>2, RegisterUpdates
<1>4. vm'.quantum > 0
  BY <1>1, <1>2 DEF Registers
<1>5. QED
  BY <1>1, <1>2, <1>3, <1>4, RunningFacts, LocalStep

LEMMA HostCallReadyInv ==
  ASSUME IInv, HostCallReady
  PROVE  IInv'
<1>1. /\ phase = "running" /\ phase' = phase
      /\ vm' = [vm EXCEPT !.ready = 0, !.hostCall = 0]
      /\ UNCHANGED <<current, state, saved, queue, parent, index, waiting, permits,
                     outstanding, nextTask>>
      /\ resume' = resume /\ resume[current] = "step"
      /\ results' = results
      /\ nextCall <= MaxCalls /\ nextCall' \in {nextCall, nextCall + 1}
  BY DEF HostCallReady, Running
<1>2. vm \in Registers /\ vm.quantum > 0 /\ nextCall \in 1..(MaxCalls + 1)
  BY <1>1, RunningFacts
<1>3. vm' \in Registers
  BY <1>1, <1>2, RegisterUpdates
<1>4. vm'.quantum > 0
  BY <1>1, <1>2 DEF Registers
<1>5. nextCall' \in 1..(MaxCalls + 1) /\ nextCall' >= nextCall
  BY <1>1, <1>2, TasksAssumption
<1>6. QED
  BY <1>1, <1>3, <1>4, <1>5, RunningFacts, LocalStep

LEMMA HostCallTakeInv ==
  ASSUME IInv, HostCallTake
  PROVE  IInv'
<1>1. /\ phase = "running" /\ phase' \in {"running", "trapped"}
      /\ vm' = [vm EXCEPT !.ready = 0, !.hostCall = 0]
      /\ UNCHANGED <<current, state, saved, queue, parent, index, waiting, permits,
                     outstanding, nextTask>>
      /\ resume' = [resume EXCEPT ![current] = "step"]
      /\ results' = results /\ nextCall' = nextCall
  BY DEF HostCallTake, Running
<1>2. /\ vm \in Registers /\ vm.quantum > 0 /\ nextCall \in 1..(MaxCalls + 1)
      /\ current \in TaskId
      /\ resume \in [TaskId -> {"step", "take", "join"}]
  BY <1>1, RunningFacts
<1>3. vm' \in Registers
  BY <1>1, <1>2, RegisterUpdates
<1>4. vm'.quantum > 0
  BY <1>1, <1>2 DEF Registers
<1>5. /\ resume' \in [TaskId -> {"step", "take", "join"}]
      /\ \A t \in TaskId : t # current => resume'[t] = resume[t]
      /\ resume'[current] = "step"
  BY <1>1, <1>2
<1>6. QED
  BY <1>1, <1>2, <1>3, <1>4, <1>5, RunningFacts, LocalStep

LEMMA ParallelLocalInv ==
  ASSUME IInv, ParallelEmpty \/ ParallelTake
  PROVE  IInv'
<1>1. /\ phase = "running" /\ phase' = phase /\ vm' = vm
      /\ UNCHANGED <<current, state, saved, queue, parent, index, waiting, permits,
                     outstanding, nextTask>>
      /\ \E at \in {"step", "join"} : resume' = [resume EXCEPT ![current] = at]
      /\ results' = [results EXCEPT ![current] = <<>>] /\ nextCall' = nextCall
  BY DEF ParallelEmpty, ParallelTake, Running
<1>2. /\ vm \in Registers /\ vm.quantum > 0 /\ nextCall \in 1..(MaxCalls + 1)
      /\ current \in TaskId
      /\ resume \in [TaskId -> {"step", "take", "join"}]
      /\ results \in [TaskId -> Seq(0..MaxTasks)]
  BY <1>1, RunningFacts
<1>3. results' \in [TaskId -> Seq(0..MaxTasks)]
  <2>1. <<>> \in Seq(0..MaxTasks)
    OBVIOUS
  <2>2. QED
    BY <1>1, <1>2, <2>1
<1>4. /\ resume' \in [TaskId -> {"step", "take", "join"}]
      /\ \A t \in TaskId : t # current => resume'[t] = resume[t]
      /\ resume'[current] # "take"
  BY <1>1, <1>2
<1>5. QED
  BY <1>1, <1>2, <1>3, <1>4, RunningFacts, LocalStep

(* A task that joins the run queue: the one that stops running, or one     *)
(* that waited. *)
LEMMA EnqueueInv ==
  ASSUME NEW q \in Seq(TaskId), NEW st \in [TaskId -> TaskStates],
         NEW t \in TaskId, QueueInv(q, st, t)
  PROVE  /\ Enqueue(q, t) \in Seq(TaskId)
         /\ QueueInv(Enqueue(q, t), [st EXCEPT ![t] = "runnable"], 0)
<1> DEFINE e == Append(q, t)
           n == Len(q) + 1
           st1 == [st EXCEPT ![t] = "runnable"]
<1>1. /\ e \in Seq(TaskId) /\ n \in Nat /\ Len(e) = n /\ e[n] = t
      /\ DOMAIN e = 1..n /\ DOMAIN q = 1..(n - 1)
      /\ \A i \in 1..(n - 1) : e[i] = q[i] /\ q[i] \in TaskId
  OBVIOUS
<1>2. 0 \notin TaskId
  BY TasksAssumption DEF TaskId
<1>3. \A i \in DOMAIN q : q[i] # t /\ st[q[i]] = "runnable"
  BY DEF QueueInv
<1>4. \A i, j \in DOMAIN e : e[i] = e[j] => i = j
  <2> SUFFICES ASSUME NEW i \in 1..n, NEW j \in 1..n, e[i] = e[j]
               PROVE  i = j
    BY <1>1
  <2>1. CASE i = n /\ j = n
    BY <2>1
  <2>2. CASE i = n /\ j # n
    <3>1. j \in 1..(n - 1)
      BY <2>2, <1>1
    <3>2. QED
      BY <3>1, <2>2, <1>1, <1>3
  <2>3. CASE i # n /\ j = n
    <3>1. i \in 1..(n - 1)
      BY <2>3, <1>1
    <3>2. QED
      BY <3>1, <2>3, <1>1, <1>3
  <2>4. CASE i # n /\ j # n
    <3>1. i \in 1..(n - 1) /\ j \in 1..(n - 1)
      BY <2>4, <1>1
    <3>2. QED
      BY <3>1, <1>1 DEF QueueInv
  <2>5. QED
    BY <2>1, <2>2, <2>3, <2>4
<1>5. \A i \in DOMAIN e : e[i] \in TaskId /\ st1[e[i]] = "runnable"
  <2> SUFFICES ASSUME NEW i \in 1..n
               PROVE  e[i] \in TaskId /\ st1[e[i]] = "runnable"
    BY <1>1
  <2>1. CASE i = n
    BY <2>1, <1>1
  <2>2. CASE i # n
    <3>1. i \in 1..(n - 1)
      BY <2>2, <1>1
    <3>2. QED
      BY <3>1, <1>1, <1>3
  <2>3. QED
    BY <2>1, <2>2
<1>6. \A u \in TaskId : st1[u] = "runnable" => \E i \in DOMAIN e : e[i] = u
  <2> SUFFICES ASSUME NEW u \in TaskId, st1[u] = "runnable"
               PROVE  \E i \in 1..n : e[i] = u
    BY <1>1
  <2>1. CASE u = t
    BY <2>1, <1>1
  <2>2. CASE u # t
    <3>1. st[u] = "runnable"
      BY <2>2
    <3>2. PICK i \in 1..(n - 1) : q[i] = u
      BY <2>2, <3>1, <1>1 DEF QueueInv
    <3>3. i \in 1..n
      BY <1>1
    <3>4. QED
      BY <3>2, <3>3, <1>1
  <2>3. QED
    BY <2>1, <2>2
<1>7. QED
  BY <1>1, <1>2, <1>4, <1>5, <1>6 DEF QueueInv, Enqueue

(* A checkpoint: the running task goes on or yields. *)
LEMMA PassCheckpointInv ==
  ASSUME IInv, phase = "running", resume[current] = "step",
         NEW regs \in Registers, NEW top, NEW left \in 0..TaskQuantum,
         PassCheckpoint(regs, top, left),
         UNCHANGED <<resume, parent, index, waiting, results, permits, outstanding,
                     nextTask, nextCall>>
  PROVE  IInv'
<1>1. /\ current \in TaskId /\ current # 0
      /\ state[current] \in {"running", "runnable"}
      /\ current < nextTask /\ state[Root] # "none" /\ Root \in TaskId
  BY RunningFacts
<1>2. TypeOK
  BY DEF IInv
<1>3. TaskQuantum \in 0..TaskQuantum /\ TaskQuantum > 0
  BY TasksAssumption
<1>4. CASE left # 0 \/ queue = <<>>
  <2> DEFINE n == IF left = 0 THEN TaskQuantum ELSE left
  <2>1. vm' = [regs EXCEPT !.quantum = n]
        /\ UNCHANGED <<phase, current, state, saved, queue>>
    BY <1>4 DEF PassCheckpoint
  <2>2. n \in 0..TaskQuantum /\ n > 0
    BY <1>3
  <2>3. vm' \in Registers /\ vm'.quantum > 0
    <3>1. vm' \in Registers
      BY <2>1, <2>2, RegisterUpdates
    <3>2. vm'.quantum = n
      BY <2>1 DEF Registers
    <3>3. QED
      BY <2>2, <3>1, <3>2
  <2>4. nextCall' >= nextCall
    BY <1>2 DEF TypeOK
  <2>5. QED
    BY <1>2, <2>1, <2>3, <2>4, LocalStep DEF TypeOK
<1>5. CASE left = 0 /\ queue # <<>>
  <2> DEFINE q == Enqueue(queue, current)
             st == [state EXCEPT ![current] = "runnable"]
             kept == [regs EXCEPT !.quantum = TaskQuantum]
             rs == Stopped(kept)
  <2>1. Schedule(q, st, rs, parent)
    BY <1>5 DEF PassCheckpoint
  <2>2. q \in Seq(TaskId) /\ QueueInv(q, st, 0)
    BY <1>1, <1>2, EnqueueInv DEF IInv, TypeOK
  <2>3. st \in [TaskId -> TaskStates] /\ \A t \in TaskId : st[t] # "running"
    BY <1>1, <1>2 DEF TypeOK, TaskStates, IInv, PhaseInv
  <2>4. kept \in Registers /\ kept.quantum = TaskQuantum
    <3>1. kept \in Registers
      BY <1>3, RegisterUpdates
    <3>2. QED
      BY <3>1 DEF Registers
  <2>5. rs \in [TaskId -> Registers]
    BY <1>2, <2>4 DEF Stopped, TypeOK
  <2>6. \A t \in TaskId : st[t] # "none" => rs[t].quantum > 0
    BY <1>1, <1>2, <1>3, <2>4 DEF IInv, QuantumInv, Stopped, TypeOK
  <2>7. \A t \in TaskId : /\ st[t] = "none" <=> state[t] = "none"
                          /\ st[t] = "host" <=> state[t] = "host"
                          /\ st[t] = "children" <=> state[t] = "children"
                          /\ t # current => st[t] = state[t] /\ rs[t] = saved[t]
    BY <1>1, <1>2 DEF TypeOK, Stopped
  <2>8. \A t \in TaskId : t >= nextTask =>
          st[t] = "none" /\ waiting[t] = 0 /\ resume[t] = "step"
    BY <2>7 DEF IInv, FreshInv
  <2>9. TreeInv(st, parent, nextTask)
    <3>1. \A t \in TaskId : parent[t] # 0 => parent[t] \in TaskId
      BY <1>2, ParentType
    <3>2. QED
      BY <2>7, <3>1 DEF IInv, TreeInv
  <2>10. JoinInv(st, parent, waiting)
    <3>1. \A p \in TaskId : Kids(st, parent, p) = Kids(state, parent, p)
      BY <2>7 DEF Kids
    <3>2. QED
      BY <2>7, <3>1 DEF IInv, JoinInv
  <2>11. CallInv(st, rs, outstanding)
    <3>1. CallInv(state, saved, outstanding) /\ st[current] # "host"
      BY <1>1, <2>7 DEF IInv, Active
    <3>2. QED
      BY <2>7, <3>1 DEF CallInv
  <2>12. ResumeInv(st, rs, resume, 0)
    <3>1. ResumeInv(state, saved, resume, current)
      BY DEF IInv
    <3>2. QED
      BY <1>1, <2>7, <3>1 DEF ResumeInv
  <2>13. permits = Cardinality({t \in TaskId : st[t] # "none"})
    <3>1. {t \in TaskId : st[t] # "none"} = Live
      BY <2>7 DEF Live
    <3>2. QED
      BY <3>1 DEF IInv
  <2>14. \A c \in outstanding : c < nextCall
    BY DEF IInv
  <2>15. /\ st[Root] # "none"
         /\ vm \in Registers
         /\ resume \in [TaskId -> {"step", "take", "join"}]
         /\ parent \in [TaskId -> 0..MaxTasks]
         /\ index \in [TaskId -> Nat]
         /\ waiting \in [TaskId -> Nat]
         /\ results \in [TaskId -> Seq(0..MaxTasks)]
         /\ outstanding \in SUBSET (1..MaxCalls)
         /\ nextTask \in 1..(MaxTasks + 1)
         /\ nextCall \in 1..(MaxCalls + 1)
    BY <1>1, <1>2, <2>7 DEF TypeOK
  <2> HIDE DEF q, st, rs, kept
  <2>16. QED
    BY <2>1, <2>2, <2>3, <2>5, <2>6, <2>8, <2>9, <2>10, <2>11, <2>12, <2>13, <2>14,
       <2>15, ScheduleIInv, ZenonT(40)
<1>6. QED
  BY <1>4, <1>5

LEMMA LoopCheckpointInv ==
  ASSUME IInv, LoopCheckpoint
  PROVE  IInv'
<1>1. phase = "running" /\ resume[current] = "step"
  BY DEF LoopCheckpoint, Running
<1>2. vm \in Registers /\ vm.quantum - 1 \in 0..TaskQuantum
  BY <1>1, RunningFacts, TasksAssumption DEF TaskId
<1>3. QED
  BY <1>1, <1>2, PassCheckpointInv DEF LoopCheckpoint

LEMMA CallInvariant ==
  ASSUME IInv, Call
  PROVE  IInv'
<1> DEFINE regs == [vm EXCEPT !.frames = Append(@, current)]
           left == IF vm.quantum = 0 THEN 0 ELSE vm.quantum - 1
<1>1. phase = "running" /\ resume[current] = "step"
  BY DEF Call, Running
<1>2. vm \in Registers /\ left \in 0..TaskQuantum /\ current \in 0..MaxTasks
  BY <1>1, RunningFacts, TasksAssumption DEF TaskId
<1>3. regs \in Registers
  BY <1>2, RegisterUpdates
<1>4. /\ PassCheckpoint(regs, Append(trace, current), left)
      /\ UNCHANGED <<resume, parent, index, waiting, results, permits, outstanding,
                     nextTask, nextCall>>
  BY DEF Call
<1> HIDE DEF regs, left
<1>5. QED
  BY <1>1, <1>2, <1>3, <1>4, PassCheckpointInv

(* The running task has no children and the queue holds the other runnable *)
(* tasks, so it can leave the queue alone when it stops. *)
LEMMA StopInv ==
  ASSUME IInv, phase = "running", NEW s \in TaskStates \ {"runnable", "running"}
  PROVE  /\ [state EXCEPT ![current] = s] \in [TaskId -> TaskStates]
         /\ QueueInv(queue, [state EXCEPT ![current] = s], 0)
         /\ \A t \in TaskId : [state EXCEPT ![current] = s][t] # "running"
         /\ \A t \in TaskId : state[t] # "none" => parent[t] # current
         /\ Kids(state, parent, current) = {}
         /\ waiting[current] = 0
<1> DEFINE st == [state EXCEPT ![current] = s]
<1>1. /\ current \in TaskId /\ current # 0
      /\ state[current] \in {"running", "runnable"}
  BY RunningFacts
<1>2. TypeOK /\ 0 \notin TaskId
  BY TasksAssumption DEF IInv, TaskId
<1>3. st \in [TaskId -> TaskStates] /\ \A t \in TaskId : st[t] # "running"
  BY <1>1, <1>2 DEF TypeOK, IInv, PhaseInv
<1>4. \A t \in TaskId : t # current => st[t] = state[t]
  BY <1>2 DEF TypeOK
<1>5. \A i \in DOMAIN queue : queue[i] \in TaskId
  BY <1>2 DEF TypeOK
<1>6. QueueInv(queue, st, 0)
  <2>1. st[current] # "runnable"
    BY <1>1, <1>2 DEF TypeOK
  <2>2. QueueInv(queue, state, current)
    BY DEF IInv
  <2>3. \A i, j \in DOMAIN queue : queue[i] = queue[j] => i = j
    BY <2>2 DEF QueueInv
  <2>4. \A i \in DOMAIN queue : st[queue[i]] = "runnable" /\ queue[i] # 0
    BY <2>2, <1>2, <1>4, <1>5 DEF QueueInv
  <2>5. \A t \in TaskId : st[t] = "runnable" => \E i \in DOMAIN queue : queue[i] = t
    BY <2>1, <2>2, <1>4 DEF QueueInv
  <2>6. QED
    BY <2>3, <2>4, <2>5 DEF QueueInv
<1>7. \A t \in TaskId : state[t] # "none" => parent[t] # current
  BY <1>1 DEF IInv, TreeInv
<1>8. Kids(state, parent, current) = {}
  BY <1>7 DEF Kids
<1>9. waiting[current] = 0
  BY <1>1, <1>8, FS_EmptySet DEF IInv, JoinInv
<1>10. QED
  BY <1>3, <1>6, <1>7, <1>8, <1>9

LEMMA HostCallPendingInv ==
  ASSUME IInv, HostCallPending
  PROVE  IInv'
<1> DEFINE st == Suspended
           kept == [vm EXCEPT !.hostCall = nextCall]
           rs == Stopped(kept)
<1>1. /\ phase = "running" /\ nextCall <= MaxCalls /\ nextCall' = nextCall + 1
      /\ outstanding' = outstanding \cup {nextCall}
      /\ resume' = [resume EXCEPT ![current] = "take"]
      /\ Schedule(queue, st, rs, parent)
      /\ UNCHANGED <<parent, index, waiting, results, permits, nextTask>>
  BY DEF HostCallPending, Running, NextCallId
<1>2. /\ current \in TaskId /\ current # 0
      /\ state[current] \in {"running", "runnable"}
      /\ current < nextTask /\ state[Root] # "none" /\ Root \in TaskId
      /\ vm \in Registers /\ vm.quantum > 0
      /\ nextCall \in 1..(MaxCalls + 1)
      /\ resume \in [TaskId -> {"step", "take", "join"}]
  BY <1>1, RunningFacts
<1>3. TypeOK
  BY DEF IInv
<1>4. nextCall \in 1..MaxCalls /\ nextCall' \in 1..(MaxCalls + 1)
  BY <1>1, <1>2, TasksAssumption
<1>5. kept \in Registers /\ kept.quantum > 0 /\ kept.hostCall = nextCall
  <2>1. nextCall \in 0..MaxCalls
    BY <1>4
  <2>2. kept \in Registers
    BY <2>1, <1>2, RegisterUpdates
  <2>3. QED
    BY <2>2, <1>2 DEF Registers
<1>6. /\ st \in [TaskId -> TaskStates]
      /\ QueueInv(queue, st, 0)
      /\ \A t \in TaskId : st[t] # "running"
      /\ \A t \in TaskId : state[t] # "none" => parent[t] # current
  <2>1. "host" \in TaskStates \ {"runnable", "running"}
    BY DEF TaskStates
  <2>2. QED
    BY <1>1, <2>1, StopInv DEF Suspended
<1>7. rs \in [TaskId -> Registers]
  BY <1>3, <1>5 DEF Stopped, TypeOK
<1>8. /\ st[current] = "host" /\ rs[current] = kept
      /\ \A t \in TaskId : /\ st[t] = "none" <=> state[t] = "none"
                           /\ t # current => st[t] = state[t] /\ rs[t] = saved[t]
  BY <1>2, <1>3 DEF TypeOK, Suspended, Stopped
<1>9. \A t \in TaskId : st[t] # "none" => rs[t].quantum > 0
  BY <1>5, <1>8 DEF IInv, QuantumInv
<1>10. \A t \in TaskId : t >= nextTask =>
         st[t] = "none" /\ waiting[t] = 0 /\ resume'[t] = "step"
  <2>1. \A t \in TaskId : t >= nextTask => t # current
    BY <1>2, <1>3 DEF TypeOK, TaskId
  <2>2. QED
    BY <2>1, <1>1, <1>2, <1>8 DEF IInv, FreshInv
<1>11. TreeInv(st, parent, nextTask)
  <2>1. \A t \in TaskId : parent[t] # 0 => parent[t] \in TaskId
    BY <1>3, ParentType
  <2>2. QED
    BY <2>1, <1>6, <1>8 DEF IInv, TreeInv
<1>12. JoinInv(st, parent, waiting)
  <2>1. \A p \in TaskId : Kids(st, parent, p) = Kids(state, parent, p)
    BY <1>8 DEF Kids
  <2>2. QED
    BY <2>1, <1>8 DEF IInv, JoinInv
<1>13. CallInv(st, rs, outstanding')
  <2>1. CallInv(state, saved, outstanding)
    BY <1>1 DEF IInv, Active
  <2>2. \A c \in outstanding : c # nextCall
    <3>1. \A c \in outstanding : c \in Int /\ c < nextCall
      BY <1>3 DEF IInv, TypeOK
    <3>2. QED
      BY <3>1, <1>2
  <2>3. \A t \in TaskId : t # current /\ st[t] = "host" =>
          rs[t].hostCall \in outstanding /\ rs[t].hostCall # nextCall
    BY <2>1, <2>2, <1>8 DEF CallInv
  <2>4. \A t \in TaskId : st[t] = "host" => rs[t].hostCall \in outstanding'
    BY <2>3, <1>1, <1>5, <1>8
  <2>5. \A t, u \in TaskId :
          st[t] = "host" /\ st[u] = "host" /\ rs[t].hostCall = rs[u].hostCall => t = u
    <3> SUFFICES ASSUME NEW t \in TaskId, NEW u \in TaskId,
                        st[t] = "host", st[u] = "host", rs[t].hostCall = rs[u].hostCall
                 PROVE  t = u
      OBVIOUS
    <3>1. rs[current].hostCall = nextCall
      BY <1>5, <1>8
    <3>2. CASE t = current \/ u = current
      BY <3>1, <3>2, <2>3
    <3>3. CASE t # current /\ u # current
      <4>1. /\ state[t] = "host" /\ state[u] = "host"
            /\ saved[t].hostCall = saved[u].hostCall
        BY <3>3, <1>8
      <4>2. QED
        BY <4>1, <2>1 DEF CallInv
    <3>4. QED
      BY <3>2, <3>3
  <2>6. \A c \in outstanding' : \E t \in TaskId : st[t] = "host" /\ rs[t].hostCall = c
    <3>1. ASSUME NEW c \in outstanding
          PROVE  \E t \in TaskId : st[t] = "host" /\ rs[t].hostCall = c
      <4>1. PICK t \in TaskId : state[t] = "host" /\ saved[t].hostCall = c
        BY <2>1 DEF CallInv
      <4>2. t # current
        BY <4>1, <1>2
      <4>3. QED
        BY <4>1, <4>2, <1>8
    <3>2. st[current] = "host" /\ rs[current].hostCall = nextCall
      BY <1>5, <1>8
    <3>3. \A c \in outstanding' : c \in outstanding \/ c = nextCall
      BY <1>1
    <3>4. QED
      BY <3>1, <3>2, <3>3, <1>2
  <2>7. QED
    BY <2>4, <2>5, <2>6 DEF CallInv
<1>14. ResumeInv(st, rs, resume', 0)
  <2>1. ResumeInv(state, saved, resume, current)
    BY DEF IInv
  <2>2. resume'[current] = "take" /\ \A t \in TaskId : t # current => resume'[t] = resume[t]
    BY <1>1, <1>2
  <2>3. QED
    BY <2>1, <2>2, <1>8 DEF ResumeInv
<1>15. permits' = Cardinality({t \in TaskId : st[t] # "none"})
  <2>1. {t \in TaskId : st[t] # "none"} = Live
    BY <1>8 DEF Live
  <2>2. QED
    BY <2>1, <1>1 DEF IInv
<1>16. \A c \in outstanding' : c < nextCall'
  <2>1. \A c \in outstanding : c \in Int /\ c < nextCall
    BY <1>3 DEF IInv, TypeOK
  <2>2. QED
    BY <2>1, <1>1, <1>2
<1>17. /\ resume' \in [TaskId -> {"step", "take", "join"}]
       /\ outstanding' \in SUBSET (1..MaxCalls)
  BY <1>1, <1>2, <1>3, <1>4 DEF TypeOK
<1>18. /\ queue \in Seq(TaskId)
       /\ st[Root] # "none"
       /\ parent' \in [TaskId -> 0..MaxTasks]
       /\ index' \in [TaskId -> Nat]
       /\ waiting' \in [TaskId -> Nat]
       /\ results' \in [TaskId -> Seq(0..MaxTasks)]
       /\ nextTask' \in 1..(MaxTasks + 1)
  BY <1>1, <1>2, <1>3, <1>8 DEF TypeOK
<1> HIDE DEF st, rs, kept
<1>19. QED
  BY <1>1, <1>2, <1>4, <1>6, <1>7, <1>9, <1>10, <1>11, <1>12, <1>13, <1>14, <1>15,
     <1>16, <1>17, <1>18, ScheduleIInv, ZenonT(40)

(* An answered call: its task becomes runnable with the response. *)
LEMMA AnswerInv ==
  ASSUME IInv, NEW c \in outstanding, Resume(c)
  PROVE  IInv'
<1>1. /\ phase = "pending" /\ outstanding' = outstanding \ {c}
      /\ UNCHANGED <<resume, parent, index, waiting, results, permits, nextTask, nextCall>>
  BY DEF Resume
<1>2. /\ TypeOK /\ current = 0 /\ queue = <<>> /\ state[Root] # "none"
      /\ CallInv(state, saved, outstanding)
      /\ Root \in TaskId /\ 0 \notin TaskId
  BY <1>1, TasksAssumption DEF IInv, PhaseInv, Active, Root, TaskId
<1>3. Waiters(c) # {}
  <2>1. PICK t \in TaskId : state[t] = "host" /\ saved[t].hostCall = c
    BY <1>2 DEF CallInv
  <2>2. QED
    BY <2>1 DEF Waiters, Live
<1>4. PICK w \in Waiters(c) :
        Schedule(Enqueue(queue, w), [state EXCEPT ![w] = "runnable"],
                 [saved EXCEPT ![w].ready = c], parent)
  BY <1>3 DEF Resume
<1> DEFINE q == Enqueue(queue, w)
           st == [state EXCEPT ![w] = "runnable"]
           answered == [saved[w] EXCEPT !.ready = c]
           rs == [saved EXCEPT ![w].ready = c]
<1>5. w \in TaskId /\ state[w] = "host" /\ saved[w].hostCall = c
  BY DEF Waiters, Live
<1>6. c \in 1..MaxCalls
  BY <1>2 DEF TypeOK
<1>7. /\ answered \in Registers /\ answered.ready = c /\ answered.hostCall = c
      /\ answered.quantum > 0
  <2>1. saved[w] \in Registers /\ c \in 0..MaxCalls
    BY <1>2, <1>5, <1>6 DEF TypeOK
  <2>2. answered \in Registers
    BY <2>1, RegisterUpdates
  <2>3. saved[w].quantum > 0
    BY <1>5 DEF IInv, QuantumInv
  <2>4. QED
    BY <2>1, <2>2, <2>3, <1>5 DEF Registers
<1>8. rs = [saved EXCEPT ![w] = answered] /\ rs \in [TaskId -> Registers]
  BY <1>2, <1>5, <1>7 DEF TypeOK
<1>9. /\ st[w] = "runnable" /\ rs[w] = answered
      /\ \A t \in TaskId : /\ st[t] = "none" <=> state[t] = "none"
                           /\ t # w => st[t] = state[t] /\ rs[t] = saved[t]
  BY <1>2, <1>5, <1>8 DEF TypeOK
<1>10. q \in Seq(TaskId) /\ QueueInv(q, st, 0)
  <2>1. queue \in Seq(TaskId) /\ state \in [TaskId -> TaskStates]
    BY <1>2 DEF TypeOK
  <2>2. QueueInv(queue, state, w)
    <3>1. QueueInv(queue, state, 0) /\ queue = <<>>
      BY <1>2 DEF IInv
    <3>2. QED
      BY <3>1, <1>2 DEF QueueInv
  <2>3. QED
    BY <2>1, <2>2, <1>5, EnqueueInv
<1>11. st \in [TaskId -> TaskStates] /\ \A t \in TaskId : st[t] # "running"
  <2>1. \A t \in TaskId : state[t] # "running"
    BY <1>2 DEF IInv, PhaseInv
  <2>2. QED
    BY <2>1, <1>2, <1>5 DEF TypeOK, TaskStates
<1>12. \A t \in TaskId : st[t] # "none" => rs[t].quantum > 0
  BY <1>7, <1>9 DEF IInv, QuantumInv
<1>13. \A t \in TaskId : t >= nextTask =>
         st[t] = "none" /\ waiting[t] = 0 /\ resume[t] = "step"
  BY <1>9 DEF IInv, FreshInv
<1>14. TreeInv(st, parent, nextTask)
  <2>1. \A t \in TaskId : parent[t] # 0 => parent[t] \in TaskId
    BY <1>2, ParentType
  <2>2. QED
    <3> SUFFICES ASSUME NEW t \in TaskId, st[t] # "none"
                 PROVE  /\ t < nextTask
                        /\ parent[t] = 0 <=> t = Root
                        /\ parent[t] # 0 => parent[t] < t /\ st[parent[t]] = "children"
      BY DEF TreeInv
    <3>1. /\ t < nextTask
          /\ parent[t] = 0 <=> t = Root
          /\ parent[t] # 0 => parent[t] < t /\ state[parent[t]] = "children"
      BY <1>9 DEF IInv, TreeInv
    <3>2. parent[t] # 0 => parent[t] # w
      BY <3>1, <1>5
    <3>3. QED
      BY <3>1, <3>2, <2>1, <1>9
<1>15. JoinInv(st, parent, waiting)
  <2>1. \A p \in TaskId : Kids(st, parent, p) = Kids(state, parent, p)
    BY <1>9 DEF Kids
  <2>2. QED
    BY <2>1, <1>9 DEF IInv, JoinInv
<1>16. CallInv(st, rs, outstanding')
  <2>1. \A t \in TaskId : st[t] = "host" =>
          t # w /\ state[t] = "host" /\ rs[t].hostCall = saved[t].hostCall
    BY <1>9
  <2>2. \A t \in TaskId : st[t] = "host" => rs[t].hostCall # c
    BY <2>1, <1>2, <1>5 DEF CallInv
  <2>3. \A d \in outstanding' : \E t \in TaskId : st[t] = "host" /\ rs[t].hostCall = d
    <3> SUFFICES ASSUME NEW d \in outstanding'
                 PROVE  \E t \in TaskId : st[t] = "host" /\ rs[t].hostCall = d
      OBVIOUS
    <3>1. d \in outstanding /\ d # c
      BY <1>1
    <3>2. PICK t \in TaskId : state[t] = "host" /\ saved[t].hostCall = d
      BY <3>1, <1>2 DEF CallInv
    <3>3. t # w
      BY <3>1, <3>2, <1>5
    <3>4. QED
      BY <3>2, <3>3, <1>9
  <2>4. QED
    BY <2>1, <2>2, <2>3, <1>1, <1>2 DEF CallInv
<1>17. ResumeInv(st, rs, resume, 0)
  <2>1. ResumeInv(state, saved, resume, 0)
    BY <1>2 DEF IInv
  <2>2. c # 0
    BY <1>6
  <2>3. QED
    <3>1. st[w] = "runnable" /\ rs[w].hostCall # 0 /\ rs[w].ready = rs[w].hostCall
      BY <2>2, <1>7, <1>9
    <3>2. \A t \in TaskId : t # w => st[t] = state[t] /\ rs[t] = saved[t]
      BY <1>9
    <3> HIDE DEF st, rs
    <3>3. QED
      BY <3>1, <3>2, <2>1, <1>2 DEF ResumeInv
<1>18. permits' = Cardinality({t \in TaskId : st[t] # "none"})
  <2>1. {t \in TaskId : st[t] # "none"} = Live
    BY <1>9 DEF Live
  <2>2. QED
    BY <2>1, <1>1 DEF IInv
<1>19. \A d \in outstanding' : d < nextCall'
  BY <1>1 DEF IInv
<1>20. /\ st[Root] # "none"
       /\ vm \in Registers
       /\ resume' \in [TaskId -> {"step", "take", "join"}]
       /\ parent' \in [TaskId -> 0..MaxTasks]
       /\ index' \in [TaskId -> Nat]
       /\ waiting' \in [TaskId -> Nat]
       /\ results' \in [TaskId -> Seq(0..MaxTasks)]
       /\ outstanding' \in SUBSET (1..MaxCalls)
       /\ nextTask' \in 1..(MaxTasks + 1)
       /\ nextCall' \in 1..(MaxCalls + 1)
  BY <1>1, <1>2, <1>9 DEF TypeOK
<1>21. Schedule(q, st, rs, parent)
  BY <1>4
<1>22. rs \in [TaskId -> Registers]
  BY <1>8
<1> HIDE DEF q, st, rs, answered
<1>23. QED
  BY <1>1, <1>10, <1>11, <1>12, <1>13, <1>14, <1>15, <1>16, <1>17, <1>18,
     <1>19, <1>20, <1>21, <1>22, ScheduleIInv, ZenonT(40)

LEMMA ResultUpdate ==
  ASSUME NEW s \in Seq(0..MaxTasks), NEW i, NEW t \in 0..MaxTasks
  PROVE  [s EXCEPT ![i] = t] \in Seq(0..MaxTasks)
<1>1. CASE i \in 1..Len(s)
  BY <1>1, ExceptSeq
<1>2. CASE i \notin 1..Len(s)
  <2>1. [s EXCEPT ![i] = t] = s
    BY <1>2
  <2>2. QED
    BY <2>1
<1>3. QED
  BY <1>1, <1>2

(* A `par` child that completes: the waiting counter stays the number of   *)
(* live children, and the parent wakes when that reaches zero. *)
LEMMA CompleteChildInv ==
  ASSUME IInv, CompleteChild
  PROVE  IInv'
<1> DEFINE p == parent[current]
           left == LeftWaiting(p)
           wakes == WakesParent(p, left)
           gone == [state EXCEPT ![current] = "none"]
           q == IF wakes THEN Enqueue(queue, p) ELSE queue
           st == IF wakes THEN [gone EXCEPT ![p] = "runnable"] ELSE gone
           rs == Stopped(NoRegisters)
           kids == Kids(state, parent, p)
<1>1. /\ phase = "running" /\ p # 0
      /\ waiting' = [waiting EXCEPT ![p] = left]
      /\ results' = [results EXCEPT ![p][Element(current)] = current]
      /\ Schedule(q, st, rs, parent)
      /\ permits' = permits - 1
      /\ UNCHANGED <<resume, parent, index, outstanding, nextTask, nextCall>>
  BY DEF CompleteChild, Running
<1>2. /\ TypeOK
      /\ current \in TaskId /\ current # 0
      /\ state[current] \in {"running", "runnable"}
      /\ current < nextTask /\ current \in Live
      /\ state[Root] # "none" /\ Root \in TaskId
  BY <1>1, RunningFacts DEF IInv
<1>3. p \in TaskId /\ p < current /\ state[p] = "children" /\ current # Root /\ p # current
  BY <1>1, <1>2, ParentType DEF IInv, TreeInv
<1>4. /\ gone \in [TaskId -> TaskStates]
      /\ QueueInv(queue, gone, 0)
      /\ \A t \in TaskId : gone[t] # "running"
      /\ \A t \in TaskId : state[t] # "none" => parent[t] # current
  <2>1. "none" \in TaskStates \ {"runnable", "running"}
    BY DEF TaskStates
  <2>2. QED
    BY <1>1, <2>1, StopInv
<1>5. /\ gone[current] = "none"
      /\ \A t \in TaskId : t # current => gone[t] = state[t]
  BY <1>2 DEF TypeOK
<1>6. Kids(gone, parent, p) = kids \ {current} /\ current \in kids
  BY <1>2, <1>5 DEF Kids
<1>7. /\ waiting[p] = Cardinality(kids)
      /\ left = Cardinality(Kids(gone, parent, p))
      /\ left \in Nat
      /\ wakes <=> left = 0
  <2>1. waiting[p] = Cardinality(kids)
    BY <1>3 DEF IInv, JoinInv
  <2>2. IsFiniteSet(kids) /\ Cardinality(kids) \in Nat
    BY KidsFinite
  <2>3. Cardinality(kids \ {current}) = Cardinality(kids) - 1
    BY <1>6, <2>2, FS_RemoveElement
  <2>4. Cardinality(kids) # 0
    BY <1>6, <2>2, FS_EmptySet
  <2>5. left = Cardinality(kids) - 1
    BY <2>1, <2>4 DEF LeftWaiting
  <2>6. left \in Nat
    BY <2>2, <2>4, <2>5
  <2>7. wakes <=> left = 0
    BY <1>3 DEF WakesParent
  <2>8. QED
    BY <2>1, <2>3, <2>5, <2>6, <2>7, <1>6
<1>8. /\ st[current] = "none"
      /\ st[p] = IF wakes THEN "runnable" ELSE "children"
      /\ \A t \in TaskId : t # current /\ t # p => st[t] = state[t]
      /\ \A t \in TaskId : /\ st[t] = "none" <=> gone[t] = "none"
                           /\ st[t] = "host" <=> state[t] = "host"
                           /\ t # current => rs[t] = saved[t]
  <2>1. \A t \in TaskId : t # current => rs[t] = saved[t]
    BY <1>2 DEF Stopped, TypeOK
  <2>2. \A t \in TaskId : st[t] = IF wakes /\ t = p THEN "runnable" ELSE gone[t]
    BY <1>3, <1>4
  <2> HIDE DEF st, gone, rs, wakes, p
  <2>3. QED
    BY <2>1, <2>2, <1>2, <1>3, <1>5
<1>9. q \in Seq(TaskId) /\ QueueInv(q, st, 0)
  <2>1. queue \in Seq(TaskId)
    BY <1>2 DEF TypeOK
  <2>2. CASE wakes
    <3>1. QueueInv(queue, gone, p)
      <4>1. gone[p] = "children"
        BY <1>3, <1>5
      <4>2. \A i \in DOMAIN queue : gone[queue[i]] = "runnable" /\ queue[i] # p
        BY <4>1, <1>4 DEF QueueInv
      <4> HIDE DEF gone, p
      <4>3. QED
        BY <4>1, <4>2, <1>4, TasksAssumption DEF QueueInv, TaskId
    <3>2. QED
      BY <3>1, <2>1, <2>2, <1>3, <1>4, EnqueueInv
  <2>3. CASE ~wakes
    BY <2>1, <2>3, <1>4
  <2>4. QED
    BY <2>2, <2>3
<1>10. st \in [TaskId -> TaskStates] /\ \A t \in TaskId : st[t] # "running"
  BY <1>3, <1>4 DEF TaskStates
<1>11. rs \in [TaskId -> Registers]
  <2>1. NoRegisters \in Registers
    BY <1>2, NewRegisters DEF TypeOK
  <2>2. QED
    BY <2>1, <1>2 DEF Stopped, TypeOK
<1>12. left \in Nat /\ waiting \in [TaskId -> Nat]
  BY <1>2, <1>7 DEF TypeOK
<1>13. /\ waiting' \in [TaskId -> Nat] /\ waiting'[p] = left
       /\ \A t \in TaskId : t # p => waiting'[t] = waiting[t]
  BY <1>1, <1>3, <1>12
<1>14. results' \in [TaskId -> Seq(0..MaxTasks)]
  <2>1. results \in [TaskId -> Seq(0..MaxTasks)] /\ current \in 0..MaxTasks
    BY <1>2 DEF TypeOK
  <2>2. [results[p] EXCEPT ![Element(current)] = current] \in Seq(0..MaxTasks)
    BY <2>1, <1>3, ResultUpdate
  <2>3. QED
    BY <2>1, <2>2, <1>1, <1>3
<1> HIDE DEF st, q, rs, left, wakes, gone, kids, p
<1>15. \A t \in TaskId : st[t] # "none" => rs[t].quantum > 0
  BY <1>5, <1>8 DEF IInv, QuantumInv
<1>16. \A t \in TaskId : t >= nextTask =>
         st[t] = "none" /\ waiting'[t] = 0 /\ resume[t] = "step"
  <2>1. p < nextTask
    BY <1>2, <1>3 DEF TypeOK, TaskId
  <2>2. \A t \in TaskId : t >= nextTask => t # p /\ t # current
    BY <2>1, <1>2 DEF TypeOK, TaskId
  <2>3. QED
    BY <2>2, <1>5, <1>8, <1>13 DEF IInv, FreshInv
<1>17. TreeInv(st, parent, nextTask)
  <2> SUFFICES ASSUME NEW t \in TaskId, st[t] # "none"
               PROVE  /\ t < nextTask
                      /\ parent[t] = 0 <=> t = Root
                      /\ parent[t] # 0 => parent[t] < t /\ st[parent[t]] = "children"
    BY DEF TreeInv
  <2>1. t # current /\ state[t] # "none"
    BY <1>5, <1>8
  <2>2. /\ t < nextTask
        /\ parent[t] = 0 <=> t = Root
        /\ parent[t] # 0 => parent[t] < t /\ state[parent[t]] = "children"
    BY <2>1 DEF IInv, TreeInv
  <2>3. parent[t] = p => left # 0
    <3>1. parent[t] = p => t \in Kids(gone, parent, p)
      BY <2>1, <1>5 DEF Kids
    <3>2. QED
      BY <3>1, <1>7, KidsFinite
  <2>4. parent[t] # 0 => parent[t] \in TaskId /\ parent[t] # current
    BY <2>1, <1>2, <1>4, ParentType
  <2>5. QED
    BY <2>2, <2>3, <2>4, <1>7, <1>8
<1>18. JoinInv(st, parent, waiting')
  <2> SUFFICES ASSUME NEW r \in TaskId, st[r] # "none"
               PROVE  /\ waiting'[r] = Cardinality(Kids(st, parent, r))
                      /\ st[r] = "children" => Kids(st, parent, r) # {}
    BY DEF JoinInv
  <2>1. Kids(st, parent, r) = Kids(gone, parent, r)
    BY <1>8 DEF Kids
  <2>2. CASE r = p
    BY <2>1, <2>2, <1>7, <1>8, <1>13, KidsFinite
  <2>3. CASE r # p
    <3>1. Kids(gone, parent, r) = Kids(state, parent, r)
      BY <2>3, <1>5 DEF Kids, p
    <3>2. r # current /\ st[r] = state[r]
      BY <2>3, <1>8
    <3>3. QED
      BY <2>1, <2>3, <3>1, <3>2, <1>13 DEF IInv, JoinInv
  <2>4. QED
    BY <2>2, <2>3
<1>19. CallInv(st, rs, outstanding)
  <2>1. CallInv(state, saved, outstanding)
    BY <1>1 DEF IInv, Active
  <2>2. \A t \in TaskId : st[t] = "host" => t # current
    BY <1>8
  <2>3. \A t \in TaskId : state[t] = "host" => t # current
    BY <1>2
  <2>4. QED
    BY <2>1, <2>2, <2>3, <1>8 DEF CallInv
<1>20. ResumeInv(st, rs, resume, 0)
  <2>1. ResumeInv(state, saved, resume, current)
    BY DEF IInv
  <2>2. resume[p] = "join"
    BY <2>1, <1>3 DEF ResumeInv
  <2>3. st[p] # "host"
    BY <1>8
  <2>4. QED
    BY <2>1, <2>2, <2>3, <1>8 DEF ResumeInv
<1>21. permits' = Cardinality({t \in TaskId : st[t] # "none"})
  <2>1. {t \in TaskId : st[t] # "none"} = Live \ {current}
    BY <1>5, <1>8 DEF Live
  <2>2. Cardinality(Live \ {current}) = Cardinality(Live) - 1
    BY <1>2, LiveFinite, FS_RemoveElement
  <2>3. permits = Cardinality(Live)
    BY DEF IInv
  <2>4. QED
    BY <2>1, <2>2, <2>3, <1>1
<1>22. \A c \in outstanding : c < nextCall
  BY DEF IInv
<1>23. /\ st[Root] # "none"
       /\ vm \in Registers
       /\ resume' \in [TaskId -> {"step", "take", "join"}]
       /\ parent' \in [TaskId -> 0..MaxTasks]
       /\ index' \in [TaskId -> Nat]
       /\ outstanding' \in SUBSET (1..MaxCalls)
       /\ nextTask' \in 1..(MaxTasks + 1)
       /\ nextCall' \in 1..(MaxCalls + 1)
  BY <1>1, <1>2, <1>3, <1>5, <1>8 DEF TypeOK
<1>24. QED
  BY <1>1, <1>9, <1>10, <1>11, <1>13, <1>14, <1>15, <1>16, <1>17, <1>18, <1>19, <1>20,
     <1>21, <1>22, <1>23, ScheduleIInv, ZenonT(40)

(* The n tasks created from task m on. *)
Created(m, n) == [i \in 1..n |-> m + i - 1]

(* The children of a `par` join the run queue in source order. *)
LEMMA EnqueueNew ==
  ASSUME NEW q \in Seq(TaskId), NEW st, NEW n \in Nat \ {0}, NEW m \in Nat \ {0},
         m + n - 1 <= MaxTasks,
         \A i, j \in DOMAIN q : q[i] = q[j] => i = j,
         \A i \in DOMAIN q : st[q[i]] = "runnable" /\ q[i] < m,
         \A t \in m .. m + n - 1 : st[t] = "runnable",
         \A t \in TaskId : st[t] = "runnable" =>
           t \in m .. m + n - 1 \/ \E i \in DOMAIN q : q[i] = t
  PROVE  /\ q \o Created(m, n) \in Seq(TaskId)
         /\ QueueInv(q \o Created(m, n), st, 0)
<1> DEFINE new == Created(m, n)
           e == q \o new
           k == Len(q)
<1>1. new \in Seq(TaskId) /\ Len(new) = n /\ \A i \in 1..n : new[i] = m + i - 1
  <2>1. \A i \in 1..n : m + i - 1 \in TaskId
    BY TasksAssumption DEF TaskId
  <2>2. QED
    BY <2>1, IsASeq DEF Created
<1>2. k \in Nat /\ DOMAIN q = 1..k /\ \A i \in 1..k : q[i] \in TaskId
  BY LenProperties, ElementOfSeq
<1> HIDE DEF new
<1>3. /\ e \in Seq(TaskId) /\ DOMAIN e = 1..(k + n)
      /\ \A i \in 1..k : e[i] = q[i]
      /\ \A i \in 1..n : e[k + i] = m + i - 1
  <2>1. /\ e \in Seq(TaskId) /\ Len(e) = k + n
        /\ \A i \in 1..(k + n) : e[i] = IF i <= k THEN q[i] ELSE new[i - k]
    <3>1. e \in Seq(TaskId) /\ Len(e) = k + Len(new)
      <4>1. new \in Seq(TaskId)
        BY <1>1
      <4>2. QED
        BY <4>1
    <3>2. \A i \in 1..(k + Len(new)) : e[i] = IF i <= k THEN q[i] ELSE new[i - k]
      BY <1>1, ConcatProperties
    <3> HIDE DEF e, k
    <3>3. QED
      BY <3>1, <3>2, <1>1
  <2>2. DOMAIN e = 1..(k + n)
    BY <2>1, LenProperties
  <2>3. ASSUME NEW i \in 1..k
        PROVE  e[i] = q[i]
    <3>1. i \in 1..(k + n) /\ i <= k
      BY <1>2
    <3>2. QED
      BY <3>1, <2>1
  <2>4. ASSUME NEW i \in 1..n
        PROVE  e[k + i] = m + i - 1
    <3>1. k + i \in 1..(k + n) /\ ~(k + i <= k) /\ (k + i) - k = i
      BY <1>2
    <3>2. e[k + i] = new[(k + i) - k]
      BY <3>1, <2>1
    <3>3. QED
      BY <3>1, <3>2, <1>1
  <2>5. QED
    BY <2>1, <2>2, <2>3, <2>4
<1>4. \A i \in 1..(k + n) : i \in 1..k \/ (i - k \in 1..n /\ e[i] = m + (i - k) - 1)
  <2> SUFFICES ASSUME NEW i \in 1..(k + n), i \notin 1..k
               PROVE  i - k \in 1..n /\ e[i] = m + (i - k) - 1
    OBVIOUS
  <2>1. i - k \in 1..n /\ k + (i - k) = i
    BY <1>2
  <2>2. QED
    BY <2>1, <1>3
<1>5. 0 \notin TaskId /\ \A t \in TaskId : t \in Int
  BY TasksAssumption DEF TaskId
<1> HIDE DEF e, k
<1>6. \A i, j \in DOMAIN e : e[i] = e[j] => i = j
  <2> SUFFICES ASSUME NEW i \in 1..(k + n), NEW j \in 1..(k + n), e[i] = e[j]
               PROVE  i = j
    BY <1>3
  <2>1. CASE i \in 1..k /\ j \in 1..k
    BY <2>1, <1>2, <1>3
  <2>2. CASE i \in 1..k /\ j \notin 1..k
    <3>1. e[i] < m /\ e[i] \in Int /\ e[j] = m + (j - k) - 1 /\ j - k \in 1..n
      BY <2>2, <1>2, <1>3, <1>4, <1>5
    <3>2. QED
      BY <3>1
  <2>3. CASE i \notin 1..k /\ j \in 1..k
    <3>1. e[j] < m /\ e[j] \in Int /\ e[i] = m + (i - k) - 1 /\ i - k \in 1..n
      BY <2>3, <1>2, <1>3, <1>4, <1>5
    <3>2. QED
      BY <3>1
  <2>4. CASE i \notin 1..k /\ j \notin 1..k
    <3>1. e[i] = m + (i - k) - 1 /\ e[j] = m + (j - k) - 1
      BY <2>4, <1>4
    <3>2. m + (i - k) - 1 = m + (j - k) - 1
      BY <3>1
    <3>3. i \in Int /\ j \in Int /\ k \in Int /\ m \in Int
      BY <1>2
    <3>4. QED
      BY <3>2, <3>3
  <2>5. QED
    BY <2>1, <2>2, <2>3, <2>4
<1>7. \A i \in DOMAIN e : st[e[i]] = "runnable" /\ e[i] # 0
  <2> SUFFICES ASSUME NEW i \in 1..(k + n)
               PROVE  st[e[i]] = "runnable" /\ e[i] # 0
    BY <1>3
  <2>1. CASE i \in 1..k
    <3>1. e[i] = q[i] /\ i \in DOMAIN q /\ q[i] \in TaskId
      BY <2>1, <1>2, <1>3
    <3>2. QED
      BY <3>1, <1>5
  <2>2. CASE i \notin 1..k
    <3>1. e[i] = m + (i - k) - 1 /\ i - k \in 1..n
      BY <2>2, <1>4
    <3>2. e[i] \in m .. m + n - 1 /\ e[i] # 0
      BY <3>1
    <3>3. QED
      BY <3>2
  <2>3. QED
    BY <2>1, <2>2
<1>8. \A t \in TaskId : st[t] = "runnable" => \E i \in DOMAIN e : e[i] = t
  <2> SUFFICES ASSUME NEW t \in TaskId, st[t] = "runnable"
               PROVE  \E i \in 1..(k + n) : e[i] = t
    BY <1>3
  <2>1. CASE t \in m .. m + n - 1
    <3>1. t - m + 1 \in 1..n /\ m + (t - m + 1) - 1 = t
      BY <2>1
    <3>2. k + (t - m + 1) \in 1..(k + n)
      BY <3>1, <1>2
    <3>3. QED
      BY <3>1, <3>2, <1>3
  <2>2. CASE \E i \in DOMAIN q : q[i] = t
    <3>1. PICK i \in 1..k : q[i] = t
      BY <2>2, <1>2
    <3>2. i \in 1..(k + n) /\ e[i] = t
      BY <3>1, <1>2, <1>3
    <3>3. QED
      BY <3>2
  <2>3. QED
    BY <2>1, <2>2
<1>9. QED
  BY <1>3, <1>6, <1>7, <1>8 DEF QueueInv, e, new

(* A `par`: its children become live and runnable, the parent waits. *)
LEMMA ParallelStartInv ==
  ASSUME IInv, NEW n \in 1..MaxTasks, ParallelStart(n)
  PROVE  IInv'
<1> DEFINE new == nextTask .. nextTask + n - 1
           parents == [t \in TaskId |-> IF t \in new THEN current ELSE parent[t]]
           started == [t \in TaskId |-> IF t \in new THEN "runnable" ELSE state[t]]
           q == queue \o [i \in 1..n |-> nextTask + i - 1]
           st == [started EXCEPT ![current] = "children"]
           rs == [t \in TaskId |-> IF t \in new THEN TaskRegisters(<<Untraced>>)
                                   ELSE Stopped(vm)[t]]
<1>1. /\ phase = "running" /\ nextTask + n - 1 <= MaxTasks
      /\ nextTask' = nextTask + n /\ permits' = permits + n
      /\ parent' = parents
      /\ index' = [t \in TaskId |-> IF t \in new THEN t - nextTask ELSE index[t]]
      /\ waiting' = [waiting EXCEPT ![current] = @ + n]
      /\ results' = [results EXCEPT ![current] = [i \in 1..n |-> 0]]
      /\ resume' = [resume EXCEPT ![current] = "join"]
      /\ Schedule(q, st, rs, parents)
      /\ UNCHANGED <<outstanding, nextCall>>
  BY DEF ParallelStart, Running
<1>2. /\ TypeOK
      /\ current \in TaskId /\ current # 0
      /\ state[current] \in {"running", "runnable"}
      /\ current < nextTask
      /\ state[Root] # "none" /\ Root \in TaskId
      /\ vm \in Registers /\ vm.quantum > 0
  BY <1>1, RunningFacts DEF IInv
<1>3. /\ nextTask \in Nat \ {0} /\ n \in Nat \ {0} /\ MaxTasks \in Nat
      /\ nextTask' \in 1..(MaxTasks + 1)
  BY <1>1, <1>2, TasksAssumption DEF TypeOK
<1>4. /\ new \subseteq TaskId /\ current \notin new /\ Root \notin new
      /\ \A t \in TaskId : t \in Int
      /\ \A t \in TaskId : t \in new <=> (nextTask <= t /\ t < nextTask + n)
  <2>1. current \in 1..MaxTasks /\ Root = 1
    BY <1>2 DEF TaskId, Root
  <2>2. Root <= current
    BY <2>1
  <2>3. QED
    BY <1>1, <1>2, <1>3, <2>1, <2>2 DEF TaskId
<1>5. \A t \in TaskId : state[t] # "none" => t < nextTask /\ t \notin new
  BY <1>3, <1>4 DEF IInv, TreeInv
<1>6. \A t \in TaskId : st[t] = IF t = current THEN "children"
                                ELSE IF t \in new THEN "runnable" ELSE state[t]
  OBVIOUS
<1>7. \A t \in TaskId : rs[t] = IF t \in new THEN TaskRegisters(<<Untraced>>)
                                ELSE IF t = current THEN vm ELSE saved[t]
  BY <1>2 DEF Stopped, TypeOK
<1>8. \A t \in TaskId : parents[t] = IF t \in new THEN current ELSE parent[t]
  OBVIOUS
<1>9. /\ TaskRegisters(<<Untraced>>) \in Registers
      /\ TaskRegisters(<<Untraced>>).quantum > 0
      /\ TaskRegisters(<<Untraced>>).hostCall = 0
  <2>1. Untraced \in 0..MaxTasks
    BY <1>3 DEF Untraced
  <2>2. QED
    BY <2>1, NewRegisters DEF TaskRegisters
<1>10. rs \in [TaskId -> Registers]
  <2>1. Stopped(vm) \in [TaskId -> Registers]
    BY <1>2 DEF Stopped, TypeOK
  <2>2. QED
    BY <2>1, <1>9
<1>11. /\ parents \in [TaskId -> 0..MaxTasks]
       /\ index' \in [TaskId -> Nat]
       /\ results' \in [TaskId -> Seq(0..MaxTasks)]
       /\ resume' \in [TaskId -> {"step", "take", "join"}]
       /\ resume'[current] = "join"
       /\ \A t \in TaskId : t # current => resume'[t] = resume[t]
  <2>1. parents \in [TaskId -> 0..MaxTasks]
    BY <1>2 DEF TypeOK, TaskId
  <2>2. index' \in [TaskId -> Nat]
    <3>1. \A t \in new : t - nextTask \in Nat
      BY <1>3
    <3>2. QED
      BY <3>1, <1>1, <1>2 DEF TypeOK
  <2>3. results' \in [TaskId -> Seq(0..MaxTasks)]
    <3>1. [i \in 1..n |-> 0] \in Seq(0..MaxTasks)
      BY <1>3, IsASeq
    <3>2. QED
      BY <3>1, <1>1, <1>2 DEF TypeOK
  <2>4. QED
    BY <2>1, <2>2, <2>3, <1>1, <1>2 DEF TypeOK
<1>12. /\ st \in [TaskId -> TaskStates]
       /\ \A t \in TaskId : st[t] # "running"
  <2>1. \A t \in TaskId : state[t] = "running" => t = current
    BY DEF IInv, PhaseInv
  <2>2. \A t \in TaskId : state[t] \in TaskStates
    BY <1>2 DEF TypeOK
  <2>3. QED
    BY <2>1, <2>2, <1>6 DEF TaskStates
<1> HIDE DEF st, rs, parents
<1>13. q \in Seq(TaskId) /\ QueueInv(q, st, 0)
  <2>1. queue \in Seq(TaskId) /\ QueueInv(queue, state, current)
    BY <1>2 DEF TypeOK, IInv
  <2>2. \A i \in DOMAIN queue : queue[i] \in TaskId
    BY <2>1
  <2>3. \A i, j \in DOMAIN queue : queue[i] = queue[j] => i = j
    BY <2>1 DEF QueueInv
  <2>4. \A i \in DOMAIN queue : state[queue[i]] = "runnable" /\ queue[i] # current
    BY <2>1 DEF QueueInv
  <2>5. \A i \in DOMAIN queue : st[queue[i]] = "runnable" /\ queue[i] < nextTask
    BY <2>2, <2>4, <1>5, <1>6
  <2>6. \A t \in new : st[t] = "runnable"
    BY <1>4, <1>6
  <2>7. \A t \in TaskId : st[t] = "runnable" =>
          t \in new \/ \E i \in DOMAIN queue : queue[i] = t
    BY <2>1, <1>6 DEF QueueInv
  <2>8. nextTask + n - 1 <= MaxTasks
    BY <1>1
  <2>9. QED
    <3>1. q = queue \o Created(nextTask, n)
      BY DEF Created
    <3> HIDE DEF q
    <3>2. QED
      BY <2>1, <2>3, <2>5, <2>6, <2>7, <2>8, <1>3, <3>1, EnqueueNew
<1>14. \A t \in TaskId : st[t] # "none" => rs[t].quantum > 0
  BY <1>2, <1>6, <1>7, <1>9 DEF IInv, QuantumInv
<1>15. Kids(state, parent, current) = {} /\ waiting[current] = 0
       /\ \A t \in TaskId : state[t] # "none" => parent[t] # current
  <2>1. "children" \in TaskStates \ {"runnable", "running"}
    BY DEF TaskStates
  <2>2. QED
    BY <1>1, <2>1, StopInv
<1>16. /\ waiting' \in [TaskId -> Nat] /\ waiting'[current] = n
       /\ \A t \in TaskId : t # current => waiting'[t] = waiting[t]
  <2>1. waiting \in [TaskId -> Nat]
    BY <1>2 DEF TypeOK
  <2>2. QED
    BY <2>1, <1>1, <1>2, <1>3, <1>15
<1>17. \A t \in TaskId : t >= nextTask' =>
         st[t] = "none" /\ waiting'[t] = 0 /\ resume'[t] = "step"
  <2> SUFFICES ASSUME NEW t \in TaskId, t >= nextTask + n
               PROVE  st[t] = "none" /\ waiting'[t] = 0 /\ resume'[t] = "step"
    BY <1>1
  <2>1. t >= nextTask /\ t \notin new /\ t # current
    BY <1>2, <1>3, <1>4
  <2>2. state[t] = "none" /\ waiting[t] = 0 /\ resume[t] = "step"
    BY <2>1 DEF IInv, FreshInv
  <2>3. QED
    BY <2>1, <2>2, <1>6, <1>11, <1>16
<1>18. TreeInv(st, parents, nextTask')
  <2> SUFFICES ASSUME NEW t \in TaskId, st[t] # "none"
               PROVE  /\ t < nextTask'
                      /\ parents[t] = 0 <=> t = Root
                      /\ parents[t] # 0 => parents[t] < t /\ st[parents[t]] = "children"
    BY DEF TreeInv
  <2>1. CASE t \in new
    <3>1. parents[t] = current /\ current < t /\ t < nextTask' /\ t # Root
      BY <2>1, <1>1, <1>2, <1>3, <1>4, <1>8
    <3>2. QED
      BY <3>1, <1>2, <1>6
  <2>2. CASE t \notin new
    <3>1. state[t] # "none" /\ parents[t] = parent[t]
      BY <2>2, <1>2, <1>6, <1>8
    <3>2. /\ t < nextTask
          /\ parent[t] = 0 <=> t = Root
          /\ parent[t] # 0 => parent[t] < t /\ state[parent[t]] = "children"
      BY <3>1 DEF IInv, TreeInv
    <3>3. t < nextTask'
      BY <3>2, <1>1, <1>3, <1>4
    <3>4. parent[t] # 0 => st[parent[t]] = "children"
      <4>1. parent[t] # 0 => parent[t] \in TaskId
        BY <1>2, ParentType
      <4>2. parent[t] # 0 => parent[t] \notin new
        BY <3>2, <4>1, <1>5
      <4>3. QED
        BY <3>2, <4>1, <4>2, <1>6
    <3>5. QED
      BY <3>1, <3>2, <3>3, <3>4
  <2>3. QED
    BY <2>1, <2>2
<1>19. JoinInv(st, parents, waiting')
  <2> SUFFICES ASSUME NEW p \in TaskId, st[p] # "none"
               PROVE  /\ waiting'[p] = Cardinality(Kids(st, parents, p))
                      /\ st[p] = "children" => Kids(st, parents, p) # {}
    BY DEF JoinInv
  <2>1. CASE p = current
    <3>1. Kids(st, parents, p) = new
      <4>1. \A t \in TaskId : t \notin new => parents[t] # current \/ st[t] = "none"
        <5>1. current # parent[current]
          BY <1>2, <1>4 DEF IInv, TreeInv
        <5>2. QED
          BY <5>1, <1>6, <1>8, <1>15
      <4>2. \A t \in new : parents[t] = current /\ st[t] # "none"
        BY <1>4, <1>6, <1>8
      <4>3. QED
        BY <2>1, <4>1, <4>2, <1>4 DEF Kids
    <3>2. nextTask \in Int /\ nextTask + n - 1 \in Int /\ ~(nextTask > nextTask + n - 1)
      BY <1>3
    <3>3. Cardinality(new) = (nextTask + n - 1) - nextTask + 1
      BY <3>2, FS_Interval
    <3>4. Cardinality(new) = n
      BY <3>3, <1>3
    <3>5. nextTask \in new
      BY <1>3
    <3>6. QED
      BY <2>1, <3>1, <3>4, <3>5, <1>16
  <2>2. CASE p # current
    <3>1. Kids(st, parents, p) = Kids(state, parent, p)
      <4>1. \A t \in TaskId : st[t] # "none" /\ parents[t] = p <=>
                             state[t] # "none" /\ parent[t] = p
        BY <2>2, <1>2, <1>5, <1>6, <1>8
      <4>2. QED
        BY <4>1 DEF Kids
    <3>2. CASE p \in new
      <4>1. Kids(state, parent, p) = {}
        <5>1. \A t \in TaskId : state[t] # "none" => parent[t] # p
          <6> SUFFICES ASSUME NEW t \in TaskId, state[t] # "none", parent[t] = p
                       PROVE  FALSE
            OBVIOUS
          <6>1. state[p] = "children"
            BY <1>4 DEF IInv, TreeInv, TaskId
          <6>2. QED
            BY <6>1, <3>2, <1>5
        <5>2. QED
          BY <5>1 DEF Kids
      <4>2. p >= nextTask
        BY <3>2, <1>3, <1>4
      <4>3. waiting'[p] = 0
        BY <2>2, <4>2, <1>16 DEF IInv, FreshInv
      <4>4. st[p] # "children"
        BY <2>2, <3>2, <1>6
      <4>5. QED
        BY <3>1, <4>1, <4>3, <4>4, FS_EmptySet
    <3>3. CASE p \notin new
      <4>1. st[p] = state[p] /\ waiting'[p] = waiting[p]
        BY <2>2, <3>3, <1>6, <1>16
      <4>2. QED
        BY <3>1, <4>1 DEF IInv, JoinInv
    <3>4. QED
      BY <3>2, <3>3
  <2>3. QED
    BY <2>1, <2>2
<1>20. CallInv(st, rs, outstanding)
  <2>1. CallInv(state, saved, outstanding)
    BY <1>1 DEF IInv, Active
  <2>2. \A t \in TaskId : /\ st[t] = "host" <=> state[t] = "host"
                          /\ st[t] = "host" => rs[t] = saved[t]
    BY <1>2, <1>5, <1>6, <1>7
  <2>3. QED
    BY <2>1, <2>2 DEF CallInv
<1>21. ResumeInv(st, rs, resume', 0)
  <2> SUFFICES ASSUME NEW t \in TaskId
               PROVE  /\ st[t] = "host" => resume'[t] = "take"
                      /\ st[t] = "children" => resume'[t] = "join"
                      /\ st[t] = "runnable" /\ resume'[t] = "take" =>
                           rs[t].hostCall # 0 /\ rs[t].ready = rs[t].hostCall
    BY DEF ResumeInv
  <2>1. ResumeInv(state, saved, resume, current)
    BY DEF IInv
  <2>2. CASE t = current
    BY <2>2, <1>6, <1>11
  <2>3. CASE t \in new
    <3>1. t # current /\ t >= nextTask
      BY <2>3, <1>3, <1>4
    <3>2. resume'[t] = "step" /\ st[t] = "runnable"
      BY <2>3, <3>1, <1>6, <1>11 DEF IInv, FreshInv
    <3>3. QED
      BY <3>2
  <2>4. CASE t # current /\ t \notin new
    <3>1. st[t] = state[t] /\ rs[t] = saved[t] /\ resume'[t] = resume[t]
      BY <2>4, <1>6, <1>7, <1>11
    <3>2. QED
      BY <2>1, <2>4, <3>1 DEF ResumeInv
  <2>5. QED
    BY <2>2, <2>3, <2>4
<1>22. permits' = Cardinality({t \in TaskId : st[t] # "none"})
  <2>1. {t \in TaskId : st[t] # "none"} = Live \cup new
    BY <1>2, <1>4, <1>6 DEF Live
  <2>2. Live \cap new = {}
    BY <1>5 DEF Live
  <2>3. nextTask \in Int /\ nextTask + n - 1 \in Int /\ ~(nextTask > nextTask + n - 1)
    BY <1>3
  <2>4. IsFiniteSet(new) /\ Cardinality(new) = (nextTask + n - 1) - nextTask + 1
    BY <2>3, FS_Interval
  <2>5. Cardinality(new) = n
    BY <2>4, <1>3
  <2>6. Cardinality(Live \cup new) =
          Cardinality(Live) + Cardinality(new) - Cardinality(Live \cap new)
    <3> HIDE DEF new
    <3>1. QED
      BY <2>4, LiveFinite, FS_Union
  <2>7. Cardinality(Live \cap new) = 0
    BY <2>2, FS_EmptySet
  <2>8. permits = Cardinality(Live)
    BY DEF IInv
  <2>9. Cardinality(Live) \in Nat /\ permits' = permits + n
    BY <1>1, LiveFinite
  <2>10. Cardinality(Live \cup new) = permits'
    BY <2>5, <2>6, <2>7, <2>8, <2>9, <1>3
  <2>11. QED
    BY <2>1, <2>10
<1>23. \A c \in outstanding : c < nextCall
  BY DEF IInv
<1>24. /\ st[Root] # "none"
       /\ outstanding' \in SUBSET (1..MaxCalls)
       /\ nextCall' \in 1..(MaxCalls + 1)
  BY <1>1, <1>2, <1>6, <1>4 DEF TypeOK
<1> HIDE DEF q
<1>25. QED
  BY <1>1, <1>2, <1>3, <1>10, <1>11, <1>12, <1>13, <1>14, <1>16, <1>17, <1>18, <1>19,
     <1>20, <1>21, <1>22, <1>23, <1>24, ScheduleIInv, ZenonT(40)

(* The end of an execution gives every permit back. *)
LEMMA EndTasksInv ==
  ASSUME IInv, Active, NEW ended \in {"complete", "cancelled"}, EndTasks(ended)
  PROVE  IInv'
<1>1. /\ phase' = ended /\ permits' = permits - Released /\ current' = 0
      /\ vm' = [NoRegisters EXCEPT !.quantum = vm.quantum]
      /\ state' = [t \in TaskId |-> "none"]
      /\ saved' = [t \in TaskId |-> NoRegisters]
      /\ queue' = <<>>
      /\ UNCHANGED <<resume, parent, index, waiting, results, outstanding, nextTask, nextCall>>
  BY DEF EndTasks
<1>2. TypeOK /\ Root \in Live /\ 0 \in 0..MaxTasks
  BY TasksAssumption DEF IInv, PhaseInv, Live, Root, TaskId
<1>3. permits' = 0
  <2>1. {t \in Live : parent[t] # 0} = Live \ {Root}
    BY DEF IInv, TreeInv, Live
  <2>2. Cardinality(Live \ {Root}) = Cardinality(Live) - 1
    BY <1>2, LiveFinite, FS_RemoveElement
  <2>3. permits = Cardinality(Live) /\ Cardinality(Live) \in Nat
    BY LiveFinite DEF IInv
  <2>4. QED
    <3>1. Released = Cardinality(Live \ {Root}) + 1
      BY <2>1, Zenon DEF Released
    <3>2. QED
      BY <3>1, <1>1, <2>2, <2>3
<1>4. Cardinality(Live') = 0
  <2>1. Live' = {}
    BY <1>1 DEF Live
  <2>2. QED
    BY <2>1, FS_EmptySet
<1>5. vm' \in Registers /\ NoRegisters \in Registers
  <2>1. NoRegisters \in Registers
    BY <1>2, NewRegisters
  <2>2. vm.quantum \in 0..TaskQuantum
    BY <1>2 DEF TypeOK, Registers
  <2>3. QED
    BY <1>1, <2>1, <2>2, RegisterUpdates
<1>6. TypeOK'
  <2>1. /\ state' \in [TaskId -> TaskStates] /\ saved' \in [TaskId -> Registers]
        /\ queue' \in Seq(TaskId) /\ current' \in 0..MaxTasks /\ permits' \in Nat
    BY <1>1, <1>2, <1>3, <1>5 DEF TaskStates
  <2>2. phase' \in {"idle", "running", "pending"} \cup Ended
    BY <1>1 DEF Ended
  <2>3. QED
    BY <2>1, <2>2, <1>1, <1>2, <1>5 DEF TypeOK
<1>7. \A t \in TaskId : state'[t] = "none"
  BY <1>1
<1>8. PhaseInv'
  BY <1>1, <1>7 DEF PhaseInv, Active
<1>9. /\ QueueInv(queue, state, current)'
      /\ TreeInv(state, parent, nextTask)'
      /\ JoinInv(state, parent, waiting)'
      /\ ResumeInv(state, saved, resume, current)'
  BY <1>1, <1>7 DEF QueueInv, TreeInv, JoinInv, ResumeInv
<1>10. FreshInv' /\ QuantumInv'
  BY <1>1, <1>7 DEF IInv, FreshInv, QuantumInv
<1>11. TakesOwnResponse' /\ ~Active'
  BY <1>1 DEF TakesOwnResponse, Active
<1>12. (\A c \in outstanding : c < nextCall)'
  BY <1>1 DEF IInv
<1>13. QED
  BY <1>3, <1>4, <1>6, <1>8, <1>9, <1>10, <1>11, <1>12 DEF IInv

LEMMA StartInv ==
  ASSUME IInv, Start
  PROVE  IInv'
<1>1. /\ phase = "idle" /\ phase' = "running" /\ permits' = permits + 1
      /\ current' = Root /\ vm' = TaskRegisters(<<Root>>)
      /\ state' = [state EXCEPT ![Root] = "runnable"]
      /\ saved' = [saved EXCEPT ![Root] = vm']
      /\ nextTask' = Root + 1
      /\ UNCHANGED <<resume, queue, parent, index, waiting, results, outstanding, nextCall>>
  BY DEF Start
<1>2. /\ TypeOK /\ Root \in TaskId /\ Root \in 0..MaxTasks /\ 0 \notin TaskId
      /\ Root + 1 \in 1..(MaxTasks + 1) /\ \A t \in TaskId : t \in Int /\ t >= 1
  BY TasksAssumption DEF IInv, Root, TaskId
<1>3. /\ queue = <<>> /\ outstanding = {} /\ nextTask = 1 /\ parent[Root] = 0
      /\ \A t \in TaskId : state[t] = "none" /\ waiting[t] = 0 /\ resume[t] = "step"
  BY <1>1, <1>2 DEF IInv, PhaseInv, FreshInv
<1>4. vm' \in Registers /\ vm'.quantum > 0
  BY <1>1, <1>2, NewRegisters
<1>5. /\ state'[Root] = "runnable" /\ saved'[Root] = vm'
      /\ \A t \in TaskId : t # Root => state'[t] = "none"
  BY <1>1, <1>2, <1>3 DEF TypeOK
<1>6. Live' = {Root}
  BY <1>2, <1>5 DEF Live
<1>7. permits' = Cardinality(Live') /\ permits' \in Nat
  <2>1. Live = {}
    BY <1>3 DEF Live
  <2>2. permits = 0
    BY <2>1, FS_EmptySet DEF IInv
  <2>3. Cardinality({Root}) = 1
    BY FS_Singleton
  <2>4. QED
    BY <2>2, <2>3, <1>1, <1>6
<1>8. TypeOK'
  <2>1. state' \in [TaskId -> TaskStates] /\ saved' \in [TaskId -> Registers]
    BY <1>1, <1>2, <1>4 DEF TypeOK, TaskStates
  <2>2. QED
    BY <2>1, <1>1, <1>2, <1>4, <1>7 DEF TypeOK
<1>9. PhaseInv'
  BY <1>1, <1>2, <1>5 DEF PhaseInv, Active
<1>10. QueueInv(queue, state, current)'
  BY <1>1, <1>3, <1>5 DEF QueueInv
<1>11. TreeInv(state, parent, nextTask)'
  <2>1. Root < Root + 1
    BY DEF Root
  <2>2. QED
    BY <2>1, <1>1, <1>2, <1>3, <1>5 DEF TreeInv
<1>12. JoinInv(state, parent, waiting)'
  <2>1. Kids(state', parent', Root) = {}
    BY <1>1, <1>2, <1>3, <1>5 DEF Kids
  <2>2. QED
    BY <2>1, <1>1, <1>2, <1>3, <1>5, FS_EmptySet DEF JoinInv
<1>13. FreshInv'
  <2>1. \A t \in TaskId : t >= Root + 1 => t # Root
    BY <1>2 DEF Root
  <2>2. QED
    BY <2>1, <1>1, <1>3, <1>5 DEF FreshInv
<1>14. CallInv(state, saved, outstanding)' /\ (\A c \in outstanding : c < nextCall)'
  BY <1>1, <1>3, <1>5 DEF CallInv
<1>15. ResumeInv(state, saved, resume, current)' /\ TakesOwnResponse'
  BY <1>1, <1>2, <1>3, <1>5 DEF ResumeInv, TakesOwnResponse
<1>16. QuantumInv'
  BY <1>4, <1>5 DEF QuantumInv
<1>17. QED
  BY <1>7, <1>8, <1>9, <1>10, <1>11, <1>12, <1>13, <1>14, <1>15, <1>16 DEF IInv

(* The invariant holds initially. *)
LEMMA InitInv == Init => IInv
<1> SUFFICES ASSUME Init
             PROVE  IInv
  OBVIOUS
<1>1. /\ Root \in TaskId /\ 0 \in 0..MaxTasks /\ 0 \notin TaskId
      /\ 1 \in 1..(MaxTasks + 1) /\ 1 \in 1..(MaxCalls + 1)
      /\ <<>> \in Seq(0..MaxTasks) /\ <<>> \in Seq(TaskId)
  BY TasksAssumption DEF Root, TaskId
<1>2. NoRegisters \in Registers
  BY <1>1, NewRegisters
<1>3. Live = {}
  BY DEF Init, Live
<1>4. permits = Cardinality(Live)
  BY <1>3, FS_EmptySet DEF Init
<1>5. TypeOK
  BY <1>1, <1>2 DEF Init, TypeOK, TaskStates
<1>6. PhaseInv /\ FreshInv /\ QuantumInv /\ TakesOwnResponse /\ ~Active
  BY <1>1 DEF Init, PhaseInv, FreshInv, QuantumInv, TakesOwnResponse, Active
<1>7. /\ QueueInv(queue, state, current)
      /\ TreeInv(state, parent, nextTask)
      /\ JoinInv(state, parent, waiting)
      /\ ResumeInv(state, saved, resume, current)
      /\ \A c \in outstanding : c < nextCall
  BY DEF Init, QueueInv, TreeInv, JoinInv, ResumeInv
<1>8. QED
  BY <1>4, <1>5, <1>6, <1>7 DEF IInv

(* Every step preserves the invariant. *)
LEMMA NextInv == IInv /\ [Next]_vars => IInv'
<1> SUFFICES ASSUME IInv, [Next]_vars
             PROVE  IInv'
  OBVIOUS
<1>1. CASE UNCHANGED vars
  <2>1. UNCHANGED <<phase, current, vm, state, saved, resume, queue, parent, index,
                    waiting, results, permits, outstanding, nextTask, nextCall>>
    BY <1>1 DEF vars
  <2>2. TypeOK' /\ PhaseInv' /\ TakesOwnResponse' /\ FreshInv' /\ QuantumInv'
    BY <2>1 DEF IInv, TypeOK, PhaseInv, TakesOwnResponse, FreshInv, QuantumInv, Active
  <2>3. /\ QueueInv(queue, state, current)'
        /\ TreeInv(state, parent, nextTask)'
        /\ JoinInv(state, parent, waiting)'
        /\ ResumeInv(state, saved, resume, current)'
        /\ (Active => CallInv(state, saved, outstanding))'
        /\ (\A c \in outstanding : c < nextCall)'
    BY <2>1 DEF IInv, Active
  <2>4. permits' = Cardinality(Live')
    <3>1. Live' = Live
      BY <2>1 DEF Live
    <3>2. QED
      BY <3>1, <2>1 DEF IInv
  <2>5. QED
    BY <2>2, <2>3, <2>4 DEF IInv
<1>2. CASE StartArityError
  <2>1. /\ phase = "idle" /\ phase' = "complete"
        /\ UNCHANGED <<current, vm, state, saved, resume, queue, parent, index, waiting,
                       results, trace, permits, outstanding, nextTask, nextCall>>
    BY <1>2 DEF StartArityError
  <2>2. TypeOK' /\ PhaseInv' /\ TakesOwnResponse' /\ ~Active'
    BY <2>1 DEF IInv, TypeOK, PhaseInv, TakesOwnResponse, Active, Ended
  <2>3. FreshInv' /\ QuantumInv'
    BY <2>1 DEF IInv, FreshInv, QuantumInv
  <2>4. /\ QueueInv(queue, state, current)'
        /\ TreeInv(state, parent, nextTask)'
        /\ JoinInv(state, parent, waiting)'
        /\ ResumeInv(state, saved, resume, current)'
        /\ (\A c \in outstanding : c < nextCall)'
    BY <2>1 DEF IInv, QueueInv, TreeInv, JoinInv, Kids, ResumeInv
  <2>5. permits' = Cardinality(Live')
    <3>1. Live' = Live
      BY <2>1 DEF Live
    <3>2. QED
      BY <3>1, <2>1 DEF IInv
  <2>6. QED
    BY <2>2, <2>3, <2>4, <2>5 DEF IInv
<1>3. CASE Start
  BY <1>3, StartInv
<1>4. CASE LoopCheckpoint \/ Call \/ Return
  BY <1>4, LoopCheckpointInv, CallInvariant, ReturnInv
<1>5. CASE CompleteChild \/ Trap
  BY <1>5, CompleteChildInv, TrapInv
<1>6. CASE Complete
  BY <1>6, EndTasksInv DEF Complete, Running, Active
<1>7. CASE HostCallReady \/ HostCallPending \/ HostCallTake
  BY <1>7, HostCallReadyInv, HostCallPendingInv, HostCallTakeInv
<1>8. CASE \E n \in 1..MaxTasks : ParallelStart(n)
  BY <1>8, ParallelStartInv
<1>9. CASE ParallelEmpty \/ ParallelTake
  BY <1>9, ParallelLocalInv
<1>10. CASE \E c \in outstanding : Resume(c)
  BY <1>10, AnswerInv
<1>11. CASE Cancel
  BY <1>11, EndTasksInv DEF Cancel, Active
<1>12. CASE Terminated
  BY <1>12, <1>1 DEF Terminated
<1>13. QED
  BY <1>1, <1>2, <1>3, <1>4, <1>5, <1>6, <1>7, <1>8, <1>9, <1>10, <1>11, <1>12
  DEF Next, GuestStep

(* The inductive invariant holds in every reachable state of the scheduler. *)
THEOREM Invariance == Spec => []IInv
<1>1. QED
  BY InitInv, NextInv, PTL DEF Spec

(* Every variable of the scheduler keeps its type: no permit or waiting    *)
(* counter goes below zero, no queue holds anything but tasks.             *)
THEOREM TypeCorrect == Spec => []TypeOK
<1>1. IInv => TypeOK
  BY DEF IInv
<1>2. QED
  BY <1>1, Invariance, PTL

(* The run queue of scheduler.rs holds exactly the runnable tasks that do  *)
(* not run, each once, for any number of tasks and any quantum.            *)
THEOREM RunQueueIsExact == Spec => []RunQueueExact
<1>1. IInv => RunQueueExact
  <2> SUFFICES ASSUME IInv
               PROVE  RunQueueExact
    OBVIOUS
  <2>1. QueueInv(queue, state, current) /\ queue \in Seq(TaskId)
    BY DEF IInv, TypeOK
  <2>2. \A i \in DOMAIN queue : queue[i] \in TaskId
    BY <2>1
  <2>3. Queued \subseteq {t \in Live : state[t] = "runnable"} \ {current}
    BY <2>1, <2>2 DEF QueueInv, Queued, Live
  <2>4. {t \in Live : state[t] = "runnable"} \ {current} \subseteq Queued
    BY <2>1 DEF QueueInv, Queued, Live
  <2>5. QED
    BY <2>1, <2>3, <2>4 DEF RunQueueExact, QueueInv
<1>2. QED
  BY <1>1, Invariance, PTL

(* At most one task runs, one does while an export runs, and none and      *)
(* nothing runnable is left when control returns to the runner.            *)
THEOREM OneTaskRuns == Spec => []OneRunningTask
<1>1. IInv => OneRunningTask
  <2>1. Root \in TaskId
    BY TasksAssumption DEF Root, TaskId
  <2>2. QED
    BY <2>1 DEF IInv, PhaseInv, OneRunningTask, Active, Live
<1>2. QED
  BY <1>1, Invariance, PTL

(* The waiting counter complete_child counts down is the number of live    *)
(* `par` children, and a task waits for children exactly while it has any. *)
THEOREM JoinsCount == Spec => []JoinCounts
<1>1. IInv => JoinCounts
  <2> SUFFICES ASSUME IInv, NEW p \in Live
               PROVE  /\ waiting[p] = Cardinality(Children(p))
                      /\ state[p] = "children" <=> Children(p) # {}
    BY DEF JoinCounts
  <2>1. p \in TaskId /\ state[p] # "none" /\ 0 \notin TaskId
    BY TasksAssumption DEF Live, TaskId
  <2>2. Children(p) = Kids(state, parent, p)
    BY DEF Children, Kids, Live
  <2>3. Kids(state, parent, p) # {} => state[p] = "children"
    BY <2>1 DEF IInv, TreeInv, Kids
  <2>4. QED
    BY <2>1, <2>2, <2>3 DEF IInv, JoinInv
<1>2. QED
  BY <1>1, Invariance, PTL

(* Pending host calls and waiting tasks correspond one to one, so          *)
(* __exs_resume_host never refuses the answer to a call of this execution. *)
THEOREM CallsHaveWaiters == Spec => []CallsMatchWaiters
<1>1. IInv => CallsMatchWaiters
  <2> SUFFICES ASSUME IInv, Active
               PROVE  LET waiters == {t \in Live : state[t] = "host"}
                      IN  /\ outstanding = {saved[t].hostCall : t \in waiters}
                          /\ \A t, u \in waiters :
                               saved[t].hostCall = saved[u].hostCall => t = u
    BY DEF CallsMatchWaiters, Active
  <2> DEFINE waiters == {t \in Live : state[t] = "host"}
  <2>1. CallInv(state, saved, outstanding)
    BY DEF IInv
  <2>2. waiters = {t \in TaskId : state[t] = "host"}
    BY DEF Live
  <2>3. \A t, u \in waiters : saved[t].hostCall = saved[u].hostCall => t = u
    BY <2>1, <2>2 DEF CallInv
  <2>4. {saved[t].hostCall : t \in waiters} \subseteq outstanding
    BY <2>1, <2>2 DEF CallInv
  <2>5. outstanding \subseteq {saved[t].hostCall : t \in waiters}
    BY <2>1, <2>2 DEF CallInv
  <2>6. QED
    BY <2>3, <2>4, <2>5
<1>2. QED
  BY <1>1, Invariance, PTL

(* The permits the guest holds of the runner are its live tasks, and none  *)
(* is left when an execution completes or is cancelled.                    *)
THEOREM PermitsAreExact == Spec => []PermitsExact
<1>1. IInv => PermitsExact
  BY DEF IInv, PermitsExact
<1>2. QED
  BY <1>1, Invariance, PTL

(* A task takes the response to the call it made itself.                   *)
THEOREM TasksTakeOwnResponse == Spec => []TakesOwnResponse
<1>1. IInv => TakesOwnResponse
  BY DEF IInv
<1>2. QED
  BY <1>1, Invariance, PTL

(* The wrapping decrement of the quantum never starts from zero.           *)
THEOREM QuantumStaysArmed == Spec => []QuantumArmed
<1>1. IInv => QuantumArmed
  BY DEF IInv, QuantumInv, QuantumArmed, Live
<1>2. QED
  BY <1>1, Invariance, PTL

(* A suspended guest always waits for a call the runner still holds: the   *)
(* newest live task has no children, so it is one that waits for a call.   *)
THEOREM PendingIsResumable == Spec => []PendingCanResume
<1>1. IInv => PendingCanResume
  <2> SUFFICES ASSUME IInv, phase = "pending", outstanding = {}
               PROVE  FALSE
    BY DEF PendingCanResume
  <2>1. /\ queue = <<>> /\ current = 0 /\ Root \in Live /\ 0 \notin TaskId
        /\ \A t \in TaskId : state[t] # "running"
    BY TasksAssumption DEF IInv, PhaseInv, Active, Live, Root, TaskId
  <2>2. \A t \in TaskId : state[t] # "runnable" /\ state[t] # "host"
    BY <2>1 DEF IInv, QueueInv, CallInv, Active
  <2>3. \A t \in Live : state[t] = "children"
    <3>1. \A t \in TaskId : state[t] \in TaskStates
      BY DEF IInv, TypeOK
    <3>2. QED
      BY <3>1, <2>1, <2>2 DEF TaskStates, Live
  <2>4. \A p \in Live : \E t \in Live : p < t
    <3> SUFFICES ASSUME NEW p \in Live
                 PROVE  \E t \in Live : p < t
      OBVIOUS
    <3>1. p \in TaskId /\ state[p] = "children"
      BY <2>3 DEF Live
    <3>2. PICK t \in TaskId : state[t] # "none" /\ parent[t] = p
      BY <3>1 DEF IInv, JoinInv, Kids
    <3>3. p < t
      BY <3>1, <3>2, <2>1 DEF IInv, TreeInv
    <3>4. QED
      BY <3>2, <3>3 DEF Live
  <2> DEFINE T == {MaxTasks - t : t \in Live}
  <2>5. T \subseteq Nat /\ T # {}
    BY <2>1, TasksAssumption DEF Live, TaskId
  <2>6. PICK x \in T : \A y \in T : <<y, x>> \notin OpToRel(<, Nat)
    BY <2>5, NatLessThanWellFounded, WFMin, Zenon
  <2>7. PICK p \in Live : x = MaxTasks - p
    BY <2>6
  <2>8. PICK t \in Live : p < t
    BY <2>4, <2>7
  <2>9. MaxTasks - t \in T /\ MaxTasks - t \in Nat /\ x \in Nat /\ MaxTasks - t < x
    <3>1. MaxTasks - t \in T /\ x \in T
      BY <2>6
    <3>2. MaxTasks - t \in Nat /\ x \in Nat
      BY <2>5, <3>1
    <3>3. p \in Int /\ t \in Int /\ MaxTasks \in Int
      BY TasksAssumption DEF Live, TaskId
    <3>4. QED
      BY <2>7, <2>8, <3>1, <3>2, <3>3
  <2>10. <<MaxTasks - t, x>> \in OpToRel(<, Nat)
    BY <2>9, Zenon DEF OpToRel
  <2>11. QED
    BY <2>6, <2>9, <2>10
<1>2. QED
  BY <1>1, Invariance, PTL

(* A call id is handed to the runner once: next_host_call only grows and a *)
(* pending call takes the value it had.                                    *)
THEOREM CallIdsAreFresh == Spec => CallIdsFresh
<1>1. IInv /\ [Next]_vars =>
        [\A c \in outstanding' \ outstanding : nextCall <= c /\ c < nextCall']_vars
  <2> SUFFICES ASSUME IInv, Next
               PROVE  \A c \in outstanding' \ outstanding : nextCall <= c /\ c < nextCall'
    BY DEF vars
  <2>1. nextCall \in Int
    BY DEF IInv, TypeOK
  <2>2. CASE HostCallPending
    BY <2>1, <2>2 DEF HostCallPending, NextCallId
  <2>3. CASE \E c \in outstanding : Resume(c)
    BY <2>3 DEF Resume
  <2>4. CASE \/ StartArityError \/ Start \/ Return \/ HostCallReady \/ HostCallTake
             \/ ParallelEmpty \/ ParallelTake \/ Trap
    BY <2>4 DEF StartArityError, Start, Return, HostCallReady, HostCallTake,
       ParallelEmpty, ParallelTake, Trap
  <2>5. CASE LoopCheckpoint \/ Call \/ CompleteChild
    BY <2>5 DEF LoopCheckpoint, Call, CompleteChild
  <2>6. CASE \E n \in 1..MaxTasks : ParallelStart(n)
    BY <2>6 DEF ParallelStart
  <2>7. CASE Complete \/ Cancel \/ Terminated
    BY <2>7 DEF Complete, Cancel, EndTasks, Terminated, vars
  <2>8. QED
    BY <2>2, <2>3, <2>4, <2>5, <2>6, <2>7 DEF Next, GuestStep
<1>2. QED
  BY <1>1, Invariance, PTL DEF Spec, CallIdsFresh

(* No step of the running task and no answer touches the registers of a    *)
(* task that waits, but for the response to the call it made.              *)
THEOREM WaitingTasksAreUndisturbed == Spec => WaitingTasksUndisturbed
<1> DEFINE Kept(t) == \/ saved'[t] = saved[t]
                      \/ /\ state[t] = "host"
                         /\ saved'[t] = [saved[t] EXCEPT !.ready = saved[t].hostCall]
<1>1. IInv /\ [Next]_vars =>
        [\A t \in Live : t # current /\ phase' \notin Ended => Kept(t)]_vars
  <2> SUFFICES ASSUME IInv, Next, NEW t \in Live, t # current, phase' \notin Ended
               PROVE  Kept(t)
    BY DEF vars
  <2>1. /\ t \in TaskId /\ state[t] # "none" /\ saved \in [TaskId -> Registers]
        /\ t < nextTask /\ t \in Int /\ nextTask \in Int
    BY TasksAssumption DEF IInv, TypeOK, TreeInv, Live, TaskId
  <2>2. \A regs : Stopped(regs)[t] = saved[t]
    BY <2>1 DEF Stopped
  <2>3. CASE \/ StartArityError \/ Return \/ HostCallReady \/ HostCallTake
             \/ ParallelEmpty \/ ParallelTake \/ Trap
    BY <2>3 DEF StartArityError, Return, HostCallReady, HostCallTake,
       ParallelEmpty, ParallelTake, Trap
  <2>4. CASE Start
    BY <2>1, <2>4 DEF Start, IInv, PhaseInv
  <2>5. CASE LoopCheckpoint \/ Call
    BY <2>2, <2>5 DEF LoopCheckpoint, Call, PassCheckpoint, Schedule
  <2>6. CASE CompleteChild
    BY <2>2, <2>6 DEF CompleteChild, Schedule
  <2>7. CASE HostCallPending
    BY <2>2, <2>7 DEF HostCallPending, Schedule
  <2>8. CASE \E n \in 1..MaxTasks : ParallelStart(n)
    <3>1. PICK n \in 1..MaxTasks : ParallelStart(n)
      BY <2>8
    <3>2. saved'[t] = IF t \in nextTask .. nextTask + n - 1
                      THEN TaskRegisters(<<Untraced>>) ELSE Stopped(vm)[t]
      BY <2>1, <3>1 DEF ParallelStart, Schedule
    <3>3. t \notin nextTask .. nextTask + n - 1
      BY <2>1
    <3>4. QED
      BY <2>2, <3>2, <3>3
  <2>9. CASE \E c \in outstanding : Resume(c)
    <3>1. PICK c \in outstanding : Resume(c)
      BY <2>9
    <3>2. CASE Waiters(c) = {}
      BY <3>1, <3>2 DEF Resume
    <3>3. CASE Waiters(c) # {}
      <4>1. PICK w \in Waiters(c) : saved' = [saved EXCEPT ![w].ready = c]
        BY <3>1, <3>3 DEF Resume, Schedule
      <4>2. w \in TaskId /\ state[w] = "host" /\ saved[w].hostCall = c
        BY DEF Waiters, Live
      <4>3. CASE t = w
        BY <4>1, <4>2, <4>3, <2>1
      <4>4. CASE t # w
        BY <4>1, <4>4, <2>1
      <4>5. QED
        BY <4>3, <4>4
    <3>4. QED
      BY <3>2, <3>3
  <2>10. CASE Complete \/ Cancel \/ Terminated
    BY <2>10 DEF Complete, Cancel, EndTasks, Terminated, vars, Ended
  <2>11. QED
    BY <2>3, <2>4, <2>5, <2>6, <2>7, <2>8, <2>9, <2>10 DEF Next, GuestStep
<1>2. QED
  BY <1>1, Invariance, PTL DEF Spec, WaitingTasksUndisturbed

(* The run queue, the running task and the quantum agree for every number  *)
(* of tasks: schedule(), checkpoint() and the wake-ups of children and     *)
(* calls never disturb one another.                                        *)
THEOREM SchedulerIsConsistent == Spec => []SchedulerConsistent
BY TypeCorrect, RunQueueIsExact, OneTaskRuns, QuantumStaysArmed, PTL DEF SchedulerConsistent

(* Pending calls, waiting tasks and permits match one to one, and a task   *)
(* goes on with the answer to its own call, whatever the runner's order.   *)
THEOREM CallsAreConsistent == Spec => []CallsConsistent
BY CallsHaveWaiters, PermitsAreExact, TasksTakeOwnResponse, PTL DEF CallsConsistent

(* --- The Error trace. --- *)

(* The rebuilt sequence at each place of a chain, where every place but 0  *)
(* extends that of an earlier one. *)
ChainStep(f, n, prev, more) ==
  [u \in 0..n |-> IF u = 0 THEN <<>> ELSE f[prev[u]] \o more[u]]

Chained(n, prev) == \A u \in 1..n : prev[u] \in Nat /\ prev[u] < u

(* The least element of a set of naturals. *)
LEMMA LeastExists ==
  ASSUME NEW S, S \subseteq Nat, S # {}
  PROVE  \E x \in S : \A y \in S : x <= y
<1>1. PICK x \in S : \A y \in S : <<y, x>> \notin OpToRel(<, Nat)
  BY NatLessThanWellFounded, WFMin, Zenon
<1>2. \A y \in S : x <= y
  <2> SUFFICES ASSUME NEW y \in S, ~(x <= y)
               PROVE  FALSE
    OBVIOUS
  <2>1. y \in Nat /\ x \in Nat /\ y < x
    OBVIOUS
  <2>2. <<y, x>> \in OpToRel(<, Nat)
    BY <2>1, Zenon DEF OpToRel
  <2>3. QED
    BY <1>1, <2>2
<1>3. QED
  BY <1>2

(* A recursion along a chain has a solution. *)
LEMMA ChainExists ==
  ASSUME NEW n \in Nat, NEW prev, NEW more, Chained(n, prev)
  PROVE  \E f : f = ChainStep(f, n, prev, more)
<1> DEFINE Bad == {k \in Nat : k <= n /\ ~ \E f : f = ChainStep(f, k, prev, more)}
<1>1. SUFFICES ASSUME Bad # {}
               PROVE  FALSE
  <2>1. n \in Bad \/ \E f : f = ChainStep(f, n, prev, more)
    OBVIOUS
  <2>2. QED
    BY <2>1
<1>2. PICK k \in Bad : \A y \in Bad : k <= y
  BY <1>1, LeastExists, Bad \subseteq Nat
<1>3. k \in Nat /\ k <= n /\ ~ \E f : f = ChainStep(f, k, prev, more)
  BY <1>2
<1>4. k # 0
  <2>1. PICK f : f = [u \in 0..0 |-> <<>>]
    OBVIOUS
  <2>2. f = ChainStep(f, 0, prev, more)
    BY <2>1 DEF ChainStep
  <2>3. QED
    BY <1>3, <2>2
<1>5. k - 1 \in Nat /\ k - 1 \notin Bad /\ k - 1 <= n
  BY <1>2, <1>3, <1>4
<1>6. PICK f : f = ChainStep(f, k - 1, prev, more)
  BY <1>5
<1>7. PICK g : g = [u \in 0..k |-> IF u = k THEN f[prev[k]] \o more[k] ELSE f[u]]
  OBVIOUS
<1>8. prev[k] \in 0..(k - 1)
  BY <1>3, <1>4 DEF Chained
<1>9. \A u \in 0..(k - 1) : g[u] = f[u]
  BY <1>3, <1>7
<1>10. \A u \in 0..k : g[u] = IF u = 0 THEN <<>> ELSE g[prev[u]] \o more[u]
  <2> SUFFICES ASSUME NEW u \in 0..k
               PROVE  g[u] = IF u = 0 THEN <<>> ELSE g[prev[u]] \o more[u]
    OBVIOUS
  <2>1. CASE u = k
    BY <2>1, <1>3, <1>4, <1>7, <1>8, <1>9
  <2>2. CASE u # k
    <3>1. u \in 0..(k - 1)
      BY <2>2, <1>3
    <3>2. f[u] = IF u = 0 THEN <<>> ELSE f[prev[u]] \o more[u]
      BY <3>1, <1>6 DEF ChainStep
    <3>3. u # 0 => prev[u] \in 0..(k - 1)
      BY <3>1, <1>3 DEF Chained
    <3>4. QED
      BY <3>1, <3>2, <3>3, <1>9
  <2>3. QED
    BY <2>1, <2>2
<1>11. g = ChainStep(g, k, prev, more)
  BY <1>7, <1>10 DEF ChainStep
<1>12. QED
  BY <1>3, <1>11

(* The solution a definition chooses. *)
Chain(n, prev, more) == CHOOSE f : f = ChainStep(f, n, prev, more)

(* The function chosen satisfies its recursive equation. *)
LEMMA ChainChosen ==
  ASSUME NEW n \in Nat, NEW prev, NEW more, Chained(n, prev)
  PROVE  \A u \in 0..n : Chain(n, prev, more)[u] =
           IF u = 0 THEN <<>> ELSE Chain(n, prev, more)[prev[u]] \o more[u]
<1>1. Chain(n, prev, more) = ChainStep(Chain(n, prev, more), n, prev, more)
  BY ChainExists, Zenon DEF Chain
<1>2. QED
  BY <1>1 DEF ChainStep

(* What it holds at each place. *)
Unrolls(c, n, prev, more) ==
  /\ c[0] = <<>>
  /\ \A u \in 1..n : c[u] = c[prev[u]] \o more[u]

(* What the chain holds at each place. *)
LEMMA ChainIs ==
  ASSUME NEW n \in Nat, NEW prev, NEW more, Chained(n, prev)
  PROVE  Unrolls(Chain(n, prev, more), n, prev, more)
<1>1. \A u \in 0..n : Chain(n, prev, more)[u] =
        IF u = 0 THEN <<>> ELSE Chain(n, prev, more)[prev[u]] \o more[u]
  BY ChainChosen
<1>2. 0 \in 0..n /\ \A u \in 1..n : u \in 0..n /\ u # 0
  OBVIOUS
<1>3. QED
  BY <1>1, <1>2, Zenon DEF Unrolls

(* What the places of a chain hold is of one type. *)
LEMMA ChainType ==
  ASSUME NEW S, NEW n \in Nat, NEW prev, NEW more, Chained(n, prev),
         \A u \in 1..n : more[u] \in Seq(S)
  PROVE  \A u \in 0..n : Chain(n, prev, more)[u] \in Seq(S)
<1> DEFINE c == Chain(n, prev, more)
           Bad == {u \in 0..n : c[u] \notin Seq(S)}
<1>1. SUFFICES ASSUME Bad # {}
               PROVE  FALSE
  OBVIOUS
<1>2. PICK u \in Bad : \A y \in Bad : u <= y
  BY <1>1, LeastExists, Bad \subseteq Nat
<1>3. /\ c[0] = <<>>
      /\ \A x \in 1..n : c[x] = c[prev[x]] \o more[x]
  <2>1. Unrolls(c, n, prev, more)
    BY ChainIs
  <2>2. QED
    BY <2>1, Zenon DEF Unrolls
<1>4. u # 0
  <2>1. c[u] \notin Seq(S)
    BY <1>2
  <2>2. <<>> \in Seq(S)
    OBVIOUS
  <2>3. QED
    BY <1>3, <2>1, <2>2, Zenon
<1>5. prev[u] \in 0..n /\ prev[u] \notin Bad
  BY <1>2, <1>4 DEF Chained
<1>6. c[prev[u]] \in Seq(S) /\ more[u] \in Seq(S)
  BY <1>2, <1>4, <1>5
<1> HIDE DEF c
<1>7. c[u] \in Seq(S)
  <2>1. c[u] = c[prev[u]] \o more[u]
    <3>1. u \in 1..n
      BY <1>2, <1>4
    <3>2. QED
      BY <1>3, <3>1, Zenon
  <2>2. c[prev[u]] \o more[u] \in Seq(S)
    BY <1>6, ConcatProperties
  <2>3. QED
    BY <2>1, <2>2
<1>8. QED
  BY <1>2, <1>7

(* The places S are closed under going back, and two chains are the same   *)
(* there. *)
SameOn(S, n, prev, more, n2, prev2, more2) ==
  /\ n \in Nat /\ n2 \in Nat /\ Chained(n, prev) /\ Chained(n2, prev2)
  /\ S \subseteq 0..n /\ S \subseteq 0..n2
  /\ \A u \in S : u # 0 => /\ prev2[u] = prev[u] /\ prev[u] \in S
                           /\ more2[u] = more[u]

(* Chains that agree on a closed set of places are equal there. *)
LEMMA ChainsAgree ==
  ASSUME NEW S, NEW n, NEW prev, NEW more, NEW n2, NEW prev2, NEW more2,
         SameOn(S, n, prev, more, n2, prev2, more2)
  PROVE  \A u \in S : Chain(n2, prev2, more2)[u] = Chain(n, prev, more)[u]
<1> USE DEF SameOn
<1> DEFINE c == Chain(n, prev, more)
           d == Chain(n2, prev2, more2)
           Bad == {u \in S : d[u] # c[u]}
<1>1. SUFFICES ASSUME Bad # {}
               PROVE  FALSE
  OBVIOUS
<1>2. PICK u \in Bad : \A y \in Bad : u <= y
  <2>1. Bad \subseteq Nat
    <3>1. \A u \in 0..n : u \in Nat
      OBVIOUS
    <3>2. Bad \subseteq S
      OBVIOUS
    <3>3. QED
      BY <3>1, <3>2
  <2>2. QED
    BY <1>1, <2>1, LeastExists
<1>3. u \in 0..n /\ u \in 0..n2 /\ u \in S /\ d[u] # c[u]
  BY <1>2
<1>4. /\ c[0] = <<>> /\ d[0] = <<>>
      /\ \A x \in 1..n : c[x] = c[prev[x]] \o more[x]
      /\ \A x \in 1..n2 : d[x] = d[prev2[x]] \o more2[x]
  <2>1. Unrolls(c, n, prev, more) /\ Unrolls(d, n2, prev2, more2)
    BY ChainIs
  <2>2. QED
    BY <2>1, Zenon DEF Unrolls
<1> HIDE DEF c, d
<1>5. u # 0
  BY <1>3, <1>4, Zenon
<1>6. u \in 1..n /\ u \in 1..n2
  BY <1>3, <1>5
<1>7. prev[u] \in S /\ prev[u] \in Nat /\ prev[u] < u /\ prev2[u] = prev[u]
      /\ more2[u] = more[u]
  BY <1>3, <1>5, <1>6 DEF Chained
<1>8. d[prev[u]] = c[prev[u]]
  BY <1>2, <1>3, <1>7
<1>9. c[u] = c[prev[u]] \o more[u] /\ d[u] = d[prev2[u]] \o more2[u]
  BY <1>4, <1>6, Zenon
<1>10. QED
  BY <1>3, <1>7, <1>8, <1>9, Zenon
-----------------------------------------------------------------------------
(* The entries of a sequence of frames, as a chain of its prefixes. *)
Words(frames) ==
  [i \in 1..Len(frames) |-> IF frames[i] = Untraced THEN <<>> ELSE <<frames[i]>>]

Before(n) == [i \in 1..n |-> i - 1]

(* The entries of the frames are a chain over their prefixes. *)
LEMMA EntriesChain ==
  ASSUME NEW frames \in Seq(0..MaxTasks)
  PROVE  /\ Chained(Len(frames), Before(Len(frames)))
         /\ \A i \in 1..Len(frames) : Words(frames)[i] \in Seq(0..MaxTasks)
         /\ Entries(frames) = Chain(Len(frames), Before(Len(frames)), Words(frames))[Len(frames)]
<1> DEFINE n == Len(frames)
<1>1. n \in Nat
  OBVIOUS
<1>2. Chained(n, Before(n))
  BY <1>1 DEF Chained, Before
<1>3. \A i \in 1..n : Words(frames)[i] \in Seq(0..MaxTasks)
  <2> SUFFICES ASSUME NEW i \in 1..n
               PROVE  Words(frames)[i] \in Seq(0..MaxTasks)
    OBVIOUS
  <2>1. frames[i] \in 0..MaxTasks
    BY ElementOfSeq
  <2>2. <<>> \in Seq(0..MaxTasks) /\ <<frames[i]>> \in Seq(0..MaxTasks)
    BY <2>1
  <2>3. QED
    BY <2>2 DEF Words
<1>4. \A f : ChainStep(f, n, Before(n), Words(frames))
              = [i \in 0..n |-> IF i = 0 THEN <<>>
                   ELSE f[i - 1] \o (IF frames[i] = Untraced THEN <<>> ELSE <<frames[i]>>)]
  <2> SUFFICES ASSUME NEW f, NEW i \in 0..n, i # 0
               PROVE  /\ Before(n)[i] = i - 1
                      /\ Words(frames)[i] = IF frames[i] = Untraced THEN <<>> ELSE <<frames[i]>>
    BY DEF ChainStep
  <2>1. QED
    BY <1>1 DEF Before, Words
<1>5. Chain(n, Before(n), Words(frames))
      = CHOOSE f : f = [i \in 0..n |-> IF i = 0 THEN <<>>
                   ELSE f[i - 1] \o (IF frames[i] = Untraced THEN <<>> ELSE <<frames[i]>>)]
  BY <1>4, Zenon DEF Chain
<1>6. Entries(frames) = Chain(n, Before(n), Words(frames))[n]
  BY <1>5, Zenon DEF Entries
<1>7. QED
  BY <1>2, <1>3, <1>6

(* The frames of a task that makes a call: the entry of the new frame      *)
(* comes last. *)
LEMMA EntriesAppend ==
  ASSUME NEW frames \in Seq(0..MaxTasks), NEW e \in 0..MaxTasks
  PROVE  /\ Entries(frames) \in Seq(0..MaxTasks)
         /\ Entries(Append(frames, e)) =
              Entries(frames) \o (IF e = Untraced THEN <<>> ELSE <<e>>)
         /\ Entries(<<>>) = <<>>
<1>1. PICK n \in Nat : n = Len(frames)
  OBVIOUS
<1>2. PICK longer : longer = Append(frames, e)
  OBVIOUS
<1>3. /\ longer \in Seq(0..MaxTasks) /\ Len(longer) = n + 1
      /\ longer[n + 1] = e /\ \A i \in 1..n : longer[i] = frames[i]
  BY <1>1, <1>2, AppendProperties
<1>4. /\ Chained(n, Before(n)) /\ Chained(n + 1, Before(n + 1))
      /\ Entries(frames) = Chain(n, Before(n), Words(frames))[n]
      /\ Entries(longer) = Chain(n + 1, Before(n + 1), Words(longer))[n + 1]
      /\ \A i \in 1..n : Words(frames)[i] \in Seq(0..MaxTasks)
  <2>1. /\ Chained(n, Before(n))
        /\ Entries(frames) = Chain(n, Before(n), Words(frames))[n]
        /\ \A i \in 1..n : Words(frames)[i] \in Seq(0..MaxTasks)
    BY <1>1, EntriesChain
  <2>2. /\ Chained(n + 1, Before(n + 1))
        /\ Entries(longer) = Chain(n + 1, Before(n + 1), Words(longer))[n + 1]
    BY <1>3, EntriesChain
  <2>3. QED
    BY <2>1, <2>2
<1>5. Entries(frames) \in Seq(0..MaxTasks)
  BY <1>1, <1>4, ChainType
<1>6. /\ Chain(n + 1, Before(n + 1), Words(longer))[n] = Chain(n, Before(n), Words(frames))[n]
      /\ Chain(n + 1, Before(n + 1), Words(longer))[n + 1]
         = Chain(n + 1, Before(n + 1), Words(longer))[n] \o Words(longer)[n + 1]
  <2>1. PICK m \in Nat : m = n + 1
    OBVIOUS
  <2>2. PICK a, b, v, w : a = Before(n) /\ b = Before(m) /\ v = Words(frames) /\ w = Words(longer)
    OBVIOUS
  <2>3. Chained(n, a) /\ Chained(m, b)
    BY <1>4, <2>1, <2>2
  <2>4. /\ 0..n \subseteq 0..m /\ n \in 0..n /\ 0..n \subseteq 0..n
        /\ \A i \in 0..n : i # 0 => b[i] = a[i] /\ a[i] \in 0..n /\ w[i] = v[i]
    BY <1>1, <1>3, <2>1, <2>2 DEF Before, Words
  <2>5. \A i \in 0..n : Chain(m, b, w)[i] = Chain(n, a, v)[i]
    <3>1. SameOn(0..n, n, a, v, m, b, w)
      BY <1>1, <2>1, <2>3, <2>4 DEF SameOn
    <3>2. QED
      BY <3>1, ChainsAgree
  <2>6. m \in 1..m /\ b[m] = n
    BY <2>1, <2>2 DEF Before
  <2>7. Chain(m, b, w)[m] = Chain(m, b, w)[b[m]] \o w[m]
    <3>1. \A x \in 1..m : Chain(m, b, w)[x] = Chain(m, b, w)[b[x]] \o w[x]
      <4>1. Unrolls(Chain(m, b, w), m, b, w)
        BY <2>1, <2>3, ChainIs
      <4>2. QED
        BY <4>1, Zenon DEF Unrolls
    <3>2. QED
      BY <2>6, <3>1, Zenon
  <2>8. QED
    BY <2>1, <2>2, <2>4, <2>5, <2>6, <2>7
<1>7. Words(longer)[n + 1] = IF e = Untraced THEN <<>> ELSE <<e>>
  BY <1>3 DEF Words
<1>8. Entries(<<>>) = <<>>
  <2>1. PICK none : none = <<>>
    OBVIOUS
  <2>2. none \in Seq(0..MaxTasks) /\ Len(none) = 0
    BY <2>1
  <2>3. Entries(none) = Chain(0, Before(0), Words(none))[0] /\ Chained(0, Before(0))
    <3>1. PICK m : m = Len(none)
      OBVIOUS
    <3>2. Entries(none) = Chain(m, Before(m), Words(none))[m] /\ Chained(m, Before(m))
      BY <2>2, <3>1, EntriesChain
    <3>3. m = 0
      BY <2>2, <3>1
    <3>4. QED
      BY <3>2, <3>3
  <2>4. Chain(0, Before(0), Words(none))[0] = <<>>
    <3>1. Unrolls(Chain(0, Before(0), Words(none)), 0, Before(0), Words(none))
      BY <2>3, ChainIs
    <3>2. QED
      BY <3>1, Zenon DEF Unrolls
  <2>5. QED
    BY <2>1, <2>3, <2>4
<1>9. Entries(longer) = Entries(frames) \o (IF e = Untraced THEN <<>> ELSE <<e>>)
  BY <1>4, <1>6, <1>7, Zenon
<1>10. Entries(Append(frames, e)) = Entries(frames) \o (IF e = Untraced THEN <<>> ELSE <<e>>)
  BY <1>2, <1>9
<1>11. QED
  BY <1>5, <1>8, <1>10
-----------------------------------------------------------------------------
(* The rebuilt trace, as a chain from a task back to the root task. *)
OlderParents(par) == \A t \in TaskId : par[t] \in 0..MaxTasks /\ par[t] < t

FrameEntries(regs) == [u \in 1..MaxTasks |-> Entries(regs[u].frames)]

(* The traces of the tasks are a chain over their parents. *)
LEMMA RebuildChain ==
  ASSUME NEW regs, NEW par, NEW t
  PROVE  RebuildTrace(regs, par, t) = Chain(MaxTasks, par, FrameEntries(regs))[t]
<1>1. \A f : ChainStep(f, MaxTasks, par, FrameEntries(regs))
              = [u \in 0..MaxTasks |-> IF u = 0 THEN <<>>
                   ELSE f[par[u]] \o Entries(regs[u].frames)]
  <2> SUFFICES ASSUME NEW f, NEW u \in 0..MaxTasks, u # 0
               PROVE  FrameEntries(regs)[u] = Entries(regs[u].frames)
    BY DEF ChainStep
  <2>1. u \in 1..MaxTasks
    BY TasksAssumption
  <2>2. QED
    BY <2>1 DEF FrameEntries
<1>2. Chain(MaxTasks, par, FrameEntries(regs))
      = CHOOSE f : f = [u \in 0..MaxTasks |-> IF u = 0 THEN <<>>
                          ELSE f[par[u]] \o Entries(regs[u].frames)]
  BY <1>1, Zenon DEF Chain
<1>3. QED
  BY <1>2, Zenon DEF RebuildTrace

(* Parents that are older than their children form a chain. *)
LEMMA ParentsChained ==
  ASSUME NEW par, OlderParents(par)
  PROVE  Chained(MaxTasks, par) /\ MaxTasks \in Nat /\ 0 \in 0..MaxTasks
BY TasksAssumption DEF OlderParents, Chained, TaskId

(* Every task contributes a sequence of trace entries. *)
LEMMA FrameEntriesType ==
  ASSUME NEW regs \in [TaskId -> Registers]
  PROVE  \A u \in 1..MaxTasks : FrameEntries(regs)[u] \in Seq(0..MaxTasks)
<1> SUFFICES ASSUME NEW u \in 1..MaxTasks
             PROVE  Entries(regs[u].frames) \in Seq(0..MaxTasks)
  BY DEF FrameEntries
<1>1. regs[u].frames \in Seq(0..MaxTasks)
  BY DEF TaskId, Registers
<1>2. 0 \in 0..MaxTasks
  BY TasksAssumption
<1>3. QED
  BY <1>1, <1>2, EntriesAppend

(* The trace of a task is that of its parent and its own entries. *)
Rebuilds(regs, par) ==
  /\ RebuildTrace(regs, par, 0) = <<>>
  /\ \A t \in TaskId : RebuildTrace(regs, par, t)
                        = RebuildTrace(regs, par, par[t]) \o Entries(regs[t].frames)
  /\ \A t \in 0..MaxTasks : RebuildTrace(regs, par, t) \in Seq(0..MaxTasks)

(* A rebuilt trace extends that of the parent. *)
LEMMA RebuildIs ==
  ASSUME NEW regs \in [TaskId -> Registers], NEW par, OlderParents(par)
  PROVE  Rebuilds(regs, par)
<1>1. PICK e : e = FrameEntries(regs)
  OBVIOUS
<1>2. PICK c : c = Chain(MaxTasks, par, e)
  OBVIOUS
<1>3. \A t : RebuildTrace(regs, par, t) = c[t]
  BY <1>1, <1>2, RebuildChain
<1>4. Unrolls(Chain(MaxTasks, par, e), MaxTasks, par, e)
  BY ParentsChained, ChainIs
<1>5. \A t \in 0..MaxTasks : Chain(MaxTasks, par, e)[t] \in Seq(0..MaxTasks)
  <2>1. \A u \in 1..MaxTasks : e[u] \in Seq(0..MaxTasks)
    BY <1>1, FrameEntriesType
  <2>2. QED
    BY <2>1, ParentsChained, ChainType
<1>6. \A t \in TaskId : t \in 1..MaxTasks /\ e[t] = Entries(regs[t].frames)
  BY <1>1 DEF FrameEntries, TaskId
<1>7. c[0] = <<>> /\ \A u \in 1..MaxTasks : c[u] = c[par[u]] \o e[u]
  BY <1>2, <1>4, Zenon DEF Unrolls
<1>8. \A t \in TaskId : RebuildTrace(regs, par, t)
                        = RebuildTrace(regs, par, par[t]) \o Entries(regs[t].frames)
  BY <1>3, <1>6, <1>7, Zenon
<1>9. QED
  BY <1>2, <1>3, <1>5, <1>7, <1>8, Zenon DEF Rebuilds

(* What the frames and parents of the tasks S are, and of those they were  *)
(* started from, decides their traces. *)
SameFrames(S, regs, par, regs2, par2) ==
  /\ S \subseteq 0..MaxTasks
  /\ OlderParents(par) /\ OlderParents(par2)
  /\ \A u \in S : u # 0 => /\ par2[u] = par[u] /\ par[u] \in S
                           /\ regs2[u].frames = regs[u].frames

(* Equal frames and parents rebuild equal traces. *)
LEMMA RebuildSame ==
  ASSUME NEW S, NEW regs, NEW par, NEW regs2, NEW par2,
         SameFrames(S, regs, par, regs2, par2)
  PROVE  \A u \in S : RebuildTrace(regs2, par2, u) = RebuildTrace(regs, par, u)
<1>1. PICK v, w : v = FrameEntries(regs) /\ w = FrameEntries(regs2)
  OBVIOUS
<1>2. SameOn(S, MaxTasks, par, v, MaxTasks, par2, w)
  <2>1. \A u \in S : u # 0 => u \in 1..MaxTasks
    BY TasksAssumption DEF SameFrames
  <2>2. \A u \in S : u # 0 => w[u] = v[u]
    <3> SUFFICES ASSUME NEW u \in S, u # 0
                 PROVE  w[u] = v[u]
      OBVIOUS
    <3>1. u \in 1..MaxTasks /\ regs2[u].frames = regs[u].frames
      BY <2>1 DEF SameFrames
    <3>2. v[u] = Entries(regs[u].frames) /\ w[u] = Entries(regs2[u].frames)
      BY <1>1, <3>1 DEF FrameEntries
    <3>3. QED
      BY <3>1, <3>2, Zenon
  <2>3. Chained(MaxTasks, par) /\ Chained(MaxTasks, par2) /\ MaxTasks \in Nat
    BY ParentsChained DEF SameFrames
  <2>4. QED
    BY <2>2, <2>3 DEF SameFrames, SameOn
<1>3. \A u \in S : Chain(MaxTasks, par2, w)[u] = Chain(MaxTasks, par, v)[u]
  BY <1>2, ChainsAgree
<1>4. QED
  BY <1>1, <1>3, RebuildChain, Zenon
-----------------------------------------------------------------------------
(* The rebuilt trace of each live task fits the trace stack. *)
Fits(st, regs, par) ==
  \A t \in TaskId : st[t] # "none" => Len(RebuildTrace(regs, par, t)) <= TraceLimit

(* The trace stack belongs to the running task, and scheduling any task    *)
(* will not trap. *)
TraceInv ==
  /\ OlderParents(parent)
  /\ phase = "running" => /\ trace = RebuildTrace(Stopped(vm), parent, current)
                          /\ Fits(state, Stopped(vm), parent)
  /\ phase = "pending" => Fits(state, saved, parent)

(* The tasks a queue names can be scheduled. *)
Startable(q, st) == \A i \in DOMAIN q : q[i] \in TaskId /\ st[q[i]] = "runnable"

(* What a task does, by the state word of its object. *)
ModeOf(word) ==
  IF word = "none" THEN "none"
  ELSE IF word = "host" THEN "asking"
  ELSE IF word = "children" THEN "joining" ELSE "ready"

(* The execution goes on, and its tasks are in the states st with the      *)
(* calls and responses of the registers regs, whichever of them runs. *)
Shows(st, regs) ==
  /\ phase' \in {"running", "pending"}
  /\ \A t \in TaskId : /\ ModeOf(state'[t]) = ModeOf(st[t])
                       /\ Register(t)'.hostCall = regs[t].hostCall
                       /\ Register(t)'.ready = regs[t].ready

(* The trace stack and the registers after a switch of tasks. *)
LEMMA ScheduleTrace ==
  ASSUME NEW q \in Seq(TaskId), NEW st \in [TaskId -> TaskStates],
         NEW regs \in [TaskId -> Registers], NEW par,
         OlderParents(par), parent' = par,
         Schedule(q, st, regs, par), Startable(q, st), Fits(st, regs, par)
  PROVE  /\ TraceInv'
         /\ Shows(st, regs)
<1>1. CASE q = <<>>
  <2>1. phase' = "pending" /\ saved' = regs /\ state' = st /\ current' = 0
    BY <1>1 DEF Schedule
  <2>2. Fits(state', saved', parent')
    BY <2>1
  <2>3. TraceInv'
    BY <2>1, <2>2 DEF TraceInv
  <2>4. 0 \notin TaskId
    BY DEF TaskId
  <2>5. \A t \in TaskId : Register(t)' = regs[t]
    BY <2>1, <2>4 DEF Register
  <2>6. QED
    BY <2>1, <2>3, <2>5 DEF Shows
<1>2. CASE q # <<>>
  <2>1. PICK h : h = Head(q)
    OBVIOUS
  <2>2. h \in TaskId /\ st[h] = "runnable"
    BY <1>2, <2>1 DEF Startable
  <2>3. /\ phase' = IF Len(RebuildTrace(regs, par, h)) > TraceLimit THEN "trapped" ELSE "running"
        /\ trace' = RebuildTrace(regs, par, h) /\ current' = h /\ vm' = regs[h]
        /\ state' = [st EXCEPT ![h] = "running"] /\ saved' = regs
    BY <1>2, <2>1, Zenon DEF Schedule
  <2>4. Len(RebuildTrace(regs, par, h)) <= TraceLimit
    BY <2>2 DEF Fits
  <2>5. 0 \in 0..MaxTasks /\ h \in 0..MaxTasks /\ TraceLimit \in Nat
    BY <2>2, TasksAssumption DEF TaskId
  <2>6. Len(RebuildTrace(regs, par, h)) \in Nat
    <3>1. Rebuilds(regs, par)
      BY RebuildIs
    <3>2. RebuildTrace(regs, par, h) \in Seq(0..MaxTasks)
      BY <2>5, <3>1, Zenon DEF Rebuilds
    <3>3. QED
      BY <3>2, LenProperties
  <2>7. phase' = "running"
    BY <2>3, <2>4, <2>5, <2>6
  <2>8. Stopped(vm)' = regs
    <3>1. Stopped(vm)' = [regs EXCEPT ![h] = regs[h]]
      BY <2>3 DEF Stopped
    <3>2. QED
      BY <3>1, <2>2
  <2>9. \A t \in TaskId : state'[t] = IF t = h THEN "running" ELSE st[t]
    BY <2>2, <2>3
  <2>10. Fits(state', regs, par)
    BY <2>2, <2>9 DEF Fits
  <2>11. TraceInv'
    <3>1. trace' = RebuildTrace(Stopped(vm)', parent', current')
      BY <2>3, <2>8, Zenon
    <3>2. Fits(state', Stopped(vm)', parent')
      BY <2>8, <2>10, Zenon
    <3>3. QED
      BY <2>7, <3>1, <3>2 DEF TraceInv
  <2>12. \A t \in TaskId : Register(t)' = regs[t]
    BY <2>3 DEF Register
  <2>13. \A t \in TaskId : ModeOf(state'[t]) = ModeOf(st[t])
    BY <2>2, <2>9 DEF ModeOf
  <2>14. QED
    BY <2>3, <2>7, <2>11, <2>12, <2>13 DEF Shows
<1>3. QED
  BY <1>1, <1>2

(* What the invariant says of the traces while a task runs. *)
LEMMA RunningTrace ==
  ASSUME IInv, TraceInv, phase = "running"
  PROVE  /\ current \in TaskId /\ current \in Live
         /\ vm \in Registers /\ vm.frames \in Seq(0..MaxTasks)
         /\ saved \in [TaskId -> Registers] /\ Stopped(vm) \in [TaskId -> Registers]
         /\ state \in [TaskId -> TaskStates]
         /\ queue \in Seq(TaskId) /\ Startable(queue, [state EXCEPT ![current] = "runnable"])
         /\ \A i \in DOMAIN queue : queue[i] # current /\ state[queue[i]] = "runnable"
         /\ OlderParents(parent)
         /\ trace = RebuildTrace(Stopped(vm), parent, current)
         /\ Fits(state, Stopped(vm), parent)
         /\ trace \in Seq(0..MaxTasks)
<1>1. /\ current \in TaskId /\ current \in Live /\ vm \in Registers
  BY RunningFacts
<1>2. /\ saved \in [TaskId -> Registers] /\ queue \in Seq(TaskId)
      /\ state \in [TaskId -> TaskStates]
  BY DEF IInv, TypeOK
<1>3. vm.frames \in Seq(0..MaxTasks)
  BY <1>1 DEF Registers
<1>4. Stopped(vm) \in [TaskId -> Registers]
  BY <1>1, <1>2 DEF Stopped
<1>5. \A i \in DOMAIN queue : queue[i] \in TaskId /\ queue[i] # current
                             /\ state[queue[i]] = "runnable"
  <2>1. \A i \in DOMAIN queue : queue[i] \in TaskId
    BY <1>2
  <2>2. QED
    BY <2>1 DEF IInv, QueueInv
<1>6. Startable(queue, [state EXCEPT ![current] = "runnable"])
  BY <1>1, <1>2, <1>5 DEF Startable
<1>7. /\ OlderParents(parent) /\ trace = RebuildTrace(Stopped(vm), parent, current)
      /\ Fits(state, Stopped(vm), parent)
  BY DEF TraceInv
<1>8. trace \in Seq(0..MaxTasks)
  <2>1. current \in 0..MaxTasks
    BY <1>1 DEF TaskId
  <2>2. Rebuilds(Stopped(vm), parent)
    BY <1>4, <1>7, RebuildIs
  <2>3. RebuildTrace(Stopped(vm), parent, current) \in Seq(0..MaxTasks)
    BY <2>1, <2>2, Zenon DEF Rebuilds
  <2>4. QED
    BY <1>7, <2>3
<1>9. QED
  BY <1>1, <1>2, <1>3, <1>4, <1>5, <1>6, <1>7, <1>8

(* The running task is a leaf of the tree of live tasks: what it does to   *)
(* its frames changes no other trace. *)
LEMMA OtherTraces ==
  ASSUME IInv, TraceInv, phase = "running",
         NEW regs \in [TaskId -> Registers], NEW par, OlderParents(par),
         \A t \in TaskId : state[t] # "none" => par[t] = parent[t],
         \A t \in TaskId : state[t] # "none" /\ t # current =>
           regs[t].frames = saved[t].frames
  PROVE  /\ \A t \in TaskId : state[t] # "none" /\ t # current =>
              RebuildTrace(regs, par, t) = RebuildTrace(Stopped(vm), parent, t)
         /\ RebuildTrace(regs, par, parent[current])
              = RebuildTrace(Stopped(vm), parent, parent[current])
<1> DEFINE S == {t \in TaskId : state[t] # "none" /\ t # current} \cup {0}
<1>1. /\ current \in TaskId /\ state[current] \in {"running", "runnable"}
      /\ state[current] # "none" /\ saved \in [TaskId -> Registers]
  BY RunningFacts DEF IInv, TypeOK
<1>2. \A t \in TaskId : t # current => Stopped(vm)[t] = saved[t]
  BY <1>1 DEF Stopped
<1>3. \A t \in TaskId : state[t] # "none" => parent[t] \in S
  <2> SUFFICES ASSUME NEW t \in TaskId, state[t] # "none", parent[t] # 0
               PROVE  parent[t] \in S
    OBVIOUS
  <2>1. state[parent[t]] = "children"
    BY DEF IInv, TreeInv
  <2>2. parent[t] \in TaskId
    BY ParentType DEF IInv
  <2>3. QED
    BY <1>1, <2>1, <2>2
<1>4. SameFrames(S, Stopped(vm), parent, regs, par)
  <2>1. S \subseteq 0..MaxTasks
    BY TasksAssumption DEF TaskId
  <2>2. OlderParents(parent)
    BY DEF TraceInv
  <2>3. \A u \in S : u # 0 => u \in TaskId /\ state[u] # "none" /\ u # current
    OBVIOUS
  <2>4. \A u \in S : u # 0 => par[u] = parent[u] /\ parent[u] \in S
    BY <1>3, <2>3
  <2>5. \A u \in S : u # 0 => regs[u].frames = Stopped(vm)[u].frames
    BY <1>2, <2>3
  <2>6. QED
    BY <2>1, <2>2, <2>4, <2>5 DEF SameFrames
<1>5. \A u \in S : RebuildTrace(regs, par, u) = RebuildTrace(Stopped(vm), parent, u)
  BY <1>4, RebuildSame
<1>6. parent[current] \in S
  BY <1>1, <1>3
<1>7. QED
  BY <1>5, <1>6

(* The trace of the running task once its registers are v, and of the      *)
(* others. *)
LEMMA FramesChange ==
  ASSUME IInv, TraceInv, phase = "running", NEW v \in Registers
  PROVE  /\ Stopped(v) \in [TaskId -> Registers]
         /\ RebuildTrace(Stopped(v), parent, current)
              = RebuildTrace(Stopped(vm), parent, parent[current]) \o Entries(v.frames)
         /\ RebuildTrace(Stopped(vm), parent, parent[current]) \in Seq(0..MaxTasks)
         /\ Len(RebuildTrace(Stopped(v), parent, current)) <= TraceLimit
              => Fits(state, Stopped(v), parent)
<1>1. /\ current \in TaskId /\ saved \in [TaskId -> Registers]
      /\ OlderParents(parent) /\ Fits(state, Stopped(vm), parent)
      /\ Stopped(vm) \in [TaskId -> Registers]
  BY RunningTrace
<1>2. /\ Stopped(v) \in [TaskId -> Registers] /\ Stopped(v)[current] = v
      /\ \A t \in TaskId : t # current => Stopped(v)[t] = saved[t]
  BY <1>1 DEF Stopped
<1>3. PICK regs \in [TaskId -> Registers] : regs = Stopped(v)
  BY <1>2
<1>4. /\ \A t \in TaskId : state[t] # "none" /\ t # current =>
           RebuildTrace(regs, parent, t) = RebuildTrace(Stopped(vm), parent, t)
      /\ RebuildTrace(regs, parent, parent[current])
           = RebuildTrace(Stopped(vm), parent, parent[current])
  <2>1. \A t \in TaskId : state[t] # "none" /\ t # current =>
          regs[t].frames = saved[t].frames
    BY <1>2, <1>3
  <2>2. QED
    BY <1>1, <2>1, OtherTraces
<1>5. RebuildTrace(regs, parent, current)
      = RebuildTrace(regs, parent, parent[current]) \o Entries(regs[current].frames)
  <2>1. Rebuilds(regs, parent)
    BY <1>1, RebuildIs
  <2>2. QED
    BY <1>1, <2>1, Zenon DEF Rebuilds
<1>6. RebuildTrace(Stopped(vm), parent, parent[current]) \in Seq(0..MaxTasks)
  <2>1. Rebuilds(Stopped(vm), parent)
    BY <1>1, RebuildIs
  <2>2. parent[current] \in 0..MaxTasks
    BY <1>1 DEF OlderParents
  <2>3. QED
    BY <2>1, <2>2, Zenon DEF Rebuilds
<1>7. ASSUME Len(RebuildTrace(regs, parent, current)) <= TraceLimit
      PROVE  Fits(state, regs, parent)
  <2> SUFFICES ASSUME NEW t \in TaskId, state[t] # "none"
               PROVE  Len(RebuildTrace(regs, parent, t)) <= TraceLimit
    BY DEF Fits
  <2>1. CASE t = current
    BY <1>7, <2>1
  <2>2. CASE t # current
    <3>1. Len(RebuildTrace(Stopped(vm), parent, t)) <= TraceLimit
      BY <1>1 DEF Fits
    <3>2. RebuildTrace(regs, parent, t) = RebuildTrace(Stopped(vm), parent, t)
      BY <1>4, <2>2
    <3>3. QED
      BY <3>1, <3>2
  <2>3. QED
    BY <2>1, <2>2
<1>8. regs[current] = v
  BY <1>2, <1>3
<1>9. RebuildTrace(regs, parent, current)
      = RebuildTrace(Stopped(vm), parent, parent[current]) \o Entries(v.frames)
  BY <1>4, <1>5, <1>8, Zenon
<1>10. QED
  BY <1>2, <1>3, <1>6, <1>7, <1>9, Zenon

(* Registers with the same frames leave every trace as it is. *)
LEMMA FramesStay ==
  ASSUME IInv, TraceInv, phase = "running", NEW v \in Registers, v.frames = vm.frames
  PROVE  /\ Stopped(v) \in [TaskId -> Registers]
         /\ trace = RebuildTrace(Stopped(v), parent, current)
         /\ Fits(state, Stopped(v), parent)
<1>1. /\ vm \in Registers /\ trace = RebuildTrace(Stopped(vm), parent, current)
      /\ Fits(state, Stopped(vm), parent) /\ current \in Live /\ current \in TaskId
  BY RunningTrace
<1>2. RebuildTrace(Stopped(v), parent, current) = RebuildTrace(Stopped(vm), parent, current)
  <2>1. RebuildTrace(Stopped(v), parent, current)
        = RebuildTrace(Stopped(vm), parent, parent[current]) \o Entries(v.frames)
    BY FramesChange
  <2>2. RebuildTrace(Stopped(vm), parent, current)
        = RebuildTrace(Stopped(vm), parent, parent[current]) \o Entries(vm.frames)
    BY <1>1, FramesChange
  <2>3. QED
    BY <2>1, <2>2, Zenon
<1>3. Len(RebuildTrace(Stopped(vm), parent, current)) <= TraceLimit
  BY <1>1 DEF Fits, Live
<1>4. Len(RebuildTrace(Stopped(v), parent, current)) <= TraceLimit
  BY <1>2, <1>3
<1>5. QED
  BY <1>1, <1>2, <1>4, FramesChange
-----------------------------------------------------------------------------
(* One lemma for each step of a running execution: the traces stay right,  *)
(* the step does not trap, and what it shows of the tasks. *)
LEMMA LocalTrace ==
  ASSUME IInv, TraceInv, phase = "running", phase' = "running", NEW v \in Registers, vm' = v,
         UNCHANGED <<current, state, saved, parent>>,
         trace' = RebuildTrace(Stopped(v), parent, current),
         Fits(state, Stopped(v), parent)
  PROVE  TraceInv' /\ Shows(state, Stopped(v))
<1>1. Stopped(vm)' = Stopped(v)
  BY DEF Stopped
<1>2. TraceInv'
  BY <1>1 DEF TraceInv
<1>3. current \in TaskId /\ saved \in [TaskId -> Registers]
  BY RunningTrace
<1>4. \A t \in TaskId : Register(t)' = Stopped(v)[t]
  BY <1>3 DEF Register, Stopped
<1>5. QED
  BY <1>2, <1>4 DEF Shows

(* A checkpoint, with or without a switch of tasks. *)
LEMMA PassCheckpointTrace ==
  ASSUME IInv, TraceInv, phase = "running", parent' = parent,
         NEW v \in Registers, NEW top, NEW left \in 0..TaskQuantum,
         top = RebuildTrace(Stopped(v), parent, current), Len(top) <= TraceLimit,
         PassCheckpoint(v, top, left)
  PROVE  TraceInv' /\ Shows(state, Stopped(v))
<1>1. /\ current \in TaskId /\ current \in Live /\ saved \in [TaskId -> Registers]
      /\ state \in [TaskId -> TaskStates] /\ queue \in Seq(TaskId)
      /\ \A i \in DOMAIN queue : queue[i] # current /\ state[queue[i]] = "runnable"
      /\ OlderParents(parent) /\ state[current] \in {"running", "runnable"}
  BY RunningTrace, RunningFacts
<1>2. PICK n \in 0..TaskQuantum : n = IF left = 0 THEN TaskQuantum ELSE left
  BY TasksAssumption
<1>3. PICK w \in Registers : w = [v EXCEPT !.quantum = n]
  BY RegisterUpdates
<1>4. w.frames = v.frames /\ w.hostCall = v.hostCall /\ w.ready = v.ready
  BY <1>3 DEF Registers
<1>5. /\ Stopped(w) \in [TaskId -> Registers]
      /\ top = RebuildTrace(Stopped(w), parent, current)
      /\ Fits(state, Stopped(w), parent)
  <2>1. RebuildTrace(Stopped(w), parent, current) = RebuildTrace(Stopped(v), parent, current)
    <3>1. RebuildTrace(Stopped(w), parent, current)
          = RebuildTrace(Stopped(vm), parent, parent[current]) \o Entries(w.frames)
      BY FramesChange
    <3>2. RebuildTrace(Stopped(v), parent, current)
          = RebuildTrace(Stopped(vm), parent, parent[current]) \o Entries(v.frames)
      BY FramesChange
    <3>3. QED
      BY <1>4, <3>1, <3>2, Zenon
  <2>2. Len(RebuildTrace(Stopped(w), parent, current)) <= TraceLimit
    BY <2>1
  <2>3. QED
    BY <2>1, <2>2, FramesChange
<1>6. \A t \in TaskId : /\ Stopped(w)[t].hostCall = Stopped(v)[t].hostCall
                        /\ Stopped(w)[t].ready = Stopped(v)[t].ready
  BY <1>1, <1>4 DEF Stopped
<1>7. CASE /\ vm' = [v EXCEPT !.quantum = IF left = 0 THEN TaskQuantum ELSE left]
           /\ trace' = top
           /\ UNCHANGED <<phase, current, state, saved, queue>>
  <2>1. vm' = w
    BY <1>2, <1>3, <1>7
  <2>2. TraceInv' /\ Shows(state, Stopped(w))
    BY <1>5, <1>7, <2>1, LocalTrace
  <2>3. QED
    BY <1>6, <2>2 DEF Shows
<1>8. CASE /\ left = 0
           /\ Schedule(Enqueue(queue, current), [state EXCEPT ![current] = "runnable"],
                       Stopped([v EXCEPT !.quantum = TaskQuantum]), parent)
  <2>1. PICK q : q = Append(queue, current)
    OBVIOUS
  <2>2. q \in Seq(TaskId) /\ \A i \in DOMAIN q : (i \in DOMAIN queue /\ q[i] = queue[i])
                                              \/ q[i] = current
    BY <1>1, <2>1
  <2>3. PICK st \in [TaskId -> TaskStates] : st = [state EXCEPT ![current] = "runnable"]
    BY <1>1 DEF TaskStates
  <2>4. \A t \in TaskId : st[t] = IF t = current THEN "runnable" ELSE state[t]
    BY <1>1, <2>3
  <2>5. Startable(q, st)
    BY <1>1, <2>2, <2>4 DEF Startable
  <2>6. Fits(st, Stopped(w), parent)
    BY <1>1, <1>5, <2>4 DEF Fits, Live
  <2>7. Schedule(q, st, Stopped(w), parent)
    <3>1. w = [v EXCEPT !.quantum = TaskQuantum]
      BY <1>2, <1>3, <1>8
    <3>2. QED
      BY <1>8, <2>1, <2>3, <3>1, Zenon DEF Enqueue
  <2>8. TraceInv' /\ Shows(st, Stopped(w))
    BY <1>1, <1>5, <2>2, <2>5, <2>6, <2>7, ScheduleTrace
  <2>9. \A t \in TaskId : ModeOf(st[t]) = ModeOf(state[t])
    BY <1>1, <2>4 DEF ModeOf
  <2>10. QED
    BY <1>6, <2>8, <2>9 DEF Shows
<1>9. QED
  BY <1>7, <1>8, Zenon DEF PassCheckpoint

(* A sequence is what remains of it and its last element. *)
LEMMA PopAppend ==
  ASSUME NEW S, NEW s \in Seq(S), NEW e \in S
  PROVE  Pop(Append(s, e)) = s /\ Top(Append(s, e)) = e
<1>1. PICK l \in Seq(S) : l = Append(s, e)
  BY AppendProperties
<1>2. PICK n \in Nat : n = Len(s)
  OBVIOUS
<1>3. Len(l) = n + 1 /\ l[n + 1] = e /\ \A i \in 1..n : l[i] = s[i]
  BY <1>1, <1>2, AppendProperties
<1>4. PICK r : r = SubSeq(l, 1, n)
  OBVIOUS
<1>5. r \in Seq(S) /\ Len(r) = n /\ \A i \in 1..n : r[i] = s[i]
  <2>1. n \in Int /\ 1 \in Int /\ \A i \in 1..n : l[i] \in S
    BY <1>2, <1>3, ElementOfSeq
  <2>2. /\ r \in Seq(S)
        /\ Len(r) = IF 1 <= n THEN n - 1 + 1 ELSE 0
        /\ \A i \in 1..(n - 1 + 1) : r[i] = l[1 + i - 1]
    BY <1>4, <2>1, SubSeqProperties
  <2>3. Len(r) = n /\ n - 1 + 1 = n
    BY <1>2, <2>2
  <2>4. \A i \in 1..n : r[i] = l[i]
    BY <2>2, <2>3
  <2>5. QED
    BY <1>3, <2>2, <2>3, <2>4
<1>6. r = s
  BY <1>2, <1>5, SeqEqual
<1>7. Len(l) - 1 = n
  BY <1>2, <1>3
<1>8. Pop(l) = s
  BY <1>4, <1>6, <1>7, Zenon DEF Pop
<1>9. Top(l) = e
  BY <1>3, Zenon DEF Top
<1>10. QED
  BY <1>1, <1>8, <1>9

(* A back edge keeps every frame. *)
LEMMA LoopCheckpointTrace ==
  ASSUME IInv, TraceInv, LoopCheckpoint
  PROVE  TraceInv' /\ Shows(state, Stopped(vm))
<1>1. /\ phase = "running" /\ parent' = parent
      /\ PassCheckpoint(vm, trace, vm.quantum - 1)
  BY DEF LoopCheckpoint, Running
<1>2. vm \in Registers /\ vm.quantum - 1 \in 0..TaskQuantum
  BY <1>1, RunningFacts, TasksAssumption
<1>3. /\ trace = RebuildTrace(Stopped(vm), parent, current) /\ Len(trace) <= TraceLimit
  BY <1>1, RunningTrace DEF Fits, Live
<1>4. QED
  BY <1>1, <1>2, <1>3, PassCheckpointTrace

(* A call pushes one entry. *)
LEMMA CallTrace ==
  ASSUME IInv, TraceInv, Call
  PROVE  TraceInv' /\ Shows(state, Stopped([vm EXCEPT !.frames = Append(@, current)]))
<1>1. PICK left : left = IF vm.quantum = 0 THEN 0 ELSE vm.quantum - 1
  OBVIOUS
<1>2. /\ phase = "running" /\ parent' = parent /\ Len(trace) < TraceLimit
      /\ PassCheckpoint([vm EXCEPT !.frames = Append(@, current)], Append(trace, current), left)
  BY <1>1 DEF Call, Running, TraceRoom
<1>3. /\ vm \in Registers /\ vm.frames \in Seq(0..MaxTasks) /\ trace \in Seq(0..MaxTasks)
      /\ current \in TaskId /\ current \in 0..MaxTasks /\ current # Untraced
      /\ trace = RebuildTrace(Stopped(vm), parent, current)
  BY <1>2, RunningTrace, TasksAssumption DEF TaskId, Untraced
<1>4. left \in 0..TaskQuantum
  BY <1>1, <1>2, RunningFacts, TasksAssumption
<1>5. PICK v \in Registers : v = [vm EXCEPT !.frames = Append(@, current)]
  BY <1>3, RegisterUpdates
<1>6. v.frames = Append(vm.frames, current)
  BY <1>3, <1>5 DEF Registers
<1>7. Append(trace, current) = RebuildTrace(Stopped(v), parent, current)
  <2>1. PICK base : base = RebuildTrace(Stopped(vm), parent, parent[current])
    OBVIOUS
  <2>2. PICK es : es = Entries(vm.frames)
    OBVIOUS
  <2>3. base \in Seq(0..MaxTasks) /\ trace = base \o es
    BY <1>2, <1>3, <2>1, <2>2, FramesChange, Zenon
  <2>4. es \in Seq(0..MaxTasks)
    BY <1>3, <2>2, EntriesAppend
  <2>5. Entries(v.frames) = es \o <<current>>
    BY <1>3, <1>6, <2>2, EntriesAppend
  <2>6. RebuildTrace(Stopped(v), parent, current) = base \o (es \o <<current>>)
    <3>1. RebuildTrace(Stopped(v), parent, current) = base \o Entries(v.frames)
      BY <1>2, <2>1, FramesChange
    <3>2. QED
      BY <2>5, <3>1, Zenon
  <2>7. Append(trace, current) = (base \o es) \o <<current>>
    <3>1. Append(trace, current) = trace \o <<current>>
      BY <1>3, AppendIsConcat
    <3>2. QED
      BY <2>3, <3>1, Zenon
  <2>8. (base \o es) \o <<current>> = base \o (es \o <<current>>)
    <3>1. <<current>> \in Seq(0..MaxTasks)
      BY <1>3
    <3>2. QED
      BY <2>3, <2>4, <3>1, ConcatAssociative
  <2>9. QED
    BY <2>6, <2>7, <2>8, Zenon
<1>8. Len(Append(trace, current)) <= TraceLimit
  <2>1. Len(Append(trace, current)) = Len(trace) + 1 /\ Len(trace) \in Nat
    BY <1>3, AppendProperties, LenProperties
  <2>2. QED
    BY <1>2, <2>1, TasksAssumption
<1>9. PassCheckpoint(v, Append(trace, current), left)
  BY <1>2, <1>5
<1>10. TraceInv' /\ Shows(state, Stopped(v))
  BY <1>2, <1>4, <1>7, <1>8, <1>9, PassCheckpointTrace
<1>11. QED
  BY <1>5, <1>10

(* A return pops the entry of the frame that returns, if it has one. *)
LEMMA ReturnTrace ==
  ASSUME IInv, TraceInv, Return
  PROVE  TraceInv' /\ Shows(state, Stopped([vm EXCEPT !.frames = Pop(@)]))
<1>1. /\ phase = "running" /\ phase' = "running" /\ Len(vm.frames) > 1
      /\ vm' = [vm EXCEPT !.frames = Pop(@)]
      /\ trace' = IF Top(vm.frames) # Untraced THEN Pop(trace) ELSE trace
      /\ UNCHANGED <<current, state, saved, parent>>
  BY DEF Return, Running, TraceAfterReturn
<1>2. /\ vm \in Registers /\ vm.frames \in Seq(0..MaxTasks)
      /\ trace = RebuildTrace(Stopped(vm), parent, current)
      /\ current \in TaskId /\ state[current] # "none" /\ Fits(state, Stopped(vm), parent)
  BY <1>1, RunningTrace DEF Live
<1>3. PICK f \in Seq(0..MaxTasks), e \in 0..MaxTasks : vm.frames = Append(f, e)
  <2>1. vm.frames # <<>>
    BY <1>1
  <2>2. QED
    BY <1>2, <2>1, SequenceEmptyOrAppend
<1>4. Pop(vm.frames) = f /\ Top(vm.frames) = e
  BY <1>3, PopAppend
<1>5. PICK v \in Registers : v = [vm EXCEPT !.frames = Pop(@)]
  BY <1>1, <1>2, RegisterUpdates
<1>6. v.frames = f
  BY <1>2, <1>4, <1>5 DEF Registers
<1>7. PICK base \in Seq(0..MaxTasks) : base = RebuildTrace(Stopped(vm), parent, parent[current])
  BY <1>1, <1>2, FramesChange
<1>8. PICK es \in Seq(0..MaxTasks) : es = Entries(f)
  BY EntriesAppend
<1>9. Entries(vm.frames) = es \o (IF e = Untraced THEN <<>> ELSE <<e>>)
  <2>1. Entries(Append(f, e)) = Entries(f) \o (IF e = Untraced THEN <<>> ELSE <<e>>)
    BY EntriesAppend
  <2>2. QED
    BY <1>3, <1>8, <2>1, Zenon
<1>10. trace = base \o Entries(vm.frames)
  BY <1>1, <1>2, <1>7, FramesChange, Zenon
<1>11. RebuildTrace(Stopped(v), parent, current) = base \o es
  <2>1. RebuildTrace(Stopped(v), parent, current) = base \o Entries(v.frames)
    BY <1>1, <1>7, FramesChange
  <2>2. QED
    BY <1>6, <1>8, <2>1, Zenon
<1>12. PICK less \in Seq(0..MaxTasks) : less = base \o es
  BY ConcatProperties
<1>13. CASE e = Untraced
  <2>1. Entries(vm.frames) = es \o <<>>
    BY <1>9, <1>13
  <2>2. es \o <<>> = es
    BY ConcatEmptySeq
  <2>3. trace = less
    BY <1>10, <1>12, <2>1, <2>2, Zenon
  <2>4. trace' = less
    BY <1>1, <1>4, <1>13, <2>3
  <2>5. QED
    <3>1. trace' = RebuildTrace(Stopped(v), parent, current)
      BY <1>11, <1>12, <2>4, Zenon
    <3>2. Len(RebuildTrace(Stopped(v), parent, current)) <= TraceLimit
      <4>1. Len(trace) <= TraceLimit
        BY <1>2 DEF Fits
      <4>2. QED
        BY <1>11, <1>12, <2>3, <4>1, Zenon
    <3>3. Fits(state, Stopped(v), parent)
      BY <1>1, <3>2, FramesChange
    <3>4. TraceInv' /\ Shows(state, Stopped(v))
      BY <1>1, <1>5, <3>1, <3>3, LocalTrace
    <3>5. QED
      BY <1>5, <3>4
<1>14. CASE e # Untraced
  <2>1. Entries(vm.frames) = es \o <<e>>
    BY <1>9, <1>14
  <2>2. trace = Append(less, e)
    <3>1. <<e>> \in Seq(0..MaxTasks)
      OBVIOUS
    <3>2. (base \o es) \o <<e>> = base \o (es \o <<e>>)
      BY <3>1, ConcatAssociative, SMTT(15)
    <3>3. Append(less, e) = less \o <<e>>
      BY AppendIsConcat
    <3>4. QED
      BY <1>10, <1>12, <2>1, <3>2, <3>3, Zenon
  <2>3. trace' = less
    <3>1. Pop(Append(less, e)) = less
      BY PopAppend
    <3>2. trace' = Pop(trace)
      BY <1>1, <1>4, <1>14
    <3>3. QED
      BY <2>2, <3>1, <3>2
  <2>4. trace' = RebuildTrace(Stopped(v), parent, current)
    BY <1>11, <1>12, <2>3, Zenon
  <2>5. Len(RebuildTrace(Stopped(v), parent, current)) <= TraceLimit
    <3>1. Len(trace) <= TraceLimit
      BY <1>2 DEF Fits
    <3>2. Len(trace) = Len(less) + 1 /\ Len(less) \in Nat
      BY <2>2, AppendProperties, LenProperties
    <3>3. Len(less) <= TraceLimit
      BY <3>1, <3>2, TasksAssumption
    <3>4. QED
      BY <1>11, <1>12, <3>3, Zenon
  <2>6. Fits(state, Stopped(v), parent)
    BY <1>1, <2>5, FramesChange
  <2>7. TraceInv' /\ Shows(state, Stopped(v))
    BY <1>1, <1>5, <2>4, <2>6, LocalTrace
  <2>8. QED
    BY <1>5, <2>7
<1>15. QED
  BY <1>13, <1>14

(* Steps that keep the frames and schedule nothing. *)
LEMMA HostCallReadyTrace ==
  ASSUME IInv, TraceInv, HostCallReady
  PROVE  TraceInv' /\ Shows(state, Stopped([vm EXCEPT !.ready = 0, !.hostCall = 0]))
<1>1. /\ phase = "running" /\ phase' = "running" /\ trace' = trace
      /\ vm' = [vm EXCEPT !.ready = 0, !.hostCall = 0]
      /\ UNCHANGED <<current, state, saved, parent>>
  BY DEF HostCallReady, Running
<1>2. PICK v \in Registers : v = [vm EXCEPT !.ready = 0, !.hostCall = 0]
  BY <1>1, RunningFacts, RegisterUpdates
<1>3. v.frames = vm.frames
  BY <1>1, <1>2, RunningFacts DEF Registers
<1>4. trace' = RebuildTrace(Stopped(v), parent, current) /\ Fits(state, Stopped(v), parent)
  BY <1>1, <1>3, FramesStay
<1>5. TraceInv' /\ Shows(state, Stopped(v))
  BY <1>1, <1>2, <1>4, LocalTrace
<1>6. QED
  BY <1>2, <1>5

(* A response that is taken changes no frame. *)
LEMMA HostCallTakeTrace ==
  ASSUME IInv, TraceInv, HostCallTake
  PROVE  TraceInv' /\ Shows(state, Stopped([vm EXCEPT !.ready = 0, !.hostCall = 0]))
<1>1. /\ phase = "running" /\ resume[current] = "take" /\ trace' = trace
      /\ phase' = IF vm.ready = 0 THEN "trapped" ELSE phase
      /\ vm' = [vm EXCEPT !.ready = 0, !.hostCall = 0]
      /\ UNCHANGED <<current, state, saved, parent>>
  BY DEF HostCallTake, Running
<1>2. phase' = "running"
  BY <1>1 DEF IInv, TakesOwnResponse
<1>3. PICK v \in Registers : v = [vm EXCEPT !.ready = 0, !.hostCall = 0]
  BY <1>1, RunningFacts, RegisterUpdates
<1>4. v.frames = vm.frames
  BY <1>1, <1>3, RunningFacts DEF Registers
<1>5. trace' = RebuildTrace(Stopped(v), parent, current) /\ Fits(state, Stopped(v), parent)
  BY <1>1, <1>4, FramesStay
<1>6. TraceInv' /\ Shows(state, Stopped(v))
  BY <1>1, <1>2, <1>3, <1>5, LocalTrace
<1>7. QED
  BY <1>3, <1>6

(* A `par` that starts or releases no task changes no frame. *)
LEMMA ParallelLocalTrace ==
  ASSUME IInv, TraceInv, ParallelEmpty \/ ParallelTake
  PROVE  TraceInv' /\ Shows(state, Stopped(vm))
<1>1. /\ phase = "running" /\ phase' = "running" /\ trace' = trace /\ vm' = vm
      /\ UNCHANGED <<current, state, saved, parent>>
  BY DEF ParallelEmpty, ParallelTake, Running
<1>2. vm \in Registers
  BY <1>1, RunningFacts
<1>3. trace' = RebuildTrace(Stopped(vm), parent, current) /\ Fits(state, Stopped(vm), parent)
  BY <1>1, RunningTrace
<1>4. QED
  BY <1>1, <1>2, <1>3, LocalTrace

(* The task that waits for the runner keeps its frames. *)
LEMMA HostCallPendingTrace ==
  ASSUME IInv, TraceInv, HostCallPending
  PROVE  TraceInv' /\ Shows([state EXCEPT ![current] = "host"],
                            Stopped([vm EXCEPT !.hostCall = nextCall]))
<1>1. /\ phase = "running" /\ parent' = parent /\ nextCall <= MaxCalls
      /\ Schedule(queue, [state EXCEPT ![current] = "host"],
                  Stopped([vm EXCEPT !.hostCall = nextCall]), parent)
  BY DEF HostCallPending, Running, Suspended
<1>2. /\ vm \in Registers /\ current \in TaskId /\ state \in [TaskId -> TaskStates]
      /\ queue \in Seq(TaskId) /\ OlderParents(parent) /\ current \in Live
      /\ \A i \in DOMAIN queue : queue[i] # current /\ state[queue[i]] = "runnable"
  BY <1>1, RunningTrace
<1>3. nextCall \in 0..MaxCalls
  BY <1>1, RunningFacts, TasksAssumption
<1>4. PICK v \in Registers : v = [vm EXCEPT !.hostCall = nextCall]
  BY <1>2, <1>3, RegisterUpdates
<1>5. v.frames = vm.frames
  BY <1>2, <1>4 DEF Registers
<1>6. Stopped(v) \in [TaskId -> Registers] /\ Fits(state, Stopped(v), parent)
  BY <1>1, <1>5, FramesStay
<1>7. PICK st \in [TaskId -> TaskStates] : st = [state EXCEPT ![current] = "host"]
  BY <1>2 DEF TaskStates
<1>8. \A t \in TaskId : st[t] = IF t = current THEN "host" ELSE state[t]
  BY <1>2, <1>7
<1>9. Startable(queue, st)
  <2>1. \A i \in DOMAIN queue : queue[i] \in TaskId
    BY <1>2
  <2>2. QED
    BY <1>2, <1>8, <2>1 DEF Startable
<1>10. Fits(st, Stopped(v), parent)
  BY <1>2, <1>6, <1>8 DEF Fits, Live
<1>11. Schedule(queue, st, Stopped(v), parent)
  BY <1>1, <1>4, <1>7, Zenon
<1>12. TraceInv' /\ Shows(st, Stopped(v))
  BY <1>1, <1>2, <1>6, <1>9, <1>10, <1>11, ScheduleTrace
<1>13. QED
  BY <1>4, <1>7, <1>12

(* What is left of a child that completed, and of its parent. *)
Completed ==
  LET p == parent[current]
  IN  [t \in TaskId |-> IF t = current THEN "none"
                       ELSE IF t = p /\ WakesParent(p, LeftWaiting(p)) THEN "runnable"
                       ELSE state[t]]

(* A completed child leaves its siblings' and its parent's traces alone. *)
LEMMA CompleteChildTrace ==
  ASSUME IInv, TraceInv, CompleteChild
  PROVE  TraceInv' /\ Shows(Completed, Stopped(NoRegisters))
<1>1. PICK p : p = parent[current]
  OBVIOUS
<1>2. PICK wakes \in BOOLEAN : wakes = WakesParent(p, LeftWaiting(p))
  BY DEF WakesParent
<1>3. PICK q : q = IF wakes THEN Append(queue, p) ELSE queue
  OBVIOUS
<1>4. PICK gone : gone = [state EXCEPT ![current] = "none"]
  OBVIOUS
<1>5. PICK st : st = IF wakes THEN [gone EXCEPT ![p] = "runnable"] ELSE gone
  OBVIOUS
<1>6. /\ phase = "running" /\ parent' = parent /\ p # 0
      /\ Schedule(q, st, Stopped(NoRegisters), parent)
  BY <1>1, <1>2, <1>3, <1>4, <1>5, Zenon DEF CompleteChild, Running, Enqueue
<1>7. /\ current \in TaskId /\ state \in [TaskId -> TaskStates]
      /\ queue \in Seq(TaskId) /\ OlderParents(parent) /\ current \in Live
      /\ \A i \in DOMAIN queue : queue[i] # current /\ state[queue[i]] = "runnable"
      /\ Fits(state, Stopped(vm), parent) /\ saved \in [TaskId -> Registers]
      /\ state[current] \in {"running", "runnable"}
  BY <1>6, RunningTrace, RunningFacts
<1>8. p \in TaskId /\ state[p] = "children" /\ p # current
  <2>1. p \in TaskId
    BY <1>1, <1>6, <1>7, ParentType DEF IInv
  <2>2. state[p] = "children"
    BY <1>1, <1>6, <1>7 DEF IInv, TreeInv, Live
  <2>3. QED
    BY <1>7, <2>1, <2>2
<1>9. /\ gone \in [TaskId -> TaskStates]
      /\ \A t \in TaskId : gone[t] = IF t = current THEN "none" ELSE state[t]
  BY <1>4, <1>7 DEF TaskStates
<1>10. /\ st \in [TaskId -> TaskStates]
       /\ \A t \in TaskId : st[t] = IF t = current THEN "none"
                                    ELSE IF t = p /\ wakes THEN "runnable" ELSE state[t]
  <2>1. CASE wakes
    <3>1. st = [gone EXCEPT ![p] = "runnable"]
      BY <1>5, <2>1
    <3>2. QED
      BY <1>8, <1>9, <2>1, <3>1 DEF TaskStates
  <2>2. CASE ~wakes
    BY <1>5, <1>9, <2>2
  <2>3. QED
    BY <2>1, <2>2
<1>11. q \in Seq(TaskId) /\ Startable(q, st)
  <2>1. \A i \in DOMAIN queue : queue[i] \in TaskId /\ st[queue[i]] = "runnable"
    <3>1. \A i \in DOMAIN queue : queue[i] \in TaskId
      BY <1>7
    <3>2. QED
      BY <1>7, <1>8, <1>10, <3>1
  <2>2. CASE wakes
    <3>1. q = Append(queue, p)
      BY <1>3, <2>2
    <3>2. /\ q \in Seq(TaskId)
          /\ \A i \in DOMAIN q : (i \in DOMAIN queue /\ q[i] = queue[i]) \/ q[i] = p
      BY <1>7, <1>8, <3>1
    <3>3. st[p] = "runnable"
      BY <1>8, <1>10, <2>2
    <3>4. QED
      BY <1>8, <2>1, <3>2, <3>3 DEF Startable
  <2>3. CASE ~wakes
    BY <1>3, <1>7, <2>1, <2>3 DEF Startable
  <2>4. QED
    BY <2>2, <2>3
<1>12. PICK regs \in [TaskId -> Registers] : regs = Stopped(NoRegisters)
  <2>1. NoRegisters \in Registers
    <3>1. 0 \in 0..MaxTasks
      BY TasksAssumption
    <3>2. QED
      BY <3>1, NewRegisters
  <2>2. QED
    BY <1>7, <2>1 DEF Stopped
<1>13. Fits(st, regs, parent)
  <2> SUFFICES ASSUME NEW t \in TaskId, st[t] # "none"
               PROVE  Len(RebuildTrace(regs, parent, t)) <= TraceLimit
    BY DEF Fits
  <2>1. t # current /\ state[t] # "none"
    BY <1>8, <1>10
  <2>2. \A u \in TaskId : state[u] # "none" /\ u # current => regs[u].frames = saved[u].frames
    BY <1>7, <1>12 DEF Stopped
  <2>3. RebuildTrace(regs, parent, t) = RebuildTrace(Stopped(vm), parent, t)
    BY <1>6, <1>7, <2>1, <2>2, OtherTraces
  <2>4. Len(RebuildTrace(Stopped(vm), parent, t)) <= TraceLimit
    BY <1>7, <2>1 DEF Fits
  <2>5. QED
    BY <2>3, <2>4
<1>14. TraceInv' /\ Shows(st, regs)
  <2>1. Schedule(q, st, regs, parent)
    BY <1>6, <1>12
  <2>2. QED
    BY <1>6, <1>7, <1>10, <1>11, <1>13, <2>1, ScheduleTrace
<1>15. st = Completed
  <2>1. Completed = [t \in TaskId |-> IF t = current THEN "none"
                       ELSE IF t = p /\ wakes THEN "runnable" ELSE state[t]]
    BY <1>1, <1>2, Zenon DEF Completed
  <2>2. QED
    BY <1>10, <2>1
<1>16. QED
  BY <1>12, <1>14, <1>15, Zenon

(* The states, parents and registers once the running task forked n        *)
(* children. *)
Forked(n) == nextTask .. nextTask + n - 1

ForkedParents(n) == [t \in TaskId |-> IF t \in Forked(n) THEN current ELSE parent[t]]

ForkedStates(n) ==
  [t \in TaskId |-> IF t \in Forked(n) THEN "runnable"
                   ELSE IF t = current THEN "children" ELSE state[t]]

ForkedRegisters(n) ==
  [t \in TaskId |-> IF t \in Forked(n) THEN TaskRegisters(<<Untraced>>) ELSE Stopped(vm)[t]]

(* A new task has no entry of its own: its trace is that of its parent. *)
LEMMA ForkFits ==
  ASSUME IInv, TraceInv, phase = "running", NEW n \in 1..MaxTasks,
         nextTask + n - 1 <= MaxTasks
  PROVE  /\ OlderParents(ForkedParents(n))
         /\ ForkedRegisters(n) \in [TaskId -> Registers]
         /\ Fits(ForkedStates(n), ForkedRegisters(n), ForkedParents(n))
<1>1. /\ current \in TaskId /\ current \in Live /\ current < nextTask
      /\ state \in [TaskId -> TaskStates] /\ saved \in [TaskId -> Registers]
      /\ vm \in Registers /\ Stopped(vm) \in [TaskId -> Registers]
      /\ OlderParents(parent) /\ Fits(state, Stopped(vm), parent)
  BY RunningTrace, RunningFacts
<1>2. nextTask \in 1..(MaxTasks + 1) /\ n \in Nat
  BY DEF IInv, TypeOK
<1>3. PICK new : new = Forked(n)
  OBVIOUS
<1>4. /\ new \subseteq TaskId
      /\ \A t \in new : state[t] = "none" /\ current < t
  <2>1. \A t \in new : t \in TaskId /\ t >= nextTask
    BY <1>2, <1>3, TasksAssumption DEF Forked, TaskId
  <2>2. \A t \in new : state[t] = "none"
    BY <2>1 DEF IInv, FreshInv
  <2>3. \A t \in new : current < t
    BY <1>1, <1>2, <2>1 DEF TaskId
  <2>4. QED
    BY <2>1, <2>2, <2>3
<1>5. current \notin new /\ state[current] # "none"
  BY <1>1, <1>4 DEF Live
<1>6. PICK par : par = ForkedParents(n)
  OBVIOUS
<1>7. \A t \in TaskId : par[t] = IF t \in new THEN current ELSE parent[t]
  BY <1>3, <1>6 DEF ForkedParents
<1>8. OlderParents(par)
  BY <1>1, <1>4, <1>7, TasksAssumption DEF OlderParents, TaskId
<1>9. PICK st : st = ForkedStates(n)
  OBVIOUS
<1>10. \A t \in TaskId : st[t] = IF t \in new THEN "runnable"
                               ELSE IF t = current THEN "children" ELSE state[t]
  BY <1>3, <1>9 DEF ForkedStates
<1>11. TaskRegisters(<<Untraced>>) \in Registers /\ TaskRegisters(<<Untraced>>).frames = <<Untraced>>
  <2>1. Untraced \in 0..MaxTasks
    BY TasksAssumption DEF Untraced
  <2>2. QED
    BY <2>1, NewRegisters DEF TaskRegisters
<1>12. PICK regs : regs = ForkedRegisters(n)
  OBVIOUS
<1>13. regs \in [TaskId -> Registers]
  BY <1>1, <1>11, <1>12 DEF ForkedRegisters
<1>14. \A t \in TaskId : regs[t] = IF t \in new THEN TaskRegisters(<<Untraced>>)
                                 ELSE Stopped(vm)[t]
  BY <1>3, <1>12 DEF ForkedRegisters
<1>15. \A t \in TaskId : state[t] # "none" =>
         RebuildTrace(regs, par, t) = RebuildTrace(Stopped(vm), parent, t)
  <2> DEFINE S == {t \in TaskId : state[t] # "none"} \cup {0}
  <2>1. \A u \in S : u # 0 => parent[u] \in S
    <3> SUFFICES ASSUME NEW u \in S, u # 0, parent[u] # 0
                 PROVE  parent[u] \in TaskId /\ state[parent[u]] # "none"
      OBVIOUS
    <3>1. parent[u] \in TaskId
      BY ParentType DEF IInv
    <3>2. state[parent[u]] = "children"
      BY DEF IInv, TreeInv
    <3>3. QED
      BY <3>1, <3>2
  <2>2. \A u \in S : u # 0 => u \in TaskId /\ u \notin new
    BY <1>4
  <2>3. \A u \in S : u # 0 => par[u] = parent[u] /\ regs[u].frames = Stopped(vm)[u].frames
    BY <1>7, <1>14, <2>2
  <2>4. S \subseteq 0..MaxTasks
    BY TasksAssumption DEF TaskId
  <2>5. SameFrames(S, Stopped(vm), parent, regs, par)
    BY <1>1, <1>8, <2>1, <2>3, <2>4 DEF SameFrames
  <2>6. QED
    BY <2>5, RebuildSame
<1>16. \A t \in new : RebuildTrace(regs, par, t) = RebuildTrace(Stopped(vm), parent, current)
  <2> SUFFICES ASSUME NEW t \in new
               PROVE  RebuildTrace(regs, par, t) = RebuildTrace(Stopped(vm), parent, current)
    OBVIOUS
  <2>1. Rebuilds(regs, par)
    BY <1>8, <1>13, RebuildIs
  <2>2. RebuildTrace(regs, par, t) = RebuildTrace(regs, par, par[t]) \o Entries(regs[t].frames)
    BY <1>4, <2>1, Zenon DEF Rebuilds
  <2>3. par[t] = current /\ regs[t].frames = <<Untraced>>
    BY <1>4, <1>7, <1>11, <1>14
  <2>4. Entries(<<Untraced>>) = <<>>
    <3>1. PICK none \in Seq(0..MaxTasks) : none = <<>>
      BY EmptySeq
    <3>2. Untraced \in 0..MaxTasks
      BY TasksAssumption DEF Untraced
    <3>3. Entries(Append(none, Untraced)) = Entries(none) \o <<>>
      BY <3>2, EntriesAppend
    <3>4. Entries(none) = <<>>
      BY <3>1, <3>2, EntriesAppend
    <3>5. Append(none, Untraced) = <<Untraced>>
      BY <3>1
    <3>6. <<>> \o <<>> = <<>>
      OBVIOUS
    <3>7. QED
      BY <3>3, <3>4, <3>5, <3>6, Zenon
  <2>5. RebuildTrace(regs, par, current) \in Seq(0..MaxTasks)
    <3>1. current \in 0..MaxTasks
      BY <1>1 DEF TaskId
    <3>2. QED
      BY <2>1, <3>1, Zenon DEF Rebuilds
  <2>6. RebuildTrace(regs, par, current) \o <<>> = RebuildTrace(regs, par, current)
    BY <2>5, ConcatEmptySeq
  <2>7. RebuildTrace(regs, par, t) = RebuildTrace(regs, par, current)
    BY <2>2, <2>3, <2>4, <2>6, Zenon
  <2>8. QED
    BY <1>1, <1>5, <1>15, <2>7
<1>17. Fits(st, regs, par)
  <2> SUFFICES ASSUME NEW t \in TaskId, st[t] # "none"
               PROVE  Len(RebuildTrace(regs, par, t)) <= TraceLimit
    BY DEF Fits
  <2>1. CASE t \in new
    <3>1. Len(RebuildTrace(Stopped(vm), parent, current)) <= TraceLimit
      BY <1>1, <1>5 DEF Fits
    <3>2. QED
      BY <1>16, <2>1, <3>1
  <2>2. CASE t \notin new
    <3>1. state[t] # "none"
      BY <1>5, <1>10, <2>2
    <3>2. Len(RebuildTrace(Stopped(vm), parent, t)) <= TraceLimit
      BY <1>1, <3>1 DEF Fits
    <3>3. QED
      BY <1>15, <3>1, <3>2
  <2>3. QED
    BY <2>1, <2>2
<1>18. QED
  BY <1>6, <1>8, <1>9, <1>12, <1>13, <1>17, Zenon

(* The children of a `par` can be scheduled. *)
LEMMA ParallelStartTrace ==
  ASSUME IInv, TraceInv, NEW n \in 1..MaxTasks, ParallelStart(n)
  PROVE  TraceInv' /\ Shows(ForkedStates(n), ForkedRegisters(n))
<1>1. PICK more : more = [i \in 1..n |-> nextTask + i - 1]
  OBVIOUS
<1>2. /\ phase = "running" /\ nextTask + n - 1 <= MaxTasks
      /\ parent' = ForkedParents(n)
      /\ Schedule(queue \o more,
                  [[t \in TaskId |-> IF t \in Forked(n) THEN "runnable" ELSE state[t]]
                     EXCEPT ![current] = "children"],
                  ForkedRegisters(n), ForkedParents(n))
  BY <1>1, Zenon DEF ParallelStart, Running, Forked, ForkedParents, ForkedRegisters
<1>3. /\ current \in TaskId /\ current < nextTask
      /\ state \in [TaskId -> TaskStates] /\ queue \in Seq(TaskId)
      /\ \A i \in DOMAIN queue : queue[i] # current /\ state[queue[i]] = "runnable"
      /\ nextTask \in 1..(MaxTasks + 1) /\ n \in Nat
  <2>1. nextTask \in 1..(MaxTasks + 1) /\ n \in Nat
    BY DEF IInv, TypeOK
  <2>2. current \in TaskId /\ current < nextTask
    BY <1>2, RunningFacts
  <2>3. QED
    BY <1>2, <2>1, <2>2, RunningTrace
<1>4. /\ OlderParents(ForkedParents(n)) /\ ForkedRegisters(n) \in [TaskId -> Registers]
      /\ Fits(ForkedStates(n), ForkedRegisters(n), ForkedParents(n))
  BY <1>2, ForkFits
<1>5. /\ ForkedStates(n) \in [TaskId -> TaskStates]
      /\ ForkedStates(n)
         = [[t \in TaskId |-> IF t \in Forked(n) THEN "runnable" ELSE state[t]]
              EXCEPT ![current] = "children"]
  <2>1. current \notin Forked(n)
    BY <1>3 DEF Forked, TaskId
  <2>2. QED
    BY <1>3, <2>1 DEF ForkedStates, TaskStates
<1>6. /\ more \in Seq(TaskId)
      /\ \A i \in DOMAIN more : more[i] \in Forked(n) /\ more[i] \in TaskId
  <2>1. \A i \in 1..n : nextTask + i - 1 \in Forked(n) /\ nextTask + i - 1 \in TaskId
    BY <1>2, <1>3, TasksAssumption DEF Forked, TaskId
  <2>2. more \in [1..n -> TaskId]
    BY <1>1, <2>1
  <2>3. more \in Seq(TaskId) /\ DOMAIN more = 1..n
    BY <1>3, <2>2, IsASeq
  <2>4. QED
    BY <1>1, <2>1, <2>3
<1>7. queue \o more \in Seq(TaskId) /\ Startable(queue \o more, ForkedStates(n))
  <2>1. PICK q : q = queue \o more
    OBVIOUS
  <2>2. /\ q \in Seq(TaskId) /\ DOMAIN q = 1..(Len(queue) + Len(more))
        /\ \A i \in 1..(Len(queue) + Len(more)) :
             q[i] = IF i <= Len(queue) THEN queue[i] ELSE more[i - Len(queue)]
    BY <1>3, <1>6, <2>1, ConcatProperties, LenProperties
  <2>3. Len(queue) \in Nat /\ Len(more) \in Nat /\ DOMAIN queue = 1..Len(queue)
        /\ DOMAIN more = 1..Len(more)
    BY <1>3, <1>6, LenProperties
  <2>4. ASSUME NEW i \in DOMAIN q
        PROVE  \/ i \in DOMAIN queue /\ q[i] = queue[i]
               \/ i - Len(queue) \in DOMAIN more /\ q[i] = more[i - Len(queue)]
    <3>1. i \in 1..(Len(queue) + Len(more))
      BY <2>2
    <3>2. q[i] = IF i <= Len(queue) THEN queue[i] ELSE more[i - Len(queue)]
      BY <2>2, <3>1, Zenon
    <3>3. CASE i <= Len(queue)
      BY <2>3, <3>1, <3>2, <3>3
    <3>4. CASE ~(i <= Len(queue))
      <4>1. i - Len(queue) \in DOMAIN more
        BY <2>3, <3>1, <3>4
      <4>2. q[i] = more[i - Len(queue)]
        BY <3>2, <3>4, Zenon
      <4>3. QED
        BY <4>1, <4>2
    <3>5. QED
      BY <3>3, <3>4
  <2>5. \A i \in DOMAIN q : q[i] \in TaskId
    BY <2>2
  <2>6. \A t \in TaskId : t \in Forked(n) \/ (state[t] = "runnable" /\ t # current)
          => ForkedStates(n)[t] = "runnable"
    BY DEF ForkedStates
  <2>7. \A i \in DOMAIN q : ForkedStates(n)[q[i]] = "runnable"
    BY <1>3, <1>6, <2>4, <2>5, <2>6
  <2>8. QED
    BY <2>1, <2>2, <2>5, <2>7 DEF Startable
<1>8. Schedule(queue \o more, ForkedStates(n), ForkedRegisters(n), ForkedParents(n))
  BY <1>2, <1>5, Zenon
<1>9. QED
  BY <1>2, <1>4, <1>5, <1>7, <1>8, ScheduleTrace

(* The host answers call c of the task w. *)
ResumedStates(w) == [state EXCEPT ![w] = "runnable"]

ResumedRegisters(w, c) == [saved EXCEPT ![w].ready = c]

(* An answered task can be scheduled. *)
LEMMA ResumeTrace ==
  ASSUME IInv, TraceInv, NEW c \in outstanding, Resume(c)
  PROVE  TraceInv' /\ \E w \in Waiters(c) : Shows(ResumedStates(w), ResumedRegisters(w, c))
<1>1. /\ phase = "pending" /\ queue = <<>> /\ parent' = parent
      /\ state \in [TaskId -> TaskStates] /\ saved \in [TaskId -> Registers]
      /\ c \in 0..MaxCalls
      /\ OlderParents(parent) /\ Fits(state, saved, parent)
      /\ \A t \in TaskId : state[t] # "running"
  <2>1. phase = "pending" /\ parent' = parent
    BY DEF Resume
  <2>2. queue = <<>> /\ \A t \in TaskId : state[t] # "running"
    BY <2>1 DEF IInv, PhaseInv, TaskId
  <2>3. state \in [TaskId -> TaskStates] /\ saved \in [TaskId -> Registers] /\ c \in 0..MaxCalls
    BY DEF IInv, TypeOK
  <2>4. QED
    BY <2>1, <2>2, <2>3 DEF TraceInv
<1>2. Waiters(c) # {}
  <2>1. PICK t \in TaskId : state[t] = "host" /\ saved[t].hostCall = c
    BY <1>1 DEF IInv, Active, CallInv
  <2>2. QED
    BY <2>1 DEF Waiters, Live
<1>3. PICK w \in Waiters(c) : Schedule(Enqueue(queue, w), [state EXCEPT ![w] = "runnable"],
                                      [saved EXCEPT ![w].ready = c], parent)
  BY <1>2 DEF Resume
<1>4. w \in TaskId /\ state[w] = "host"
  BY DEF Waiters, Live
<1>5. PICK q \in Seq(TaskId) : q = Append(queue, w)
  <2>1. queue \in Seq(TaskId)
    BY <1>1, EmptySeq
  <2>2. QED
    BY <1>4, <2>1, AppendProperties
<1>6. \A i \in DOMAIN q : q[i] = w
  BY <1>1, <1>5
<1>7. PICK st \in [TaskId -> TaskStates] : st = ResumedStates(w)
  BY <1>1 DEF ResumedStates, TaskStates
<1>8. \A t \in TaskId : st[t] = IF t = w THEN "runnable" ELSE state[t]
  BY <1>1, <1>4, <1>7 DEF ResumedStates
<1>9. PICK r : r = [saved[w] EXCEPT !.ready = c]
  OBVIOUS
<1>10. r \in Registers /\ r.frames = saved[w].frames
  <2>1. saved[w] \in Registers
    BY <1>1, <1>4
  <2>2. QED
    BY <1>1, <1>9, <2>1, RegisterUpdates DEF Registers
<1>11. PICK regs : regs = ResumedRegisters(w, c)
  OBVIOUS
<1>12. /\ regs \in [TaskId -> Registers]
       /\ \A t \in TaskId : regs[t] = IF t = w THEN r ELSE saved[t]
  BY <1>1, <1>4, <1>9, <1>10, <1>11 DEF ResumedRegisters
<1>13. \A t \in 0..MaxTasks : RebuildTrace(regs, parent, t) = RebuildTrace(saved, parent, t)
  <2>1. \A u \in 0..MaxTasks : u # 0 => u \in TaskId
    BY TasksAssumption DEF TaskId
  <2>2. \A u \in 0..MaxTasks : u # 0 => /\ parent[u] \in 0..MaxTasks
                                        /\ regs[u].frames = saved[u].frames
    BY <1>1, <1>10, <1>12, <2>1 DEF OlderParents
  <2>3. PICK S : S = 0..MaxTasks
    OBVIOUS
  <2>4. SameFrames(S, saved, parent, regs, parent)
    BY <1>1, <2>2, <2>3 DEF SameFrames
  <2>5. \A t \in S : RebuildTrace(regs, parent, t) = RebuildTrace(saved, parent, t)
    BY <2>4, RebuildSame
  <2>6. QED
    BY <2>3, <2>5
<1>14. Fits(st, regs, parent)
  <2> SUFFICES ASSUME NEW t \in TaskId, st[t] # "none"
               PROVE  Len(RebuildTrace(regs, parent, t)) <= TraceLimit
    BY DEF Fits
  <2>1. state[t] # "none" /\ t \in 0..MaxTasks
    BY <1>4, <1>8 DEF TaskId
  <2>2. Len(RebuildTrace(saved, parent, t)) <= TraceLimit
    BY <1>1, <2>1 DEF Fits
  <2>3. QED
    BY <1>13, <2>1, <2>2
<1>15. Startable(q, st)
  BY <1>4, <1>6, <1>8 DEF Startable
<1>16. Schedule(q, st, regs, parent)
  BY <1>3, <1>5, <1>7, <1>11, Zenon DEF Enqueue, ResumedStates, ResumedRegisters
<1>17. TraceInv' /\ Shows(st, regs)
  BY <1>1, <1>12, <1>14, <1>15, <1>16, ScheduleTrace
<1>18. QED
  BY <1>7, <1>11, <1>17

(* The root task starts with one entry. *)
StartedRegisters == [saved EXCEPT ![Root] = TaskRegisters(<<Root>>)]

(* The root task starts with the trace of its one frame. *)
LEMMA StartTrace ==
  ASSUME IInv, TraceInv, Start
  PROVE  TraceInv' /\ Shows([state EXCEPT ![Root] = "runnable"], StartedRegisters)
<1>1. /\ phase = "idle" /\ phase' = "running" /\ current' = Root
      /\ vm' = TaskRegisters(<<Root>>) /\ state' = [state EXCEPT ![Root] = "runnable"]
      /\ saved' = [saved EXCEPT ![Root] = vm'] /\ trace' = <<Root>> /\ parent' = parent
  BY DEF Start
<1>2. /\ Root \in TaskId /\ Root \in 0..MaxTasks /\ Root # Untraced
      /\ state \in [TaskId -> TaskStates] /\ saved \in [TaskId -> Registers]
      /\ parent[Root] = 0 /\ OlderParents(parent)
      /\ \A t \in TaskId : state[t] = "none"
  <2>1. Root \in TaskId /\ Root \in 0..MaxTasks /\ Root # Untraced
    BY TasksAssumption DEF Root, TaskId, Untraced
  <2>2. QED
    BY <1>1, <2>1 DEF IInv, TypeOK, PhaseInv, TraceInv
<1>3. PICK r \in Registers : r = TaskRegisters(<<Root>>)
  BY <1>2, NewRegisters
<1>4. r.frames = <<Root>>
  BY <1>3 DEF TaskRegisters
<1>5. PICK regs \in [TaskId -> Registers] : regs = StartedRegisters
  BY <1>2, <1>3 DEF StartedRegisters
<1>6. /\ saved' = regs /\ regs[Root] = r /\ vm' = r /\ Stopped(vm)' = regs
  <2>1. saved' = regs /\ regs[Root] = r /\ vm' = r
    BY <1>1, <1>2, <1>3, <1>5 DEF StartedRegisters
  <2>2. Stopped(vm)' = [regs EXCEPT ![Root] = r]
    BY <1>1, <2>1 DEF Stopped
  <2>3. QED
    BY <1>2, <2>1, <2>2
<1>7. RebuildTrace(regs, parent, Root) = <<Root>>
  <2>1. Rebuilds(regs, parent)
    BY <1>2, RebuildIs
  <2>2. RebuildTrace(regs, parent, Root) = <<>> \o Entries(<<Root>>)
    BY <1>2, <1>4, <1>6, <2>1, Zenon DEF Rebuilds
  <2>3. PICK none \in Seq(0..MaxTasks) : none = <<>>
    BY EmptySeq
  <2>4. Entries(Append(none, Root)) = Entries(none) \o <<Root>>
    BY <1>2, EntriesAppend
  <2>5. Entries(none) = <<>>
    BY <1>2, <2>3, EntriesAppend
  <2>6. Append(none, Root) = <<Root>>
    BY <2>3
  <2>7. <<>> \o (<<>> \o <<Root>>) = <<Root>>
    OBVIOUS
  <2>8. QED
    BY <2>2, <2>4, <2>5, <2>6, <2>7, Zenon
<1>8. Fits(state', regs, parent)
  <2>1. \A t \in TaskId : state'[t] # "none" => t = Root
    BY <1>1, <1>2
  <2>2. Len(<<Root>>) <= TraceLimit
    BY TasksAssumption
  <2>3. QED
    BY <1>7, <2>1, <2>2 DEF Fits
<1>9. TraceInv'
  <2>1. trace' = RebuildTrace(Stopped(vm)', parent', current')
    BY <1>1, <1>6, <1>7, Zenon
  <2>2. Fits(state', Stopped(vm)', parent')
    BY <1>1, <1>6, <1>8, Zenon
  <2>3. QED
    BY <1>1, <1>2, <2>1, <2>2 DEF TraceInv
<1>10. \A t \in TaskId : Register(t)' = regs[t]
  BY <1>1, <1>6 DEF Register
<1>11. QED
  BY <1>1, <1>5, <1>9, <1>10 DEF Shows

(* The last step of an execution leaves no trace to rebuild. *)
LEMMA EndTrace ==
  ASSUME IInv, TraceInv, phase' \notin {"running", "pending"}, parent' = parent
  PROVE  TraceInv'
BY DEF TraceInv

(* No task has a trace before the execution starts. *)
LEMMA TraceInit == Init => TraceInv
BY TasksAssumption DEF Init, TraceInv, OlderParents, TaskId

(* Every step preserves the invariant of the trace stack. *)
LEMMA TraceNext == IInv /\ TraceInv /\ [Next]_vars => TraceInv'
<1> SUFFICES ASSUME IInv, TraceInv, [Next]_vars
             PROVE  TraceInv'
  OBVIOUS
<1>1. CASE LoopCheckpoint \/ Call \/ Return \/ CompleteChild
  BY <1>1, LoopCheckpointTrace, CallTrace, ReturnTrace, CompleteChildTrace
<1>2. CASE HostCallReady \/ HostCallPending \/ HostCallTake
  BY <1>2, HostCallReadyTrace, HostCallPendingTrace, HostCallTakeTrace
<1>3. CASE ParallelEmpty \/ ParallelTake
  BY <1>3, ParallelLocalTrace
<1>4. CASE \E n \in 1..MaxTasks : ParallelStart(n)
  BY <1>4, ParallelStartTrace
<1>5. CASE \E c \in outstanding : Resume(c)
  BY <1>5, ResumeTrace
<1>6. CASE Start
  BY <1>6, StartTrace
<1>7. CASE StartArityError \/ Trap
  <2>1. phase' \notin {"running", "pending"} /\ parent' = parent
    BY <1>7 DEF StartArityError, Trap
  <2>2. QED
    BY <2>1, EndTrace
<1>8. CASE Complete \/ Cancel
  <2>1. phase' \notin {"running", "pending"} /\ parent' = parent
    BY <1>8 DEF Complete, Cancel, EndTasks
  <2>2. QED
    BY <2>1, EndTrace
<1>9. CASE Terminated \/ UNCHANGED vars
  <2>1. UNCHANGED vars
    BY <1>9 DEF Terminated
  <2>2. QED
    BY <2>1 DEF TraceInv, Stopped, vars
<1>10. QED
  BY <1>1, <1>2, <1>3, <1>4, <1>5, <1>6, <1>7, <1>8, <1>9 DEF Next, GuestStep

(* The Error trace belongs to the running task in every reachable state, and *)
(* every task of the run queue can be scheduled.                           *)
THEOREM TraceInvariance == Spec => [](IInv /\ TraceInv)
<1>1. Init => IInv /\ TraceInv
  BY InitInv, TraceInit
<1>2. IInv /\ TraceInv /\ [Next]_vars => (IInv /\ TraceInv)'
  BY NextInv, TraceNext
<1>3. QED
  BY <1>1, <1>2, PTL DEF Spec

(* TraceExact: the Error trace that all tasks share is, after every        *)
(* switch, push and pop, the one rebuilt from the frames of the running    *)
(* task and of those it was started from, and the trace of each live task  *)
(* fits the stack, so that schedule() never traps.                         *)
THEOREM TraceIsExact == Spec => []TraceExact
<1>1. IInv /\ TraceInv => TraceExact
  BY DEF TraceInv, TraceExact, TraceMatchesFrames, RebuildFits, Fits, Live
<1>2. QED
  BY <1>1, TraceInvariance, PTL
-----------------------------------------------------------------------------
(* The order of the run queue. *)
LEMMA PrefixSelf ==
  ASSUME NEW s \in Seq(TaskId)
  PROVE  IsPrefix(s, s)
<1>1. Len(s) <= Len(s)
  BY LenProperties
<1>2. QED
  BY <1>1 DEF IsPrefix

(* Appending to a queue keeps the order behind its head. *)
LEMMA TailPrefix ==
  ASSUME NEW s \in Seq(TaskId), s # <<>>, NEW m \in Seq(TaskId)
  PROVE  /\ s \o m # <<>> /\ Head(s \o m) = Head(s)
         /\ IsPrefix(Tail(s), Tail(s \o m))
<1>1. PICK a, b \in Nat : a = Len(s) /\ b = Len(m)
  BY LenProperties
<1>2. a >= 1
  BY <1>1, LenProperties, EmptySeq
<1>3. PICK c \in Seq(TaskId) : c = s \o m
  BY ConcatProperties
<1>4. Len(c) = a + b /\ \A i \in 1..a : c[i] = s[i]
  <2>1. /\ Len(c) = a + b
        /\ \A i \in 1..(a + b) : c[i] = IF i <= a THEN s[i] ELSE m[i - a]
    BY <1>1, <1>3, ConcatProperties
  <2>2. \A i \in 1..a : i \in 1..(a + b) /\ i <= a
    BY <1>1
  <2>3. QED
    BY <2>1, <2>2
<1>5. c # <<>>
  BY <1>2, <1>4
<1>6. Head(c) = c[1] /\ Head(s) = s[1]
  BY <1>5
<1>7. PICK u, v \in Seq(TaskId) : u = Tail(s) /\ v = Tail(c)
  BY <1>5, HeadTailProperties
<1>8. /\ Len(u) = a - 1 /\ \A i \in 1..(a - 1) : u[i] = s[i + 1]
      /\ Len(v) = a + b - 1 /\ \A i \in 1..(a + b - 1) : v[i] = c[i + 1]
  BY <1>1, <1>4, <1>5, <1>7, HeadTailProperties
<1>9. IsPrefix(u, v)
  <2>1. Len(u) <= Len(v) /\ DOMAIN u = 1..(a - 1)
    BY <1>2, <1>8, LenProperties
  <2>2. \A i \in 1..(a - 1) : i \in 1..(a + b - 1) /\ i + 1 \in 1..a
    BY <1>2
  <2>3. \A i \in 1..(a - 1) : u[i] = v[i]
    BY <1>4, <1>8, <2>2
  <2>4. QED
    BY <2>1, <2>3 DEF IsPrefix
<1>10. 1 \in 1..a
  BY <1>2
<1>11. QED
  BY <1>3, <1>4, <1>5, <1>6, <1>7, <1>9, <1>10

(* What a step may do to the run queue. *)
InOrder ==
  phase' = "running" /\ queue # <<>> =>
    \/ current' = current /\ IsPrefix(queue, queue')
    \/ current' = Head(queue) /\ IsPrefix(Tail(queue), queue')

(* A switch of tasks runs the head of the queue. *)
LEMMA ScheduleInOrder ==
  ASSUME NEW more \in Seq(TaskId), NEW st, NEW regs, NEW par,
         queue \in Seq(TaskId), Schedule(queue \o more, st, regs, par)
  PROVE  InOrder
<1> SUFFICES ASSUME queue # <<>>
             PROVE  current' = Head(queue) /\ IsPrefix(Tail(queue), queue')
  BY DEF InOrder
<1>1. /\ queue \o more # <<>> /\ Head(queue \o more) = Head(queue)
      /\ IsPrefix(Tail(queue), Tail(queue \o more))
  BY TailPrefix
<1>2. current' = Head(queue \o more) /\ queue' = Tail(queue \o more)
  BY <1>1, Zenon DEF Schedule
<1>3. QED
  BY <1>1, <1>2, Zenon

(* A yield puts the running task behind all others. *)
LEMMA PassCheckpointInOrder ==
  ASSUME queue \in Seq(TaskId), current \in TaskId, NEW v, NEW top, NEW left,
         PassCheckpoint(v, top, left)
  PROVE  InOrder
<1>1. CASE UNCHANGED <<current, queue>>
  <2>1. IsPrefix(queue, queue')
    BY <1>1, PrefixSelf
  <2>2. QED
    BY <1>1, <2>1 DEF InOrder
<1>2. CASE \E st, regs : Schedule(Enqueue(queue, current), st, regs, parent)
  <2>1. Enqueue(queue, current) = queue \o <<current>>
    BY AppendIsConcat DEF Enqueue
  <2>2. PICK st, regs : Schedule(queue \o <<current>>, st, regs, parent)
    BY <1>2, <2>1
  <2>3. <<current>> \in Seq(TaskId)
    OBVIOUS
  <2>4. QED
    BY <2>2, <2>3, ScheduleInOrder
<1>3. QED
  BY <1>1, <1>2, Zenon DEF PassCheckpoint

(* FirstInFirstOut: no yield, wake-up of a parent or start of children     *)
(* puts a task in front of one that waited longer.                         *)
THEOREM QueueIsFirstInFirstOut == Spec => FirstInFirstOut
<1>1. IInv /\ [Next]_vars => [InOrder]_vars
  <2> SUFFICES ASSUME IInv, Next
               PROVE  InOrder
    OBVIOUS
  <2>1. /\ queue \in Seq(TaskId)
        /\ phase = "running" => current \in TaskId
        /\ phase \in {"idle", "pending"} => queue = <<>>
    BY DEF IInv, TypeOK, PhaseInv
  <2>2. <<>> \in Seq(TaskId) /\ queue \o <<>> = queue
    BY <2>1, ConcatEmptySeq, EmptySeq
  <2>3. CASE LoopCheckpoint \/ Call
    <3>1. PICK v, top, left : PassCheckpoint(v, top, left)
      BY <2>3 DEF LoopCheckpoint, Call
    <3>2. phase = "running"
      BY <2>3 DEF LoopCheckpoint, Call, Running
    <3>3. QED
      BY <2>1, <3>1, <3>2, PassCheckpointInOrder
  <2>4. CASE CompleteChild
    <3>1. PICK p : p = parent[current]
      OBVIOUS
    <3>2. PICK wakes, st, regs :
            Schedule(IF wakes THEN Enqueue(queue, p) ELSE queue, st, regs, parent)
      BY <2>4, <3>1, Zenon DEF CompleteChild
    <3>3. p \in TaskId
      BY <2>1, <2>4, <3>1, ParentType DEF CompleteChild, Running, IInv
    <3>4. CASE wakes
      <4>1. Enqueue(queue, p) = queue \o <<p>> /\ <<p>> \in Seq(TaskId)
        BY <2>1, <3>3, AppendIsConcat DEF Enqueue
      <4>2. Schedule(queue \o <<p>>, st, regs, parent)
        BY <3>2, <3>4, <4>1, Zenon
      <4>3. QED
        BY <2>1, <4>1, <4>2, ScheduleInOrder
    <3>5. CASE ~wakes
      <4>1. Schedule(queue \o <<>>, st, regs, parent)
        BY <2>2, <3>2, <3>5, Zenon
      <4>2. QED
        BY <2>1, <2>2, <4>1, ScheduleInOrder
    <3>6. QED
      BY <3>4, <3>5
  <2>5. CASE HostCallPending
    <3>1. PICK st, regs : Schedule(queue, st, regs, parent)
      BY <2>5 DEF HostCallPending
    <3>2. Schedule(queue \o <<>>, st, regs, parent)
      BY <2>2, <3>1, Zenon
    <3>3. QED
      BY <2>1, <2>2, <3>2, ScheduleInOrder
  <2>6. CASE \E n \in 1..MaxTasks : ParallelStart(n)
    <3>1. PICK n \in 1..MaxTasks : ParallelStart(n)
      BY <2>6
    <3>2. PICK more : more = [i \in 1..n |-> nextTask + i - 1]
      OBVIOUS
    <3>3. PICK st, regs, par : Schedule(queue \o more, st, regs, par)
      BY <3>1, <3>2, Zenon DEF ParallelStart
    <3>4. more \in Seq(TaskId)
      <4>1. nextTask + n - 1 <= MaxTasks /\ nextTask \in 1..(MaxTasks + 1)
        BY <3>1 DEF ParallelStart, IInv, TypeOK
      <4>2. \A i \in 1..n : nextTask + i - 1 \in TaskId
        BY <4>1, TasksAssumption DEF TaskId
      <4>3. more \in [1..n -> TaskId] /\ n \in Nat
        BY <3>2, <4>2
      <4>4. QED
        BY <4>3, IsASeq
    <3>5. QED
      BY <2>1, <3>3, <3>4, ScheduleInOrder
  <2>7. CASE \/ Return \/ HostCallReady \/ HostCallTake \/ ParallelEmpty
             \/ ParallelTake \/ Terminated
    <3>1. UNCHANGED <<current, queue>>
      BY <2>7 DEF Return, HostCallReady, HostCallTake, ParallelEmpty, ParallelTake,
         Terminated, vars
    <3>2. IsPrefix(queue, queue')
      BY <2>1, <3>1, PrefixSelf
    <3>3. QED
      BY <3>1, <3>2 DEF InOrder
  <2>8. CASE Start \/ \E c \in outstanding : Resume(c)
    BY <2>1, <2>8 DEF Start, Resume, InOrder
  <2>9. CASE StartArityError \/ Trap \/ Complete \/ Cancel
    BY <2>9 DEF StartArityError, Trap, Complete, Cancel, EndTasks, InOrder
  <2>10. QED
    BY <2>3, <2>4, <2>5, <2>6, <2>7, <2>8, <2>9 DEF Next, GuestStep
<1>2. QED
  BY <1>1, Invariance, PTL DEF Spec, FirstInFirstOut, InOrder

-----------------------------------------------------------------------------
(* What the registers hold of a call: a task that waits for the runner has *)
(* no response yet, and one that does not has neither call nor response,   *)
(* unless it is about to take it. *)
ReadOf(st, regs, rs) ==
  \A t \in TaskId :
    /\ st[t] = "host" => regs[t].ready = 0
    /\ st[t] # "host" /\ (st[t] = "none" \/ rs[t] # "take") =>
         regs[t].ready = 0 /\ regs[t].hostCall = 0

RegistersNow == [t \in TaskId |-> Register(t)]

ReadInv == phase # "trapped" => ReadOf(state, RegistersNow, resume)

(* An element of a result List without a value belongs to a child that     *)
(* lives. *)
ResultsOf(st, par, place, res) ==
  \A p \in TaskId : st[p] # "none" =>
    \A i \in DOMAIN res[p] :
      res[p][i] # 0 \/ \E k \in Kids(st, par, p) : place[k] + 1 = i

ResultInv ==
  /\ \A t \in TaskId : t >= nextTask => results[t] = <<>>
  /\ ResultsOf(state, parent, index, results)

RefInv == IInv /\ TraceInv /\ ReadInv /\ ResultInv

(* The structured tasks the state and a step of it show. *)
LEMMA ShownNow ==
  ASSUME phase \in {"running", "pending"}
  PROVE  /\ Stage = "active"
         /\ Mode = [t \in TaskId |-> ModeOf(state[t])]
         /\ Asked = [t \in TaskId |-> RegistersNow[t].hostCall]
         /\ Answered = [t \in TaskId |-> RegistersNow[t].ready]
<1>1. Stage = "active"
  BY DEF Stage
<1>2. Mode = [t \in TaskId |-> ModeOf(state[t])]
  BY DEF Mode, ModeOf
<1>3. /\ Asked = [t \in TaskId |-> RegistersNow[t].hostCall]
      /\ Answered = [t \in TaskId |-> RegistersNow[t].ready]
  BY DEF Asked, Answered, RegistersNow
<1>4. QED
  BY <1>1, <1>2, <1>3

(* The structured tasks after a step that shows st and regs. *)
LEMMA ShownThen ==
  ASSUME NEW st, NEW regs, Shows(st, regs)
  PROVE  /\ Stage' = "active"
         /\ Mode' = [t \in TaskId |-> ModeOf(st[t])]
         /\ Asked' = [t \in TaskId |-> regs[t].hostCall]
         /\ Answered' = [t \in TaskId |-> regs[t].ready]
<1>1. Stage' = "active"
  BY DEF Stage, Shows
<1>2. Mode' = [t \in TaskId |-> ModeOf(st[t])]
  <2>1. \A t \in TaskId : ModeOf(state'[t]) = ModeOf(st[t])
    BY DEF Shows
  <2>2. Mode' = [t \in TaskId |-> ModeOf(state'[t])]
    BY DEF Mode, ModeOf, Shows
  <2>3. QED
    BY <2>1, <2>2
<1>3. /\ Asked' = [t \in TaskId |-> regs[t].hostCall]
      /\ Answered' = [t \in TaskId |-> regs[t].ready]
  BY DEF Asked, Answered, Shows
<1>4. QED
  BY <1>1, <1>2, <1>3

(* The running task's registers are the VM's. *)
LEMMA RegistersRunning ==
  ASSUME IInv, phase = "running"
  PROVE  /\ current \in TaskId
         /\ RegistersNow = Stopped(vm)
         /\ \A v : \A t \in TaskId : Stopped(v)[t] = IF t = current THEN v ELSE RegistersNow[t]
<1>1. current \in TaskId /\ saved \in [TaskId -> Registers]
  BY RunningFacts DEF IInv, TypeOK
<1>2. QED
  BY <1>1 DEF RegistersNow, Register, Stopped

(* While no task runs the task objects keep all registers. *)
LEMMA RegistersPending ==
  ASSUME IInv, phase # "running"
  PROVE  phase \in {"pending", "idle"} => RegistersNow = saved
<1>1. phase \in {"pending", "idle"} => current = 0
  BY DEF IInv, PhaseInv
<1>2. 0 \notin TaskId /\ saved \in [TaskId -> Registers]
  BY DEF TaskId, IInv, TypeOK
<1>3. QED
  BY <1>1, <1>2 DEF RegistersNow, Register

(* The invariants about registers and results after a step that shows st   *)
(* and regs. *)
LEMMA ReadStep ==
  ASSUME NEW st, NEW regs, Shows(st, regs), ReadOf(st, regs, resume')
  PROVE  ReadInv'
<1>1. \A t \in TaskId : /\ state'[t] = "host" <=> st[t] = "host"
                        /\ state'[t] = "none" <=> st[t] = "none"
  BY DEF Shows, ModeOf
<1>2. \A t \in TaskId : /\ RegistersNow'[t].hostCall = regs[t].hostCall
                        /\ RegistersNow'[t].ready = regs[t].ready
  BY DEF Shows, RegistersNow
<1>3. PICK now : now = RegistersNow'
  OBVIOUS
<1>4. ReadOf(state', now, resume')
  <2> SUFFICES ASSUME NEW t \in TaskId
               PROVE  /\ state'[t] = "host" => now[t].ready = 0
                      /\ state'[t] # "host" /\ (state'[t] = "none" \/ resume'[t] # "take") =>
                           now[t].ready = 0 /\ now[t].hostCall = 0
    BY DEF ReadOf
  <2>1. now[t].hostCall = regs[t].hostCall /\ now[t].ready = regs[t].ready
    BY <1>2, <1>3, Zenon
  <2>2. /\ st[t] = "host" => regs[t].ready = 0
        /\ st[t] # "host" /\ (st[t] = "none" \/ resume'[t] # "take") =>
             regs[t].ready = 0 /\ regs[t].hostCall = 0
    BY Zenon DEF ReadOf
  <2>3. /\ state'[t] = "host" <=> st[t] = "host"
        /\ state'[t] = "none" <=> st[t] = "none"
    BY <1>1
  <2>4. QED
    BY <2>1, <2>2, <2>3, Zenon
<1>5. QED
  BY <1>3, <1>4, Zenon DEF ReadInv

(* The same for the result Lists. *)
LEMMA ResultStep ==
  ASSUME NEW st, NEW regs, Shows(st, regs),
         \A t \in TaskId : t >= nextTask' => results'[t] = <<>>,
         ResultsOf(st, parent', index', results')
  PROVE  ResultInv'
<1>1. \A t \in TaskId : state'[t] = "none" <=> st[t] = "none"
  BY DEF Shows, ModeOf
<1>2. \A p \in TaskId : Kids(state', parent', p) = Kids(st, parent', p)
  BY <1>1 DEF Kids
<1>3. ResultsOf(state', parent', index', results')
  BY <1>1, <1>2 DEF ResultsOf
<1>4. QED
  BY <1>3 DEF ResultInv
-----------------------------------------------------------------------------
(* The structured tasks do not tell the step's state from the one before. *)
Kept == UNCHANGED <<Stage, Mode, Asked, Answered>>

Implements == [Structured!Next]_(Structured!vars)

(* The running task neither asks nor reads. *)
LEMMA KeepStep ==
  ASSUME RefInv, phase = "running", NEW v \in Registers,
         v.hostCall = vm.hostCall, v.ready = vm.ready, Shows(state, Stopped(v)),
         \A t \in TaskId : resume[t] = "take" => resume'[t] = "take"
  PROVE  ReadInv' /\ Kept
<1>1. \A t \in TaskId : /\ Stopped(v)[t].hostCall = RegistersNow[t].hostCall
                        /\ Stopped(v)[t].ready = RegistersNow[t].ready
  <2>1. /\ \A t \in TaskId : Stopped(v)[t] = IF t = current THEN v ELSE RegistersNow[t]
        /\ \A t \in TaskId : Stopped(vm)[t] = IF t = current THEN vm ELSE RegistersNow[t]
        /\ RegistersNow = Stopped(vm)
    BY RegistersRunning DEF RefInv
  <2>2. RegistersNow[current] = vm
    BY <2>1, RunningFacts DEF RefInv
  <2>3. QED
    BY <2>1, <2>2
<1>2. PICK regs : regs = Stopped(v)
  OBVIOUS
<1>3. ReadOf(state, RegistersNow, resume)
  BY DEF RefInv, ReadInv
<1>4. ReadOf(state, regs, resume')
  BY <1>1, <1>2, <1>3 DEF ReadOf
<1>5. ReadInv'
  BY <1>2, <1>4, ReadStep
<1>6. Stage' = Stage /\ Mode' = Mode
  BY ShownNow, ShownThen
<1>7. Asked' = Asked /\ Answered' = Answered
  BY <1>1, ShownNow, ShownThen
<1>8. QED
  BY <1>5, <1>6, <1>7 DEF Kept

RefStep == ReadInv' /\ ResultInv' /\ Implements

(* What the invariants say of the tasks while one runs. *)
LEMMA RunningRef ==
  ASSUME RefInv, phase = "running"
  PROVE  /\ current \in TaskId /\ current < nextTask /\ current # 0
         /\ Structured!Proceeds(current)
         /\ state \in [TaskId -> TaskStates]
         /\ vm \in Registers
         /\ resume \in [TaskId -> {"step", "take", "join"}]
         /\ results \in [TaskId -> Seq(0..MaxTasks)]
         /\ RegistersNow[current] = vm
         /\ resume[current] # "take" => vm.ready = 0 /\ vm.hostCall = 0
<1>1. /\ current \in TaskId /\ current < nextTask /\ current # 0
      /\ state[current] \in {"running", "runnable"} /\ vm \in Registers
      /\ resume \in [TaskId -> {"step", "take", "join"}]
      /\ results \in [TaskId -> Seq(0..MaxTasks)]
      /\ state \in [TaskId -> TaskStates]
  BY RunningFacts DEF RefInv, IInv, TypeOK
<1>2. Stage = "active" /\ Mode[current] = "ready"
  BY <1>1, ShownNow DEF ModeOf
<1>3. RegistersNow[current] = vm
  BY <1>1 DEF RegistersNow, Register
<1>4. resume[current] # "take" => vm.ready = 0 /\ vm.hostCall = 0
  <2>1. ReadOf(state, RegistersNow, resume)
    BY DEF RefInv, ReadInv
  <2>2. resume[current] # "take" =>
          RegistersNow[current].ready = 0 /\ RegistersNow[current].hostCall = 0
    BY <1>1, <2>1 DEF ReadOf
  <2>3. QED
    BY <1>3, <2>2
<1>5. QED
  BY <1>1, <1>2, <1>3, <1>4 DEF Structured!Proceeds

(* Steps that leave the results of every `par` alone. *)
LEMMA ResultsKept ==
  ASSUME RefInv, NEW st, NEW regs, Shows(st, regs),
         \A t \in TaskId : st[t] = "none" <=> state[t] = "none",
         UNCHANGED <<parent, index, results, nextTask>>
  PROVE  ResultInv'
<1>1. \A p \in TaskId : Kids(st, parent, p) = Kids(state, parent, p)
  BY DEF Kids
<1>2. ResultsOf(st, parent', index', results')
  BY <1>1 DEF RefInv, ResultInv, ResultsOf
<1>3. \A t \in TaskId : t >= nextTask' => results'[t] = <<>>
  BY DEF RefInv, ResultInv
<1>4. QED
  BY <1>2, <1>3, ResultStep

(* A step of the scheduler alone. *)
LEMMA StutterRef ==
  ASSUME RefInv, phase = "running", NEW v \in Registers,
         v.hostCall = vm.hostCall, v.ready = vm.ready, Shows(state, Stopped(v)),
         UNCHANGED <<resume, parent, index, results, outstanding, nextTask, nextCall>>
  PROVE  RefStep
<1>1. ReadInv' /\ Kept
  BY KeepStep
<1>2. ResultInv'
  BY ResultsKept
<1>3. Implements
  BY <1>1 DEF Kept, Implements, Structured!vars
<1>4. QED
  BY <1>1, <1>2, <1>3 DEF RefStep

(* A checkpoint, a call and a return concern the scheduler alone. *)
LEMMA LocalRef ==
  ASSUME RefInv, LoopCheckpoint \/ Call \/ Return
  PROVE  RefStep
<1>1. /\ phase = "running"
      /\ Return => Len(vm.frames) > 1
      /\ UNCHANGED <<resume, parent, index, results, outstanding, nextTask, nextCall>>
  BY DEF LoopCheckpoint, Call, Return, Running
<1>2. vm \in Registers /\ current \in 0..MaxTasks
  BY <1>1, RunningRef DEF TaskId
<1>3. CASE LoopCheckpoint
  <2>1. Shows(state, Stopped(vm))
    BY <1>3, LoopCheckpointTrace DEF RefInv
  <2>2. QED
    BY <1>1, <1>2, <2>1, StutterRef
<1>4. CASE Call
  <2>1. PICK v \in Registers : v = [vm EXCEPT !.frames = Append(@, current)]
    BY <1>2, RegisterUpdates
  <2>2. v.hostCall = vm.hostCall /\ v.ready = vm.ready
    BY <1>2, <2>1 DEF Registers
  <2>3. Shows(state, Stopped(v))
    BY <1>4, <2>1, CallTrace DEF RefInv
  <2>4. QED
    BY <1>1, <2>2, <2>3, StutterRef
<1>5. CASE Return
  <2>1. PICK v \in Registers : v = [vm EXCEPT !.frames = Pop(@)]
    BY <1>1, <1>2, <1>5, RegisterUpdates
  <2>2. v.hostCall = vm.hostCall /\ v.ready = vm.ready
    BY <1>2, <2>1 DEF Registers
  <2>3. Shows(state, Stopped(v))
    BY <1>5, <2>1, ReturnTrace DEF RefInv
  <2>4. QED
    BY <1>1, <2>2, <2>3, StutterRef
<1>6. QED
  BY <1>3, <1>4, <1>5

(* A call that is answered at once leaves no call and no response behind. *)
LEMMA HostCallReadyRef ==
  ASSUME RefInv, HostCallReady
  PROVE  RefStep
<1>1. /\ phase = "running" /\ resume[current] = "step" /\ nextCall <= MaxCalls
      /\ nextCall' \in {nextCall, nextCall + 1}
      /\ UNCHANGED <<resume, parent, index, results, outstanding, nextTask>>
  BY DEF HostCallReady, Running
<1>2. PICK v \in Registers : v = [vm EXCEPT !.ready = 0, !.hostCall = 0]
  BY <1>1, RunningRef, RegisterUpdates
<1>3. v.hostCall = vm.hostCall /\ v.ready = vm.ready
  <2>1. vm \in Registers /\ vm.ready = 0 /\ vm.hostCall = 0
    BY <1>1, RunningRef
  <2>2. QED
    BY <1>2, <2>1 DEF Registers
<1>4. Shows(state, Stopped(v))
  BY <1>2, HostCallReadyTrace DEF RefInv
<1>5. ReadInv' /\ Kept
  BY <1>1, <1>3, <1>4, KeepStep
<1>6. ResultInv'
  BY <1>1, <1>4, ResultsKept
<1>7. CASE nextCall' = nextCall
  BY <1>1, <1>5, <1>6, <1>7 DEF Kept, Implements, Structured!vars, RefStep
<1>8. CASE nextCall' = nextCall + 1
  <2>1. Structured!AnsweredAtOnce(current)
    BY <1>1, <1>5, <1>8, RunningRef DEF Kept, Structured!AnsweredAtOnce
  <2>2. Implements
    BY <1>1, <2>1, RunningRef DEF Implements, Structured!Next, TaskId, Structured!TaskId
  <2>3. QED
    BY <1>5, <1>6, <2>2 DEF RefStep
<1>9. QED
  BY <1>1, <1>7, <1>8

(* The running task takes a response: the answer to its own question. *)
LEMMA HostCallTakeRef ==
  ASSUME RefInv, HostCallTake
  PROVE  RefStep
<1>1. /\ phase = "running" /\ resume[current] = "take"
      /\ resume' = [resume EXCEPT ![current] = "step"]
      /\ UNCHANGED <<parent, index, results, outstanding, nextTask, nextCall>>
  BY DEF HostCallTake, Running
<1>2. PICK v \in Registers : v = [vm EXCEPT !.ready = 0, !.hostCall = 0]
  BY <1>1, RunningRef, RegisterUpdates
<1>3. vm \in Registers /\ current \in TaskId /\ RegistersNow[current] = vm
  BY <1>1, RunningRef
<1>4. v.hostCall = 0 /\ v.ready = 0
  BY <1>2, <1>3 DEF Registers
<1>5. Shows(state, Stopped(v))
  BY <1>2, HostCallTakeTrace DEF RefInv
<1>6. PICK regs : regs = Stopped(v)
  OBVIOUS
<1>7. \A t \in TaskId : regs[t] = IF t = current THEN v ELSE RegistersNow[t]
  BY <1>1, <1>6, RegistersRunning DEF RefInv
<1>8. ReadOf(state, regs, resume')
  <2> SUFFICES ASSUME NEW t \in TaskId
               PROVE  /\ state[t] = "host" => regs[t].ready = 0
                      /\ state[t] # "host" /\ (state[t] = "none" \/ resume'[t] # "take") =>
                           regs[t].ready = 0 /\ regs[t].hostCall = 0
    BY DEF ReadOf
  <2>1. CASE t = current
    BY <1>4, <1>7, <2>1
  <2>2. CASE t # current
    <3>1. ReadOf(state, RegistersNow, resume)
      BY <1>1 DEF RefInv, ReadInv
    <3>2. resume'[t] = resume[t] /\ regs[t] = RegistersNow[t]
      BY <1>1, <1>7, <2>2, RunningRef
    <3>3. QED
      BY <3>1, <3>2, Zenon DEF ReadOf
  <2>3. QED
    BY <2>1, <2>2
<1>9. ReadInv'
  BY <1>5, <1>6, <1>8, ReadStep
<1>10. ResultInv'
  BY <1>1, <1>5, ResultsKept
<1>11. Stage' = Stage /\ Mode' = Mode
  BY <1>1, <1>5, ShownNow, ShownThen
<1>12. Answered' = [Answered EXCEPT ![current] = 0] /\ Asked' = [Asked EXCEPT ![current] = 0]
  <2>1. Asked' = [t \in TaskId |-> regs[t].hostCall] /\ Answered' = [t \in TaskId |-> regs[t].ready]
    BY <1>5, <1>6, ShownThen
  <2>2. /\ Asked = [t \in TaskId |-> RegistersNow[t].hostCall]
        /\ Answered = [t \in TaskId |-> RegistersNow[t].ready]
    BY <1>1, ShownNow
  <2>3. /\ \A t \in TaskId : regs[t].hostCall = IF t = current THEN 0 ELSE RegistersNow[t].hostCall
        /\ \A t \in TaskId : regs[t].ready = IF t = current THEN 0 ELSE RegistersNow[t].ready
    BY <1>4, <1>7
  <2>4. QED
    BY <1>3, <2>1, <2>2, <2>3
<1>13. Answered[current] # 0 /\ Answered[current] = Asked[current]
  <2>1. vm.hostCall # 0 /\ vm.ready = vm.hostCall
    BY <1>1 DEF RefInv, IInv, TakesOwnResponse
  <2>2. Answered[current] = vm.ready /\ Asked[current] = vm.hostCall
    BY <1>1, <1>3, ShownNow
  <2>3. QED
    BY <2>1, <2>2
<1>14. Structured!Read(current)
  BY <1>1, <1>11, <1>12, <1>13, RunningRef DEF Structured!Read
<1>15. Implements
  BY <1>3, <1>14 DEF Implements, Structured!Next, TaskId, Structured!TaskId
<1>16. QED
  BY <1>9, <1>10, <1>15 DEF RefStep

(* A `par` of nothing, and the end of one whose children all finished. *)
LEMMA ParallelLocalRef ==
  ASSUME RefInv, ParallelEmpty \/ ParallelTake
  PROVE  RefStep
<1>1. /\ phase = "running"
      /\ resume[current] # "take"
      /\ results' = [results EXCEPT ![current] = <<>>]
      /\ UNCHANGED <<parent, index, outstanding, nextTask, nextCall>>
      /\ \A t \in TaskId : resume[t] = "take" => resume'[t] = "take"
  <2>1. phase = "running" /\ resume[current] \in {"step", "join"}
        /\ \E r : resume' = [resume EXCEPT ![current] = r]
    BY DEF ParallelEmpty, ParallelTake, Running
  <2>2. resume \in [TaskId -> {"step", "take", "join"}]
    BY <2>1, RunningRef
  <2>3. QED
    BY <2>1, <2>2 DEF ParallelEmpty, ParallelTake
<1>2. /\ vm \in Registers /\ current \in TaskId /\ current < nextTask
      /\ results \in [TaskId -> Seq(0..MaxTasks)] /\ Structured!Proceeds(current)
  BY <1>1, RunningRef
<1>3. Shows(state, Stopped(vm))
  BY ParallelLocalTrace DEF RefInv
<1>4. ReadInv' /\ Kept
  BY <1>1, <1>2, <1>3, KeepStep
<1>5. \A t \in TaskId : results'[t] = IF t = current THEN <<>> ELSE results[t]
  BY <1>1, <1>2
<1>6. ResultInv'
  <2>1. ResultsOf(state, parent', index', results')
    <3>1. ResultsOf(state, parent, index, results)
      BY DEF RefInv, ResultInv
    <3>2. DOMAIN <<>> = {}
      OBVIOUS
    <3>3. QED
      BY <1>1, <1>5, <3>1, <3>2 DEF ResultsOf
  <2>2. \A t \in TaskId : t >= nextTask' => results'[t] = <<>>
    BY <1>1, <1>5 DEF RefInv, ResultInv
  <2>3. QED
    BY <1>3, <2>1, <2>2, ResultStep
<1>7. CASE ParallelEmpty
  <2>1. nextTask \in 1..(MaxTasks + 1)
    BY DEF RefInv, IInv, TypeOK
  <2>2. nextTask .. nextTask + 0 - 1 = {} /\ nextTask + 0 - 1 <= MaxTasks
        /\ nextTask + 0 = nextTask
    BY <2>1, TasksAssumption
  <2>3. [i \in 1..0 |-> 0] = <<>>
    OBVIOUS
  <2>4. /\ Mode = [t \in TaskId |-> Mode[t]]
        /\ parent = [t \in TaskId |-> parent[t]]
        /\ index = [t \in TaskId |-> index[t]]
    BY DEF Mode, RefInv, IInv, TypeOK
  <2>5. Structured!Fork(current, 0)
    BY <1>1, <1>2, <1>4, <2>2, <2>3, <2>4
    DEF Structured!Fork, Kept, TaskId, Structured!TaskId
  <2>6. 0 \in 0..MaxTasks
    BY TasksAssumption
  <2>7. Implements
    BY <1>2, <2>5, <2>6 DEF Implements, Structured!Next, TaskId, Structured!TaskId
  <2>8. QED
    BY <1>4, <1>6, <2>7 DEF RefStep
<1>8. CASE ParallelTake
  <2>1. Kids(state, parent, current) = {}
    <3>1. state[current] \in {"running", "runnable"}
      BY <1>1, RunningFacts DEF RefInv
    <3>2. \A t \in TaskId : state[t] # "none" /\ parent[t] # 0 => state[parent[t]] = "children"
      BY DEF RefInv, IInv, TreeInv
    <3>3. current # 0
      BY <1>1, RunningRef
    <3>4. QED
      BY <3>1, <3>2, <3>3 DEF Kids
  <2>2. \A i \in DOMAIN results[current] : results[current][i] # 0
    <3>1. state[current] # "none"
      BY <1>1, RunningFacts DEF RefInv
    <3>2. QED
      BY <1>2, <2>1, <3>1 DEF RefInv, ResultInv, ResultsOf
  <2>3. Structured!Gather(current)
    BY <1>1, <1>2, <1>4, <2>2 DEF Structured!Gather, Kept
  <2>4. Implements
    BY <1>2, <2>3 DEF Implements, Structured!Next, TaskId, Structured!TaskId
  <2>5. QED
    BY <1>4, <1>6, <2>4 DEF RefStep
<1>9. QED
  BY <1>7, <1>8

(* The running task asks and waits. *)
LEMMA HostCallPendingRef ==
  ASSUME RefInv, HostCallPending
  PROVE  RefStep
<1>1. /\ phase = "running" /\ resume[current] = "step" /\ nextCall <= MaxCalls
      /\ nextCall' = nextCall + 1 /\ outstanding' = outstanding \cup {nextCall}
      /\ resume' = [resume EXCEPT ![current] = "take"]
      /\ UNCHANGED <<parent, index, results, nextTask>>
  BY DEF HostCallPending, Running, NextCallId
<1>2. /\ vm \in Registers /\ current \in TaskId /\ RegistersNow[current] = vm
      /\ vm.ready = 0 /\ vm.hostCall = 0 /\ Structured!Proceeds(current)
      /\ state \in [TaskId -> TaskStates]
      /\ resume \in [TaskId -> {"step", "take", "join"}]
  BY <1>1, RunningRef
<1>3. nextCall \in 0..MaxCalls
  BY <1>1, TasksAssumption DEF RefInv, IInv, TypeOK
<1>4. PICK v \in Registers : v = [vm EXCEPT !.hostCall = nextCall]
  BY <1>2, <1>3, RegisterUpdates
<1>5. v.hostCall = nextCall /\ v.ready = 0
  BY <1>2, <1>4 DEF Registers
<1>6. PICK st : st = [state EXCEPT ![current] = "host"]
  OBVIOUS
<1>7. \A t \in TaskId : st[t] = IF t = current THEN "host" ELSE state[t]
  BY <1>2, <1>6
<1>8. PICK regs : regs = Stopped(v)
  OBVIOUS
<1>9. Shows(st, regs)
  <2>1. Shows([state EXCEPT ![current] = "host"], Stopped([vm EXCEPT !.hostCall = nextCall]))
    BY HostCallPendingTrace DEF RefInv
  <2>2. QED
    BY <1>4, <1>6, <1>8, <2>1, Zenon
<1>10. \A t \in TaskId : regs[t] = IF t = current THEN v ELSE RegistersNow[t]
  BY <1>1, <1>8, RegistersRunning DEF RefInv
<1>11. ReadOf(st, regs, resume')
  <2> SUFFICES ASSUME NEW t \in TaskId
               PROVE  /\ st[t] = "host" => regs[t].ready = 0
                      /\ st[t] # "host" /\ (st[t] = "none" \/ resume'[t] # "take") =>
                           regs[t].ready = 0 /\ regs[t].hostCall = 0
    BY DEF ReadOf
  <2>1. CASE t = current
    BY <1>5, <1>7, <1>10, <2>1
  <2>2. CASE t # current
    <3>1. ReadOf(state, RegistersNow, resume)
      BY <1>1 DEF RefInv, ReadInv
    <3>2. resume'[t] = resume[t] /\ regs[t] = RegistersNow[t] /\ st[t] = state[t]
      BY <1>1, <1>2, <1>7, <1>10, <2>2
    <3>3. QED
      BY <3>1, <3>2, Zenon DEF ReadOf
  <2>3. QED
    BY <2>1, <2>2
<1>12. ReadInv'
  BY <1>9, <1>11, ReadStep
<1>13. ResultInv'
  <2>1. state[current] # "none"
    BY <1>1, RunningFacts DEF RefInv
  <2>2. \A t \in TaskId : st[t] = "none" <=> state[t] = "none"
    BY <1>7, <2>1
  <2>3. QED
    BY <1>1, <1>9, <2>2, ResultsKept
<1>14. /\ Stage' = "active" /\ Mode' = [t \in TaskId |-> ModeOf(st[t])]
       /\ Asked' = [t \in TaskId |-> regs[t].hostCall]
       /\ Answered' = [t \in TaskId |-> regs[t].ready]
  BY <1>9, ShownThen
<1>15. /\ Stage = "active" /\ Mode = [t \in TaskId |-> ModeOf(state[t])]
       /\ Asked = [t \in TaskId |-> RegistersNow[t].hostCall]
       /\ Answered = [t \in TaskId |-> RegistersNow[t].ready]
  BY <1>1, ShownNow
<1>16. Mode' = [Mode EXCEPT ![current] = "asking"]
  <2>1. \A t \in TaskId : ModeOf(st[t]) = IF t = current THEN "asking" ELSE ModeOf(state[t])
    BY <1>7 DEF ModeOf
  <2>2. QED
    BY <1>2, <1>14, <1>15, <2>1
<1>17. Asked' = [Asked EXCEPT ![current] = nextCall] /\ Answered' = Answered
  <2>1. /\ \A t \in TaskId : regs[t].hostCall = IF t = current THEN nextCall
                                               ELSE RegistersNow[t].hostCall
        /\ \A t \in TaskId : regs[t].ready = RegistersNow[t].ready
    BY <1>2, <1>5, <1>10
  <2>2. QED
    BY <1>2, <1>14, <1>15, <2>1
<1>18. Asked[current] = 0
  BY <1>2, <1>15
<1>19. Structured!Ask(current)
  BY <1>1, <1>2, <1>14, <1>15, <1>16, <1>17, <1>18 DEF Structured!Ask
<1>20. Implements
  BY <1>2, <1>19 DEF Implements, Structured!Next, TaskId, Structured!TaskId
<1>21. QED
  BY <1>12, <1>13, <1>20 DEF RefStep

(* The host answers the task that asked. *)
LEMMA ResumeRef ==
  ASSUME RefInv, NEW c \in outstanding, Resume(c)
  PROVE  RefStep
<1>1. /\ phase = "pending" /\ outstanding' = outstanding \ {c}
      /\ UNCHANGED <<resume, parent, index, results, nextTask, nextCall>>
  BY DEF Resume
<1>2. PICK w \in Waiters(c) : Shows(ResumedStates(w), ResumedRegisters(w, c))
  BY ResumeTrace DEF RefInv
<1>3. w \in TaskId /\ state[w] = "host" /\ saved[w].hostCall = c
  BY DEF Waiters, Live
<1>4. state \in [TaskId -> TaskStates] /\ saved \in [TaskId -> Registers]
  BY DEF RefInv, IInv, TypeOK
<1>5. RegistersNow = saved
  BY <1>1, RegistersPending DEF RefInv
<1>6. PICK st, regs : st = ResumedStates(w) /\ regs = ResumedRegisters(w, c)
  OBVIOUS
<1>7. Shows(st, regs)
  BY <1>2, <1>6
<1>8. \A t \in TaskId : st[t] = IF t = w THEN "runnable" ELSE state[t]
  BY <1>3, <1>4, <1>6 DEF ResumedStates
<1>9. /\ \A t \in TaskId : regs[t].ready = IF t = w THEN c ELSE saved[t].ready
      /\ \A t \in TaskId : regs[t].hostCall = saved[t].hostCall
  <2>1. \A t \in TaskId : regs[t] = IF t = w THEN [saved[w] EXCEPT !.ready = c] ELSE saved[t]
    BY <1>3, <1>4, <1>6 DEF ResumedRegisters
  <2>2. PICK r : r = [saved[w] EXCEPT !.ready = c]
    OBVIOUS
  <2>3. r.ready = c /\ r.hostCall = saved[w].hostCall
    BY <1>3, <1>4, <2>2 DEF Registers
  <2>4. QED
    BY <2>1, <2>2, <2>3
<1>10. ReadOf(st, regs, resume')
  <2> SUFFICES ASSUME NEW t \in TaskId
               PROVE  /\ st[t] = "host" => regs[t].ready = 0
                      /\ st[t] # "host" /\ (st[t] = "none" \/ resume'[t] # "take") =>
                           regs[t].ready = 0 /\ regs[t].hostCall = 0
    BY DEF ReadOf
  <2>1. CASE t = w
    <3>1. resume[t] = "take"
      <4>1. current = 0 /\ w # 0
        BY <1>1, <1>3 DEF RefInv, IInv, PhaseInv, TaskId
      <4>2. QED
        BY <1>3, <2>1, <4>1 DEF RefInv, IInv, ResumeInv
    <3>2. QED
      BY <1>1, <1>8, <2>1, <3>1
  <2>2. CASE t # w
    <3>1. ReadOf(state, saved, resume)
      BY <1>1, <1>5 DEF RefInv, ReadInv
    <3>2. /\ resume'[t] = resume[t] /\ st[t] = state[t]
          /\ regs[t].ready = saved[t].ready /\ regs[t].hostCall = saved[t].hostCall
      BY <1>1, <1>8, <1>9, <2>2
    <3>3. QED
      BY <3>1, <3>2, Zenon DEF ReadOf
  <2>3. QED
    BY <2>1, <2>2
<1>11. ReadInv'
  BY <1>7, <1>10, ReadStep
<1>12. ResultInv'
  <2>1. \A t \in TaskId : st[t] = "none" <=> state[t] = "none"
    BY <1>3, <1>8
  <2>2. QED
    BY <1>1, <1>7, <2>1, ResultsKept
<1>13. /\ Stage' = "active" /\ Mode' = [t \in TaskId |-> ModeOf(st[t])]
       /\ Asked' = [t \in TaskId |-> regs[t].hostCall]
       /\ Answered' = [t \in TaskId |-> regs[t].ready]
  BY <1>7, ShownThen
<1>14. /\ Stage = "active" /\ Mode = [t \in TaskId |-> ModeOf(state[t])]
       /\ Asked = [t \in TaskId |-> saved[t].hostCall]
       /\ Answered = [t \in TaskId |-> saved[t].ready]
  BY <1>1, <1>5, ShownNow
<1>15. Mode[w] = "asking" /\ Mode' = [Mode EXCEPT ![w] = "ready"]
  <2>1. \A t \in TaskId : ModeOf(st[t]) = IF t = w THEN "ready" ELSE ModeOf(state[t])
    BY <1>8 DEF ModeOf
  <2>2. ModeOf(state[w]) = "asking"
    BY <1>3 DEF ModeOf
  <2>3. QED
    BY <1>3, <1>13, <1>14, <2>1, <2>2
<1>16. /\ Asked[w] = c /\ Asked' = Asked
       /\ Answered' = [Answered EXCEPT ![w] = c]
  BY <1>3, <1>9, <1>13, <1>14
<1>17. Structured!Answer(w)
  BY <1>1, <1>13, <1>14, <1>15, <1>16 DEF Structured!Answer
<1>18. Implements
  BY <1>3, <1>17 DEF Implements, Structured!Next, TaskId, Structured!TaskId
<1>19. QED
  BY <1>11, <1>12, <1>18 DEF RefStep

(* The last child of a `par` is its parent's only one. *)
LEMMA LastChild ==
  ASSUME RefInv, phase = "running", NEW p, p = parent[current], p # 0
  PROVE  /\ p \in TaskId /\ p # current /\ state[p] = "children"
         /\ current \in Kids(state, parent, p)
         /\ WakesParent(p, LeftWaiting(p)) <=> Kids(state, parent, p) = {current}
<1>1. current \in TaskId /\ state[current] \in {"running", "runnable"}
  BY RunningFacts DEF RefInv
<1>2. p \in TaskId
  BY <1>1, ParentType DEF RefInv, IInv
<1>3. state[p] = "children" /\ current \in Kids(state, parent, p) /\ p # current
  BY <1>1 DEF RefInv, IInv, TreeInv, Kids
<1>4. PICK kids : kids = Kids(state, parent, p)
  OBVIOUS
<1>5. waiting[p] = Cardinality(kids) /\ IsFiniteSet(kids) /\ Cardinality(kids) \in Nat
  <2>1. waiting[p] = Cardinality(Kids(state, parent, p))
    BY <1>2, <1>3 DEF RefInv, IInv, JoinInv
  <2>2. QED
    BY <1>4, <2>1, KidsFinite
<1>6. current \in kids
  BY <1>3, <1>4
<1>7. /\ IsFiniteSet(kids \ {current})
      /\ Cardinality(kids \ {current}) = Cardinality(kids) - 1
      /\ Cardinality(kids \ {current}) = 0 <=> kids \ {current} = {}
      /\ Cardinality(kids \ {current}) \in Nat
  <2>1. IsFiniteSet(kids \ {current})
        /\ Cardinality(kids \ {current}) = Cardinality(kids) - 1
    BY <1>5, <1>6, FS_RemoveElement
  <2>2. QED
    BY <2>1, FS_EmptySet, FS_CardinalityType
<1>8. LeftWaiting(p) = Cardinality(kids \ {current})
  BY <1>5, <1>7 DEF LeftWaiting
<1>9. LeftWaiting(p) = 0 <=> kids = {current}
  <2>1. kids \ {current} = {} <=> kids = {current}
    BY <1>6
  <2>2. QED
    BY <1>7, <1>8, <2>1
<1>10. QED
  BY <1>2, <1>3, <1>4, <1>9 DEF WakesParent

(* The running child finishes and fills its element. *)
LEMMA CompleteChildRef ==
  ASSUME RefInv, CompleteChild
  PROVE  RefStep
<1>1. PICK p : p = parent[current]
  OBVIOUS
<1>2. /\ phase = "running" /\ resume[current] = "step" /\ p # 0
      /\ results' = [results EXCEPT ![p][Element(current)] = current]
      /\ UNCHANGED <<resume, parent, index, outstanding, nextTask, nextCall>>
  BY <1>1 DEF CompleteChild, Running
<1>3. PICK kids : kids = Kids(state, parent, p)
  OBVIOUS
<1>4. /\ p \in TaskId /\ p # current /\ state[p] = "children" /\ current \in kids
      /\ WakesParent(p, LeftWaiting(p)) <=> kids = {current}
  BY <1>1, <1>2, <1>3, LastChild
<1>5. /\ current \in TaskId /\ current # 0 /\ Structured!Proceeds(current)
      /\ state \in [TaskId -> TaskStates] /\ results \in [TaskId -> Seq(0..MaxTasks)]
      /\ state[current] # "none"
  BY <1>2, RunningRef, RunningFacts DEF RefInv
<1>6. PICK st, regs : st = Completed /\ regs = Stopped(NoRegisters)
  OBVIOUS
<1>7. Shows(st, regs)
  BY <1>6, CompleteChildTrace DEF RefInv
<1>8. \A t \in TaskId : st[t] = IF t = current THEN "none"
                               ELSE IF t = p /\ kids = {current} THEN "runnable"
                               ELSE state[t]
  BY <1>1, <1>4, <1>6 DEF Completed
<1>9. \A t \in TaskId : regs[t] = IF t = current THEN NoRegisters ELSE RegistersNow[t]
  BY <1>2, <1>6, RegistersRunning DEF RefInv
<1>10. NoRegisters.ready = 0 /\ NoRegisters.hostCall = 0
  BY DEF NoRegisters
<1>11. ReadOf(st, regs, resume')
  <2> SUFFICES ASSUME NEW t \in TaskId
               PROVE  /\ st[t] = "host" => regs[t].ready = 0
                      /\ st[t] # "host" /\ (st[t] = "none" \/ resume'[t] # "take") =>
                           regs[t].ready = 0 /\ regs[t].hostCall = 0
    BY DEF ReadOf
  <2>1. CASE t = current
    BY <1>9, <1>10, <2>1
  <2>2. CASE t # current
    <3>1. ReadOf(state, RegistersNow, resume)
      BY <1>2 DEF RefInv, ReadInv
    <3>2. resume'[t] = resume[t] /\ regs[t] = RegistersNow[t]
      BY <1>2, <1>9, <2>2
    <3>3. CASE t = p
      <4>1. resume[p] = "join"
        BY <1>4 DEF RefInv, IInv, ResumeInv
      <4>2. regs[t].ready = 0 /\ regs[t].hostCall = 0
        BY <1>4, <3>1, <3>2, <3>3, <4>1 DEF ReadOf
      <4>3. QED
        BY <4>2
    <3>4. CASE t # p
      <4>1. st[t] = state[t]
        BY <1>8, <2>2, <3>4
      <4>2. QED
        BY <3>1, <3>2, <4>1, Zenon DEF ReadOf
    <3>5. QED
      BY <3>3, <3>4
  <2>3. QED
    BY <2>1, <2>2
<1>12. ReadInv'
  BY <1>7, <1>11, ReadStep
<1>13. \A q \in TaskId : q # p => results'[q] = results[q]
  BY <1>2, <1>4, <1>5
<1>14. /\ DOMAIN results'[p] = DOMAIN results[p]
       /\ \A i \in DOMAIN results[p] :
            results'[p][i] = IF i = index[current] + 1 THEN current ELSE results[p][i]
  <2>1. PICK old : old = results[p]
    OBVIOUS
  <2>2. results'[p] = [old EXCEPT ![Element(current)] = current]
    BY <1>2, <1>4, <1>5, <2>1
  <2>3. old \in Seq(0..MaxTasks)
    BY <1>4, <1>5, <2>1
  <2>4. QED
    BY <2>1, <2>2, <2>3 DEF Element
<1>15. ResultsOf(st, parent', index', results')
  <2> SUFFICES ASSUME NEW q \in TaskId, st[q] # "none", NEW i \in DOMAIN results'[q]
               PROVE  results'[q][i] # 0 \/ \E k \in Kids(st, parent', q) : index'[k] + 1 = i
    BY DEF ResultsOf
  <2>1. state[q] # "none" /\ i \in DOMAIN results[q]
    BY <1>4, <1>8, <1>13, <1>14
  <2>2. results[q][i] # 0 \/ \E k \in Kids(state, parent, q) : index[k] + 1 = i
    BY <2>1 DEF RefInv, ResultInv, ResultsOf
  <2>3. \A k \in Kids(state, parent, q) : k # current => k \in Kids(st, parent', q)
    BY <1>2, <1>8 DEF Kids
  <2>4. CASE q = p
    BY <1>2, <1>5, <1>14, <2>1, <2>2, <2>3, <2>4
  <2>5. CASE q # p
    <3>1. current \notin Kids(state, parent, q)
      BY <1>1, <2>5 DEF Kids
    <3>2. results'[q] = results[q]
      BY <1>13, <2>5
    <3>3. QED
      BY <1>2, <2>2, <2>3, <3>1, <3>2
  <2>6. QED
    BY <2>4, <2>5
<1>16. ResultInv'
  <2>1. p < nextTask
    BY <1>4 DEF RefInv, IInv, TreeInv
  <2>2. \A t \in TaskId : t >= nextTask => t # p
    BY <1>4, <2>1 DEF TaskId, RefInv, IInv, TypeOK
  <2>3. \A t \in TaskId : t >= nextTask' => results'[t] = <<>>
    BY <1>2, <1>13, <2>2 DEF RefInv, ResultInv
  <2>4. QED
    BY <1>7, <1>15, <2>3, ResultStep
<1>17. /\ Stage' = "active" /\ Mode' = [t \in TaskId |-> ModeOf(st[t])]
       /\ Asked' = [t \in TaskId |-> regs[t].hostCall]
       /\ Answered' = [t \in TaskId |-> regs[t].ready]
  BY <1>7, ShownThen
<1>18. /\ Stage = "active" /\ Mode = [t \in TaskId |-> ModeOf(state[t])]
       /\ Asked = [t \in TaskId |-> RegistersNow[t].hostCall]
       /\ Answered = [t \in TaskId |-> RegistersNow[t].ready]
  BY <1>2, ShownNow
<1>19. Structured!Children(p) = kids
  BY <1>3, <1>18 DEF Structured!Children, Kids, ModeOf, TaskId, Structured!TaskId
<1>20. Mode[p] = "joining"
  BY <1>4, <1>18 DEF ModeOf
<1>21. Mode' = [Mode EXCEPT ![current] = "none",
                            ![p] = IF kids = {current} THEN "ready" ELSE "joining"]
  <2>1. \A t \in TaskId : ModeOf(st[t]) =
          IF t = p THEN IF kids = {current} THEN "ready" ELSE "joining"
          ELSE IF t = current THEN "none" ELSE ModeOf(state[t])
    <3>1. CASE kids = {current}
      BY <1>4, <1>8, <3>1 DEF ModeOf
    <3>2. CASE kids # {current}
      BY <1>4, <1>8, <3>2 DEF ModeOf
    <3>3. QED
      BY <3>1, <3>2
  <2>2. QED
    BY <1>4, <1>5, <1>17, <1>18, <2>1
<1>22. Asked' = [Asked EXCEPT ![current] = 0] /\ Answered' = [Answered EXCEPT ![current] = 0]
  <2>1. /\ \A t \in TaskId : regs[t].hostCall = IF t = current THEN 0
                                               ELSE RegistersNow[t].hostCall
        /\ \A t \in TaskId : regs[t].ready = IF t = current THEN 0 ELSE RegistersNow[t].ready
    BY <1>9, <1>10
  <2>2. QED
    BY <1>5, <1>17, <1>18, <2>1
<1>23. Structured!Finish(current)
  <2>1. results' = [results EXCEPT ![p][index[current] + 1] = current]
    BY <1>2 DEF Element
  <2>2. QED
    BY <1>1, <1>2, <1>5, <1>17, <1>18, <1>19, <1>20, <1>21, <1>22, <2>1, Zenon
    DEF Structured!Finish
<1>24. Implements
  BY <1>5, <1>23 DEF Implements, Structured!Next, TaskId, Structured!TaskId
<1>25. QED
  BY <1>12, <1>16, <1>24 DEF RefStep

(* The running task forks n children. *)
LEMMA ParallelStartRef ==
  ASSUME RefInv, NEW n \in 1..MaxTasks, ParallelStart(n)
  PROVE  RefStep
<1>1. /\ phase = "running" /\ resume[current] = "step"
      /\ nextTask + n - 1 <= MaxTasks
      /\ nextTask' = nextTask + n
      /\ parent' = [t \in TaskId |-> IF t \in Forked(n) THEN current ELSE parent[t]]
      /\ index' = [t \in TaskId |-> IF t \in Forked(n) THEN t - nextTask ELSE index[t]]
      /\ results' = [results EXCEPT ![current] = [i \in 1..n |-> 0]]
      /\ resume' = [resume EXCEPT ![current] = "join"]
      /\ UNCHANGED <<outstanding, nextCall>>
  BY Zenon DEF ParallelStart, Running, Forked
<1>2. /\ current \in TaskId /\ current < nextTask /\ Structured!Proceeds(current)
      /\ RegistersNow[current] = vm /\ vm.ready = 0 /\ vm.hostCall = 0
      /\ results \in [TaskId -> Seq(0..MaxTasks)]
      /\ resume \in [TaskId -> {"step", "take", "join"}]
  BY <1>1, RunningRef
<1>3. /\ nextTask \in Nat /\ nextTask > 0 /\ n \in Nat /\ n > 0
      /\ \A t \in TaskId : state[t] # "none" => t < nextTask
      /\ \A t \in TaskId : t >= nextTask => state[t] = "none" /\ resume[t] = "step"
      /\ \A t \in TaskId : t \in Forked(n) <=> t >= nextTask /\ t < nextTask + n
      /\ \A t \in TaskId : t \in Nat
  BY TasksAssumption DEF RefInv, IInv, TypeOK, TreeInv, FreshInv, Forked, TaskId
<1>4. current \notin Forked(n)
  BY <1>2, <1>3
<1>5. PICK st, regs : st = ForkedStates(n) /\ regs = ForkedRegisters(n)
  OBVIOUS
<1>6. Shows(st, regs)
  BY <1>5, ParallelStartTrace DEF RefInv
<1>7. \A t \in TaskId : st[t] = IF t \in Forked(n) THEN "runnable"
                               ELSE IF t = current THEN "children" ELSE state[t]
  BY <1>5 DEF ForkedStates
<1>8. PICK new : new = TaskRegisters(<<Untraced>>)
  OBVIOUS
<1>9. new.ready = 0 /\ new.hostCall = 0
  BY <1>8 DEF TaskRegisters
<1>10. \A t \in TaskId : regs[t] = IF t \in Forked(n) THEN new ELSE RegistersNow[t]
  <2>1. RegistersNow = Stopped(vm)
    BY <1>1, RegistersRunning DEF RefInv
  <2>2. QED
    BY <1>5, <1>8, <2>1 DEF ForkedRegisters
<1>11. ReadOf(state, RegistersNow, resume)
  BY <1>1 DEF RefInv, ReadInv
<1>12. ReadOf(st, regs, resume')
  <2> SUFFICES ASSUME NEW t \in TaskId
               PROVE  /\ st[t] = "host" => regs[t].ready = 0
                      /\ st[t] # "host" /\ (st[t] = "none" \/ resume'[t] # "take") =>
                           regs[t].ready = 0 /\ regs[t].hostCall = 0
    BY DEF ReadOf
  <2>1. CASE t \in Forked(n)
    BY <1>9, <1>10, <2>1
  <2>2. CASE t = current
    BY <1>2, <1>4, <1>10, <2>2
  <2>3. CASE t \notin Forked(n) /\ t # current
    <3>1. st[t] = state[t] /\ resume'[t] = resume[t] /\ regs[t] = RegistersNow[t]
      BY <1>1, <1>2, <1>7, <1>10, <2>3
    <3>2. QED
      BY <1>11, <3>1, Zenon DEF ReadOf
  <2>4. QED
    BY <2>1, <2>2, <2>3
<1>13. ReadInv'
  BY <1>6, <1>12, ReadStep
<1>14. /\ \A t \in TaskId : t # current => results'[t] = results[t]
       /\ results'[current] = [i \in 1..n |-> 0]
  BY <1>1, <1>2
<1>15. ResultsOf(st, parent', index', results')
  <2> SUFFICES ASSUME NEW p \in TaskId, st[p] # "none", NEW i \in DOMAIN results'[p]
               PROVE  results'[p][i] # 0 \/ \E k \in Kids(st, parent', p) : index'[k] + 1 = i
    BY DEF ResultsOf
  <2>1. CASE p = current
    <3>1. i \in 1..n
      BY <1>14, <2>1
    <3>2. PICK k : k = nextTask + i - 1
      OBVIOUS
    <3>3. k \in TaskId /\ k \in Forked(n) /\ k - nextTask + 1 = i
      <4>1. i \in Nat /\ i > 0 /\ i <= n
        BY <1>3, <3>1
      <4>2. k \in Nat /\ k > 0 /\ k <= MaxTasks /\ k >= nextTask /\ k < nextTask + n
            /\ k - nextTask + 1 = i
        BY <1>1, <1>3, <3>2, <4>1, TasksAssumption
      <4>3. k \in TaskId
        BY <4>2, TasksAssumption DEF TaskId
      <4>4. QED
        BY <1>3, <4>2, <4>3
    <3>4. k \in Kids(st, parent', p)
      BY <1>1, <1>7, <2>1, <3>3 DEF Kids
    <3>5. index'[k] + 1 = i
      BY <1>1, <3>3
    <3>6. QED
      BY <3>4, <3>5
  <2>2. CASE p \in Forked(n)
    <3>1. results'[p] = <<>>
      BY <1>3, <1>4, <1>14, <2>2 DEF RefInv, ResultInv
    <3>2. QED
      BY <3>1
  <2>3. CASE p \notin Forked(n) /\ p # current
    <3>1. st[p] = state[p] /\ results'[p] = results[p]
      BY <1>7, <1>14, <2>3
    <3>2. results[p][i] # 0 \/ \E k \in Kids(state, parent, p) : index[k] + 1 = i
      BY <3>1 DEF RefInv, ResultInv, ResultsOf
    <3>3. \A k \in Kids(state, parent, p) : k \in Kids(st, parent', p) /\ index'[k] = index[k]
      <4>1. \A k \in Kids(state, parent, p) : k \in TaskId /\ k \notin Forked(n)
        BY <1>3 DEF Kids
      <4>2. QED
        BY <1>1, <1>7, <4>1 DEF Kids
    <3>4. QED
      BY <3>1, <3>2, <3>3
  <2>4. QED
    BY <2>1, <2>2, <2>3
<1>16. ResultInv'
  <2>1. \A t \in TaskId : t >= nextTask' => t >= nextTask /\ t # current
    BY <1>1, <1>2, <1>3
  <2>2. \A t \in TaskId : t >= nextTask' => results'[t] = <<>>
    BY <1>14, <2>1 DEF RefInv, ResultInv
  <2>3. QED
    BY <1>6, <1>15, <2>2, ResultStep
<1>17. /\ Stage' = "active" /\ Mode' = [t \in TaskId |-> ModeOf(st[t])]
       /\ Asked' = [t \in TaskId |-> regs[t].hostCall]
       /\ Answered' = [t \in TaskId |-> regs[t].ready]
  BY <1>6, ShownThen
<1>18. /\ Stage = "active" /\ Mode = [t \in TaskId |-> ModeOf(state[t])]
       /\ Asked = [t \in TaskId |-> RegistersNow[t].hostCall]
       /\ Answered = [t \in TaskId |-> RegistersNow[t].ready]
  BY <1>1, ShownNow
<1>19. Mode' = [t \in TaskId |-> IF t \in Forked(n) THEN "ready"
                                ELSE IF t = current /\ n > 0 THEN "joining" ELSE Mode[t]]
  <2>1. \A t \in TaskId : ModeOf(st[t]) =
          IF t \in Forked(n) THEN "ready"
          ELSE IF t = current THEN "joining" ELSE ModeOf(state[t])
    BY <1>7 DEF ModeOf
  <2>2. QED
    BY <1>3, <1>17, <1>18, <2>1
<1>20. Asked' = Asked /\ Answered' = Answered
  <2>1. \A t \in Forked(n) : t \in TaskId =>
          RegistersNow[t].ready = 0 /\ RegistersNow[t].hostCall = 0
    BY <1>3, <1>11 DEF ReadOf
  <2>2. \A t \in TaskId : /\ regs[t].hostCall = RegistersNow[t].hostCall
                          /\ regs[t].ready = RegistersNow[t].ready
    BY <1>9, <1>10, <2>1
  <2>3. QED
    BY <1>17, <1>18, <2>2
<1>21. Structured!Fork(current, n)
  <2>1. Forked(n) = nextTask .. nextTask + n - 1 /\ TaskId = Structured!TaskId
    BY DEF Forked, TaskId, Structured!TaskId
  <2>2. PICK S : S = Forked(n)
    OBVIOUS
  <2>3. /\ Mode' = [t \in TaskId |-> IF t \in S THEN "ready"
                                    ELSE IF t = current /\ n > 0 THEN "joining" ELSE Mode[t]]
        /\ parent' = [t \in TaskId |-> IF t \in S THEN current ELSE parent[t]]
        /\ index' = [t \in TaskId |-> IF t \in S THEN t - nextTask ELSE index[t]]
        /\ S = nextTask .. nextTask + n - 1
    BY <1>1, <1>19, <2>1, <2>2, Zenon
  <2>4. QED
    BY <1>1, <1>2, <1>17, <1>18, <1>20, <2>1, <2>3, Zenon DEF Structured!Fork
<1>22. n \in 0..MaxTasks
  OBVIOUS
<1>23. Implements
  BY <1>2, <1>21, <1>22 DEF Implements, Structured!Next, TaskId, Structured!TaskId
<1>24. QED
  BY <1>13, <1>16, <1>23 DEF RefStep

(* The first task begins. *)
LEMMA StartRef ==
  ASSUME RefInv, Start
  PROVE  RefStep
<1>1. /\ phase = "idle" /\ nextTask' = 2
      /\ UNCHANGED <<resume, parent, index, results, outstanding, nextCall>>
  BY DEF Start, Root
<1>2. /\ Root \in TaskId /\ Root \in 0..MaxTasks /\ nextTask = 1
      /\ \A t \in TaskId : state[t] = "none" /\ resume[t] = "step" /\ t >= nextTask
      /\ state \in [TaskId -> TaskStates] /\ saved \in [TaskId -> Registers]
  BY <1>1, TasksAssumption DEF RefInv, IInv, TypeOK, PhaseInv, FreshInv, TaskId, Root
<1>3. PICK r : r = TaskRegisters(<<Root>>)
  OBVIOUS
<1>4. r.ready = 0 /\ r.hostCall = 0
  BY <1>3 DEF TaskRegisters
<1>5. PICK st, regs : st = [state EXCEPT ![Root] = "runnable"] /\ regs = StartedRegisters
  OBVIOUS
<1>6. Shows(st, regs)
  BY <1>5, StartTrace DEF RefInv
<1>7. \A t \in TaskId : /\ st[t] = IF t = Root THEN "runnable" ELSE "none"
                        /\ regs[t] = IF t = Root THEN r ELSE saved[t]
  BY <1>2, <1>3, <1>5 DEF StartedRegisters
<1>8. \A t \in TaskId : saved[t].ready = 0 /\ saved[t].hostCall = 0
  <2>1. ReadOf(state, RegistersNow, resume)
    BY <1>1 DEF RefInv, ReadInv
  <2>2. RegistersNow = saved
    BY <1>1, RegistersPending DEF RefInv
  <2>3. QED
    BY <1>2, <2>1, <2>2 DEF ReadOf
<1>9. \A t \in TaskId : regs[t].ready = 0 /\ regs[t].hostCall = 0
  BY <1>4, <1>7, <1>8
<1>10. ReadInv'
  <2>1. ReadOf(st, regs, resume')
    BY <1>9 DEF ReadOf
  <2>2. QED
    BY <1>6, <2>1, ReadStep
<1>11. ResultInv'
  <2>1. \A t \in TaskId : results'[t] = <<>>
    BY <1>1, <1>2 DEF RefInv, ResultInv
  <2>2. ResultsOf(st, parent', index', results')
    BY <2>1 DEF ResultsOf
  <2>3. QED
    BY <1>6, <2>1, <2>2, ResultStep
<1>12. Stage' = "active" /\ Mode' = [t \in TaskId |-> ModeOf(st[t])]
       /\ Asked' = [t \in TaskId |-> regs[t].hostCall]
       /\ Answered' = [t \in TaskId |-> regs[t].ready]
  BY <1>6, ShownThen
<1>13. Stage = "new" /\ Mode = [t \in TaskId |-> "none"]
  BY <1>1, <1>2 DEF Stage, Mode
<1>14. Asked = [t \in TaskId |-> 0] /\ Answered = [t \in TaskId |-> 0]
  <2>1. RegistersNow = saved
    BY <1>1, RegistersPending DEF RefInv
  <2>2. \A t \in TaskId : Register(t).hostCall = 0 /\ Register(t).ready = 0
    BY <1>8, <2>1 DEF RegistersNow
  <2>3. QED
    BY <1>1, <2>2 DEF Asked, Answered
<1>15. Mode' = [Mode EXCEPT ![1] = "ready"]
  <2>1. \A t \in TaskId : ModeOf(st[t]) = IF t = 1 THEN "ready" ELSE "none"
    BY <1>7 DEF ModeOf, Root
  <2>2. QED
    BY <1>2, <1>12, <1>13, <2>1 DEF Root
<1>16. Asked' = Asked /\ Answered' = Answered
  BY <1>9, <1>12, <1>14
<1>17. Structured!Begin
  BY <1>1, <1>12, <1>13, <1>15, <1>16 DEF Structured!Begin
<1>18. QED
  BY <1>10, <1>11, <1>17 DEF RefStep, Implements, Structured!Next

(* The execution ends. *)
LEMMA EndRef ==
  ASSUME RefInv, StartArityError \/ Trap \/ Complete \/ Cancel
  PROVE  RefStep
<1>1. /\ phase \in {"idle", "running", "pending"} /\ phase' \in Ended
      /\ UNCHANGED <<resume, parent, index, results, outstanding, nextTask, nextCall>>
  BY DEF StartArityError, Trap, Complete, Cancel, EndTasks, Running, Ended
<1>2. \/ phase' = "trapped" /\ UNCHANGED state
      \/ /\ phase' # "trapped"
         /\ \A t \in TaskId : /\ state'[t] = "none"
                              /\ Register(t)'.ready = 0 /\ Register(t)'.hostCall = 0
  <2>1. CASE StartArityError
    <3>1. /\ phase = "idle" /\ phase' = "complete"
          /\ UNCHANGED <<state, vm, saved, current>>
      BY <2>1 DEF StartArityError
    <3>2. ReadOf(state, RegistersNow, resume) /\ \A t \in TaskId : state[t] = "none"
      BY <3>1 DEF RefInv, ReadInv, IInv, PhaseInv
    <3>3. \A t \in TaskId : RegistersNow[t].ready = 0 /\ RegistersNow[t].hostCall = 0
      BY <3>2 DEF ReadOf
    <3>4. \A t \in TaskId : RegistersNow[t] = Register(t)
      BY DEF RegistersNow
    <3>5. \A t \in TaskId : Register(t)' = Register(t)
      BY <3>1 DEF Register
    <3>6. QED
      BY <3>1, <3>2, <3>3, <3>4, <3>5
  <2>2. CASE Trap
    BY <2>2 DEF Trap
  <2>3. CASE Complete \/ Cancel
    <3>1. /\ phase' # "trapped" /\ current' = 0
          /\ state' = [t \in TaskId |-> "none"] /\ saved' = [t \in TaskId |-> NoRegisters]
      BY <2>3 DEF Complete, Cancel, EndTasks
    <3>2. 0 \notin TaskId
      BY DEF TaskId
    <3>3. NoRegisters.ready = 0 /\ NoRegisters.hostCall = 0
      BY DEF NoRegisters
    <3>4. \A t \in TaskId : Register(t)' = NoRegisters
      BY <3>1, <3>2 DEF Register
    <3>5. QED
      BY <3>1, <3>3, <3>4
  <2>4. QED
    BY <2>1, <2>2, <2>3
<1>3. ReadInv'
  <2>1. CASE phase' = "trapped"
    BY <2>1 DEF ReadInv
  <2>2. CASE phase' # "trapped"
    <3>1. PICK now : now = RegistersNow'
      OBVIOUS
    <3>2. \A t \in TaskId : now[t].ready = 0 /\ now[t].hostCall = 0
      BY <1>2, <2>2, <3>1 DEF RegistersNow
    <3>3. ReadOf(state', now, resume')
      BY <3>2 DEF ReadOf
    <3>4. QED
      BY <3>1, <3>3, Zenon DEF ReadInv
  <2>3. QED
    BY <2>1, <2>2
<1>4. ResultInv'
  <2>1. ResultsOf(state', parent', index', results')
    <3>1. CASE state' = state
      BY <1>1, <3>1, Zenon DEF RefInv, ResultInv
    <3>2. CASE \A t \in TaskId : state'[t] = "none"
      BY <3>2 DEF ResultsOf
    <3>3. QED
      BY <1>2, <3>1, <3>2
  <2>2. \A t \in TaskId : t >= nextTask' => results'[t] = <<>>
    BY <1>1 DEF RefInv, ResultInv
  <2>3. QED
    BY <2>1, <2>2, Zenon DEF ResultInv
<1>5. Stage # "over" /\ Stage' = "over"
  BY <1>1 DEF Stage, Ended
<1>6. Mode' = [t \in TaskId |-> "none"]
  BY <1>2 DEF Mode
<1>7. Asked' = [t \in TaskId |-> 0] /\ Answered' = [t \in TaskId |-> 0]
  BY <1>2 DEF Asked, Answered
<1>8. Structured!Over
  BY <1>1, <1>5, <1>6, <1>7 DEF Structured!Over, TaskId, Structured!TaskId
<1>9. QED
  BY <1>3, <1>4, <1>8 DEF RefStep, Implements, Structured!Next

(* A step that changes nothing. *)
LEMMA UnchangedRef ==
  ASSUME RefInv, UNCHANGED vars
  PROVE  RefStep
<1>1. UNCHANGED <<phase, current, vm, state, saved, resume, parent, index, results,
                  outstanding, nextTask, nextCall>>
  BY DEF vars
<1>2. RegistersNow' = RegistersNow
  BY <1>1 DEF RegistersNow, Register
<1>3. ReadInv' /\ ResultInv'
  BY <1>1, <1>2 DEF RefInv, ReadInv, ResultInv, ReadOf, ResultsOf, Kids
<1>4. UNCHANGED <<Stage, Mode, Asked, Answered>>
  BY <1>1 DEF Stage, Mode, Asked, Answered, Register
<1>5. QED
  BY <1>1, <1>3, <1>4 DEF RefStep, Implements, Structured!vars

(* The first state shows the first state of the structured tasks. *)
LEMMA RefInit == Init => ReadInv /\ ResultInv /\ Structured!Init
<1> SUFFICES ASSUME Init
             PROVE  ReadInv /\ ResultInv /\ Structured!Init
  OBVIOUS
<1>1. /\ phase = "idle" /\ current = 0
      /\ state = [t \in TaskId |-> "none"] /\ saved = [t \in TaskId |-> NoRegisters]
      /\ results = [t \in TaskId |-> <<>>]
  BY DEF Init
<1>2. \A t \in TaskId : Register(t).ready = 0 /\ Register(t).hostCall = 0
  <2>1. \A t \in TaskId : Register(t) = NoRegisters
    BY <1>1 DEF Register, TaskId
  <2>2. NoRegisters.ready = 0 /\ NoRegisters.hostCall = 0
    BY DEF NoRegisters
  <2>3. QED
    BY <2>1, <2>2
<1>3. ReadInv
  <2>1. \A t \in TaskId : RegistersNow[t].ready = 0 /\ RegistersNow[t].hostCall = 0
    BY <1>2 DEF RegistersNow
  <2>2. QED
    BY <2>1 DEF ReadInv, ReadOf
<1>4. ResultInv
  BY <1>1 DEF ResultInv, ResultsOf
<1>5. Stage = "new" /\ Mode = [t \in TaskId |-> "none"]
  BY <1>1 DEF Stage, Mode
<1>6. Asked = [t \in TaskId |-> 0] /\ Answered = [t \in TaskId |-> 0]
  BY <1>1, <1>2 DEF Asked, Answered
<1>7. Structured!Init
  BY <1>5, <1>6 DEF Init, Structured!Init, TaskId, Structured!TaskId
<1>8. QED
  BY <1>3, <1>4, <1>7

(* Every step shows a step of the structured tasks, or none. *)
LEMMA RefNext ==
  ASSUME RefInv, [Next]_vars
  PROVE  RefInv' /\ Implements
<1>1. RefStep
  <2>1. CASE LoopCheckpoint \/ Call \/ Return
    BY <2>1, LocalRef
  <2>2. CASE CompleteChild \/ HostCallReady \/ HostCallPending \/ HostCallTake
    BY <2>2, CompleteChildRef, HostCallReadyRef, HostCallPendingRef, HostCallTakeRef
  <2>3. CASE ParallelEmpty \/ ParallelTake
    BY <2>3, ParallelLocalRef
  <2>4. CASE \E n \in 1..MaxTasks : ParallelStart(n)
    BY <2>4, ParallelStartRef
  <2>5. CASE \E c \in outstanding : Resume(c)
    BY <2>5, ResumeRef
  <2>6. CASE Start
    BY <2>6, StartRef
  <2>7. CASE StartArityError \/ Trap \/ Complete \/ Cancel
    BY <2>7, EndRef
  <2>8. CASE Terminated \/ UNCHANGED vars
    BY <2>8, UnchangedRef DEF Terminated
  <2>9. QED
    BY <2>1, <2>2, <2>3, <2>4, <2>5, <2>6, <2>7, <2>8 DEF Next, GuestStep
<1>2. IInv' /\ TraceInv'
  BY NextInv, TraceNext DEF RefInv
<1>3. QED
  BY <1>1, <1>2 DEF RefInv, RefStep

(* ImplementsStructuredTasks: the scheduler with its run queue, saved      *)
(* registers and counters implements tasks that all proceed on their own:  *)
(* each is answered its own question, a `par` goes on when its last child  *)
(* finished and then finds every result in the order of the closures, and  *)
(* the end of an execution ends every task. *)
THEOREM TasksImplementStructuredTasks == Spec => ImplementsStructuredTasks
<1>1. Init => RefInv /\ Structured!Init
  BY InitInv, TraceInit, RefInit DEF RefInv
<1>2. RefInv /\ [Next]_vars => RefInv' /\ [Structured!Next]_(Structured!vars)
  BY RefNext DEF Implements
<1>3. QED
  BY <1>1, <1>2, PTL DEF Spec, ImplementsStructuredTasks, Structured!Spec
==============================================================================
