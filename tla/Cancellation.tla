----------------------------- MODULE Cancellation -----------------------------
(***************************************************************************)
(* The waiting of executions for host futures: the cancellation control    *)
(* and CancellableHostFuture of exs-runner (cancellation.rs) under the     *)
(* poll_fn of execute_with (lib.rs) and the deadline (deadline.rs).        *)
(*                                                                         *)
(* Several executions share one control.  Each is polled by an executor    *)
(* thread, another thread cancels, and host operations and the timer       *)
(* complete on threads of their own.  Every critical section of the        *)
(* control's mutex is one step, so that they interleave as the code does.  *)
(*                                                                         *)
(* An executor may poll an execution with another waker each time, and a   *)
(* wake-up only counts on the waker of the last poll: that is all the      *)
(* contract of a Rust future promises.                                     *)
(***************************************************************************)
EXTENDS Integers, Sequences, FiniteSets

CONSTANTS
  Execution,    \* the executions that share the control
  Future,       \* the host futures, numbered
  Owner,        \* the execution that waits for each future
  Waker,        \* the wakers an executor polls an execution with
  Timeout,      \* ExecutionDeadline.timeout, the executions start at 0
  LastInstant,  \* the last instant std::time::Instant can represent
  MaxTime       \* bound of the model: the clock stops there

ASSUME CancellationAssumption ==
  /\ Future \subseteq Nat \ {0} /\ IsFiniteSet(Future)
  /\ Owner \in [Future -> Execution] /\ \A e \in Execution : \E f \in Future : Owner[f] = e
  /\ Waker \subseteq Nat \ {0} /\ Waker # {}
  /\ Timeout \in Nat \ {0}
  /\ LastInstant \in Nat
  /\ MaxTime \in Nat

VARIABLES
  stage,         \* "idle", "polling", "dropping" or "over" for each execution
  outcome,       \* why an execution ended
  woken,         \* whether the executor has been asked to poll the execution
  context,       \* the waker of its last poll, 0 before the first
  current,       \* the future it polls
  step,          \* the step of CancellableHostFuture::poll it takes next
  live,          \* the futures not yet completed or dropped
  registration,  \* CancellableHostFuture.registration, 0 for None
  cancelled,     \* CancellationState.cancelled
  nextWaker,     \* CancellationState.next_waker_id
  wakers,        \* CancellationState.wakers
  waking,        \* the wakers cancel() took and has still to wake
  hostDone,      \* the futures whose host operation is done
  hostWaker,     \* the waker each host future was polled with, 0 for none
  timerWaker,    \* the waker each expiry future was polled with, 0 for none
  signalled,     \* the expiry futures the timer has completed
  now            \* the clock

executor == <<stage, outcome, woken, context, current, step>>
control == <<cancelled, nextWaker, wakers, waking>>
host == <<hostDone, hostWaker>>
timer == <<timerWaker, signalled, now>>
vars == <<executor, live, registration, control, host, timer>>

Pending(e) == {f \in live : Owner[f] = e}

Least(S) == CHOOSE x \in S : \A y \in S : x <= y

(* ExecutionDeadline::is_expired. *)
Expired == now >= Timeout

(* ExecutionDeadline::expires_at: an instant out of range becomes the      *)
(* start of the execution.                                                 *)
ExpiresAt == IF Timeout <= LastInstant THEN Timeout ELSE 0
-----------------------------------------------------------------------------
Init ==
  /\ stage = [e \in Execution |-> "idle"]
  /\ outcome = [e \in Execution |-> "none"]
  /\ woken = [e \in Execution |-> TRUE]
  /\ context = [e \in Execution |-> 0]
  /\ current = [e \in Execution |-> 0]
  /\ step = [e \in Execution |-> "check"]
  /\ live = Future
  /\ registration = [f \in Future |-> 0]
  /\ cancelled = FALSE
  /\ nextWaker = 1
  /\ wakers = <<>>
  /\ waking = {}
  /\ hostDone = {}
  /\ hostWaker = [f \in Future |-> 0]
  /\ timerWaker = [f \in Future |-> 0]
  /\ signalled = {}
  /\ now = 0

(* woken once the waker w of execution e is woken. *)
Wakes(e, w) == [woken EXCEPT ![e] = @ \/ (w # 0 /\ w = context[e])]

(* The executor polls the execution e with the waker w: woken to, or for   *)
(* reasons of its own, as after the execution moved to another task.       *)
StartPoll(e, w) ==
  /\ stage[e] = "idle"
  /\ stage' = [stage EXCEPT ![e] = "polling"]
  /\ woken' = [woken EXCEPT ![e] = FALSE]
  /\ context' = [context EXCEPT ![e] = w]
  /\ current' = [current EXCEPT ![e] = Least(Pending(e))]
  /\ step' = [step EXCEPT ![e] = "check"]
  /\ UNCHANGED <<outcome, live, registration, control, host, timer>>

At(e, s) == stage[e] = "polling" /\ step[e] = s

Goto(e, s) ==
  /\ step' = [step EXCEPT ![e] = s]
  /\ UNCHANGED <<stage, outcome, woken, context, current>>

(* The execution ends with the given error and drops its futures. *)
Interrupted(e, reason) ==
  /\ stage' = [stage EXCEPT ![e] = "dropping"]
  /\ outcome' = [outcome EXCEPT ![e] = reason]
  /\ UNCHANGED <<woken, context, current, step>>

CheckCancelled(e) ==
  /\ At(e, "check")
  /\ IF cancelled THEN Interrupted(e, "Cancelled") ELSE Goto(e, "clock")
  /\ UNCHANGED <<live, registration, control, host, timer>>

CheckDeadline(e) ==
  /\ At(e, "clock")
  /\ IF Expired THEN Interrupted(e, "Timeout") ELSE Goto(e, "register")
  /\ UNCHANGED <<live, registration, control, host, timer>>

Positions(id) == {i \in DOMAIN wakers : wakers[i].id = id}

(* The list of wakers once the registered waker of f is w. *)
RefreshedNever(f, w) == wakers

Refreshed(f, w) ==
  [i \in DOMAIN wakers |->
     IF wakers[i].id = registration[f] THEN [wakers[i] EXCEPT !.waker = w] ELSE wakers[i]]

(* The identifier after this one.  Its overflow is left out. *)
NextIdentifier == nextWaker + 1

(* ExecutionCancellation::register_waker. *)
RegisterWaker(e) ==
  LET f == current[e]
  IN  /\ At(e, "register")
      /\ IF cancelled
         THEN UNCHANGED <<wakers, nextWaker, registration>>
         ELSE IF registration[f] # 0 /\ Positions(registration[f]) # {}
         THEN /\ wakers' = Refreshed(f, context[e])
              /\ UNCHANGED <<nextWaker, registration>>
         ELSE /\ wakers' = Append(wakers, [id |-> nextWaker, execution |-> e,
                                           waker |-> context[e]])
              /\ registration' = [registration EXCEPT ![f] = nextWaker]
              /\ nextWaker' = NextIdentifier
      /\ Goto(e, "recheck")
      /\ UNCHANGED <<live, cancelled, waking, host, timer>>

(* The check after the registration: a cancellation in between found no    *)
(* waker to wake.                                                          *)
RecheckSkipped(e) ==
  /\ At(e, "recheck")
  /\ Goto(e, "host")
  /\ UNCHANGED <<live, registration, control, host, timer>>

Recheck(e) ==
  /\ At(e, "recheck")
  /\ IF cancelled THEN Interrupted(e, "Cancelled") ELSE Goto(e, "host")
  /\ UNCHANGED <<live, registration, control, host, timer>>

(* Vec::swap_remove of the waker registered for f, if it is still there. *)
UnregisteredKept(f) == wakers

Unregistered(f) ==
  LET found == IF registration[f] = 0 THEN {} ELSE Positions(registration[f])
      last == Len(wakers)
  IN  IF found = {} THEN wakers
      ELSE [i \in 1..last - 1 |-> IF i \in found THEN wakers[last] ELSE wakers[i]]

(* ExecutionCancellation::unregister_waker, by a completed or dropped f. *)
Unregister(f) ==
  /\ wakers' = Unregistered(f)
  /\ registration' = [registration EXCEPT ![f] = 0]
  /\ live' = live \ {f}
  /\ UNCHANGED <<nextWaker, cancelled, waking>>

(* The host future is polled.  A ready one completes: the guest goes on    *)
(* with its value and later waits for the other futures again.             *)
PollHost(e) ==
  LET f == current[e]
  IN  /\ At(e, "host")
      /\ \/ /\ f \in hostDone
            /\ Unregister(f)
            /\ stage' = [stage EXCEPT ![e] = IF Pending(e) = {f} THEN "over" ELSE "idle"]
            /\ outcome' = [outcome EXCEPT ![e] = IF Pending(e) = {f} THEN "Ok" ELSE @]
            /\ woken' = [woken EXCEPT ![e] = TRUE]
            /\ UNCHANGED <<context, current, step, hostWaker>>
         \/ /\ f \notin hostDone
            /\ hostWaker' = [hostWaker EXCEPT ![f] = context[e]]
            /\ Goto(e, "expiry")
            /\ UNCHANGED <<live, registration, wakers, nextWaker, cancelled, waking>>
      /\ UNCHANGED <<hostDone, timer>>

(* The wakers of the expiry futures once that of f was polled with w. *)
ExpiryPolled(f, w) == [timerWaker EXCEPT ![f] = w]

(* The expiry future, created at its first poll, is polled; then the scan  *)
(* goes on with the next future or ends.                                   *)
PollExpiry(e) ==
  LET f == current[e]
      later == {g \in Pending(e) : g > f}
  IN  /\ At(e, "expiry")
      /\ \/ /\ f \in signalled
            /\ Interrupted(e, "Timeout")
            /\ UNCHANGED timerWaker
         \/ /\ f \notin signalled
            /\ timerWaker' = ExpiryPolled(f, context[e])
            /\ step' = [step EXCEPT ![e] = "check"]
            /\ current' = [current EXCEPT ![e] = IF later = {} THEN 0 ELSE Least(later)]
            /\ stage' = [stage EXCEPT ![e] = IF later = {} THEN "idle" ELSE "polling"]
            /\ UNCHANGED <<outcome, woken, context>>
      /\ UNCHANGED <<live, registration, control, host, signalled, now>>

(* CancellableHostFuture::drop. *)
DropFuture(e, f) ==
  /\ stage[e] = "dropping"
  /\ f \in Pending(e)
  /\ Unregister(f)
  /\ stage' = [stage EXCEPT ![e] = IF Pending(e) = {f} THEN "over" ELSE @]
  /\ UNCHANGED <<outcome, woken, context, current, step, host, timer>>

(* The application drops an execution it no longer wants. *)
Abandon(e) ==
  /\ stage[e] = "idle"
  /\ Interrupted(e, "dropped")
  /\ UNCHANGED <<live, registration, control, host, timer>>
-----------------------------------------------------------------------------
(* ExecutionCancellation::cancel: the wakers are taken under the lock and  *)
(* woken after it.                                                         *)
Cancel ==
  /\ ~cancelled
  /\ cancelled' = TRUE
  /\ waking' = {wakers[i] : i \in DOMAIN wakers}
  /\ wakers' = <<>>
  /\ UNCHANGED <<executor, live, registration, nextWaker, host, timer>>

WakeNext ==
  \E entry \in waking :
    /\ waking' = waking \ {entry}
    /\ woken' = Wakes(entry.execution, entry.waker)
    /\ UNCHANGED <<stage, outcome, context, current, step, live, registration,
                   cancelled, nextWaker, wakers, host, timer>>

(* A host operation completes and wakes the waker it was polled with. *)
HostCompletes(f) ==
  /\ f \notin hostDone
  /\ hostDone' = hostDone \cup {f}
  /\ woken' = Wakes(Owner[f], hostWaker[f])
  /\ UNCHANGED <<stage, outcome, context, current, step, live, registration,
                 control, hostWaker, timer>>

(* The timer completes an expiry future that is due, and wakes its waker. *)
TimerSignals(f) ==
  /\ timerWaker[f] # 0
  /\ f \notin signalled
  /\ now >= ExpiresAt
  /\ signalled' = signalled \cup {f}
  /\ woken' = Wakes(Owner[f], timerWaker[f])
  /\ UNCHANGED <<stage, outcome, context, current, step, live, registration,
                 control, host, timerWaker, now>>

Tick ==
  /\ now < MaxTime
  /\ now' = now + 1
  /\ UNCHANGED <<executor, live, registration, control, host, timerWaker, signalled>>

PollStep(e) ==
  \/ CheckCancelled(e) \/ CheckDeadline(e) \/ RegisterWaker(e) \/ Recheck(e)
  \/ PollHost(e) \/ PollExpiry(e)
  \/ \E f \in Future : DropFuture(e, f)

PollWoken(e) == woken[e] /\ \E w \in Waker : StartPoll(e, w)

Done == (\A e \in Execution : stage[e] = "over") /\ UNCHANGED vars

Next ==
  \/ \E e \in Execution :
       \/ \E w \in Waker : StartPoll(e, w)
       \/ PollStep(e)
       \/ Abandon(e)
  \/ Cancel \/ WakeNext \/ Tick
  \/ \E f \in Future : HostCompletes(f) \/ TimerSignals(f)
  \/ Done

Spec == Init /\ [][Next]_vars

(* A woken execution is polled and its poll goes on, cancel() wakes all it *)
(* took, and the timer thread signals what is due.  Nothing makes anyone   *)
(* cancel, host operations complete or an executor poll unasked.           *)
FairSpec ==
  /\ Spec
  /\ \A e \in Execution : WF_vars(PollWoken(e)) /\ WF_vars(PollStep(e))
  /\ WF_vars(WakeNext)
  /\ \A f \in Future : WF_vars(TimerSignals(f))
-----------------------------------------------------------------------------
(* An identifier and the waker registered under it, which knows what it wakes. *)
Entry == [id : 1..nextWaker - 1, execution : Execution, waker : Waker]

(* The types of what the executors keep ... *)
ExecutorsTyped ==
  /\ stage \in [Execution -> {"idle", "polling", "dropping", "over"}]
  /\ outcome \in [Execution -> {"none", "Ok", "Cancelled", "Timeout", "dropped"}]
  /\ woken \in [Execution -> BOOLEAN]
  /\ context \in [Execution -> {0} \cup Waker]
  /\ current \in [Execution -> {0} \cup Future]
  /\ step \in [Execution -> {"check", "clock", "register", "recheck", "host", "expiry"}]

(* ... of the futures and the control they registered with ... *)
ControlTyped ==
  /\ live \subseteq Future
  /\ registration \in [Future -> Nat]
  /\ cancelled \in BOOLEAN
  /\ nextWaker \in Nat \ {0}
  /\ wakers \in Seq(Entry)
  /\ waking \subseteq Entry

(* ... and of the host operations and the timer. *)
OperationsTyped ==
  /\ hostDone \subseteq Future
  /\ hostWaker \in [Future -> {0} \cup Waker]
  /\ timerWaker \in [Future -> {0} \cup Waker]
  /\ signalled \subseteq Future
  /\ now \in 0..MaxTime

(* The type invariant of the control and the executors. *)
TypeOK == ExecutorsTyped /\ ControlTyped /\ OperationsTyped

(* An execution sleeps only while a cancellation can still reach it: each  *)
(* of its futures is registered with the waker of the last poll, or        *)
(* cancel() has taken that waker and will wake it.                         *)
SleeperIsReachable ==
  \A e \in Execution : stage[e] = "idle" /\ ~woken[e] =>
    IF cancelled
    THEN \E entry \in waking : entry.execution = e /\ entry.waker = context[e]
    ELSE \A f \in Pending(e) :
           \E i \in DOMAIN wakers : wakers[i] = [id |-> registration[f], execution |-> e,
                                                 waker |-> context[e]]

(* The control keeps one waker per waiting future and none of a completed  *)
(* or dropped one: a control shared by many executions does not grow, and  *)
(* no future removes the waker of another.                                 *)
RegistrationsOwned ==
  /\ \A i, j \in DOMAIN wakers : wakers[i].id = wakers[j].id => i = j
  /\ \A i \in DOMAIN wakers :
       \E f \in live : registration[f] = wakers[i].id /\ Owner[f] = wakers[i].execution

(* The control's list is exactly what the futures that wait registered. *)
ControlSound == TypeOK /\ RegistrationsOwned

(* Cancellation ends every execution that shares the control, however it   *)
(* races with polls and registrations.                                     *)
CancelEnds == \A e \in Execution : cancelled ~> stage[e] = "over"

(* No execution waits past its deadline for host operations that never     *)
(* complete.                                                               *)
DeadlineEnds == \A e \in Execution : (now >= Timeout) ~> stage[e] = "over"

(* Both interruptions end every execution, each without the other. *)
InterruptsEnd == CancelEnds /\ DeadlineEnds
===============================================================================
