-------------------------------- MODULE Timer --------------------------------
(***************************************************************************)
(* The timer of the server runner (exs-runner, timer.rs): one thread that  *)
(* waits on a condition variable for the earliest deadline, and the sleeps *)
(* that executor threads poll, register and drop.                          *)
(*                                                                         *)
(* A critical section of the timer mutex is one step.  Within the mutex of *)
(* a completion's waker the poller and the timer thread also use the flag  *)
(* completed, an atomic outside of it, so that section has two steps.      *)
(***************************************************************************)
EXTENDS Integers, FiniteSets

CONSTANTS
  Sleep,    \* the sleeps; a sleep is also its identifier
  NoSleep,  \* stands for no sleep
  Waker,    \* the wakers an executor polls a sleep with
  MaxTime   \* bound of the model: the clock stops there

ASSUME TimerAssumption ==
  /\ IsFiniteSet(Sleep)
  /\ NoSleep \notin Sleep
  /\ Waker \subseteq Nat \ {0} /\ Waker # {}
  /\ MaxTime \in Nat

VARIABLES
  stage,      \* where each sleep stands in its poll or drop
  deadline,   \* the instant it was created for
  woken,      \* whether the executor has been asked to poll it
  context,    \* the waker of its last poll, 0 before the first
  completed,  \* TimerCompletion.completed
  slot,       \* TimerCompletion.waker, 0 for None
  pending,    \* TimerState.pending: the identifiers
  deadlines,  \* TimerState.deadlines: the keys
  thread,     \* where the timer thread stands
  until,      \* the instant its wait ends, or Forever
  notified,   \* whether its wait was notified
  popped,     \* the sleep whose completion it processes
  now         \* the clock

sleeps == <<stage, deadline, woken, context>>
completion == <<completed, slot>>
state == <<pending, deadlines>>
scheduler == <<thread, until, notified, popped>>
vars == <<sleeps, completion, state, scheduler, now>>

Instant == 0..MaxTime
Forever == MaxTime + 1

Init ==
  /\ stage = [s \in Sleep |-> "new"]
  /\ deadline = [s \in Sleep |-> 0]
  /\ woken = [s \in Sleep |-> FALSE]
  /\ context = [s \in Sleep |-> 0]
  /\ completed = [s \in Sleep |-> FALSE]
  /\ slot = [s \in Sleep |-> 0]
  /\ pending = {}
  /\ deadlines = {}
  /\ thread = "locked"
  /\ until = Forever
  /\ notified = FALSE
  /\ popped = NoSleep
  /\ now = 0

(* Condvar::notify_one reaches the thread only while it waits. *)
NotifyFirst == notified' = (notified \/ (thread = "waiting" /\ deadlines = {}))

Notify == notified' = (notified \/ thread = "waiting")
-----------------------------------------------------------------------------
(* TimerService::register, by RunnerTimer::sleep_until for the instant d.  *)
(* Its future is polled for the first time later.                          *)
Register(s, d) ==
  /\ stage[s] = "new"
  /\ stage' = [stage EXCEPT ![s] = "idle"]
  /\ deadline' = [deadline EXCEPT ![s] = d]
  /\ woken' = [woken EXCEPT ![s] = TRUE]
  /\ pending' = pending \cup {s}
  /\ deadlines' = deadlines \cup {<<d, s>>}
  /\ Notify
  /\ UNCHANGED <<context, completion, thread, until, popped, now>>

Move(s, from, to) == stage[s] = from /\ stage' = [stage EXCEPT ![s] = to]

(* The executor polls the sleep s with the waker w, woken to or not. *)
StartPoll(s, w) ==
  /\ Move(s, "idle", "polled")
  /\ woken' = [woken EXCEPT ![s] = FALSE]
  /\ context' = [context EXCEPT ![s] = w]
  /\ UNCHANGED <<deadline, completion, state, scheduler, now>>

(* TimerSleep::poll: the first look at the flag. *)
CheckCompleted(s) ==
  /\ Move(s, "polled", IF completed[s] THEN "ready" ELSE "storing")
  /\ UNCHANGED <<deadline, woken, context, completion, state, scheduler, now>>

Stored(s) == context[s]

(* Under the mutex of the waker: it is stored ... *)
StoreWaker(s) ==
  /\ Move(s, "storing", "stored")
  /\ slot' = [slot EXCEPT ![s] = Stored(s)]
  /\ UNCHANGED <<deadline, woken, context, completed, state, scheduler, now>>

(* ... and the flag is looked at again. *)
RecheckSkipped(s) ==
  /\ Move(s, "stored", "idle")
  /\ UNCHANGED <<deadline, woken, context, completion, state, scheduler, now>>

Recheck(s) ==
  /\ Move(s, "stored", IF completed[s] THEN "ready" ELSE "idle")
  /\ UNCHANGED <<deadline, woken, context, completion, state, scheduler, now>>

(* TimerService::cancel.  The thread may have taken the sleep already. *)
Canceled(s) == IF s \in pending THEN deadlines \ {<<deadline[s], s>>} ELSE deadlines

Cancel(s) ==
  /\ pending' = pending \ {s}
  /\ deadlines' = Canceled(s)
  /\ IF s \in pending THEN Notify ELSE UNCHANGED notified
  /\ UNCHANGED <<thread, until, popped>>

(* The executor forgets a sleep that is over. *)
Forget(s) ==
  /\ woken' = [woken EXCEPT ![s] = FALSE]
  /\ context' = [context EXCEPT ![s] = 0]

(* TimerRegistration::drop, before poll returns Ready ... *)
Finish(s) ==
  /\ Move(s, "ready", "done")
  /\ Cancel(s)
  /\ Forget(s)
  /\ UNCHANGED <<deadline, completion, now>>

(* ... or with a sleep nobody waits for any more. *)
Drop(s) ==
  /\ Move(s, "idle", "dropped")
  /\ Cancel(s)
  /\ Forget(s)
  /\ UNCHANGED <<deadline, completion, now>>
-----------------------------------------------------------------------------
(* The key first_key_value returns: the earliest deadline, then the        *)
(* identifier, whose order among equal deadlines is left open.             *)
FirstKeys == {key \in deadlines : \A other \in deadlines : key[1] <= other[1]}

(* One round of run_timer under the mutex: wait for a registration, for    *)
(* the earliest deadline, or take the completion that is due.              *)
ThreadWaits ==
  /\ thread = "locked"
  /\ \A key \in deadlines : key[1] > now
  /\ thread' = "waiting"
  /\ until' = IF deadlines = {} THEN Forever ELSE (CHOOSE key \in FirstKeys : TRUE)[1]
  /\ notified' = FALSE
  /\ UNCHANGED <<popped, sleeps, completion, state, now>>

Due(key) == key[1] <= now

(* The identifiers left once the one of the popped key is removed. *)
Remaining(s) == pending \ {s}

ThreadPops ==
  /\ thread = "locked"
  /\ \E key \in FirstKeys :
       /\ Due(key)
       /\ deadlines' = deadlines \ {key}
       /\ pending' = Remaining(key[2])
       /\ popped' = key[2]
  /\ thread' = "popped"
  /\ UNCHANGED <<until, notified, sleeps, completion, now>>

(* The wait ends: notified, at its instant, or spuriously. *)
ThreadResumes ==
  /\ thread = "waiting"
  /\ thread' = "locked"
  /\ UNCHANGED <<until, notified, popped, sleeps, completion, state, now>>

Resumes == (notified \/ now >= until) /\ ThreadResumes

Spurious == ~(notified \/ now >= until) /\ ThreadResumes

(* TimerCompletion::complete: the flag ... *)
Complete ==
  /\ thread = "popped"
  /\ completed' = [completed EXCEPT ![popped] = TRUE]
  /\ thread' = "completed"
  /\ UNCHANGED <<until, notified, popped, slot, sleeps, state, now>>

(* ... then, under the mutex of the waker, the wake-up. *)
WokenBy(s) == woken[s] \/ (slot[s] # 0 /\ slot[s] = context[s])

WakeLatest ==
  /\ thread = "completed"
  /\ stage[popped] # "stored"
  /\ woken' = [woken EXCEPT ![popped] = WokenBy(popped)]
  /\ slot' = [slot EXCEPT ![popped] = 0]
  /\ thread' = "locked"
  /\ popped' = NoSleep
  /\ UNCHANGED <<until, notified, completed, stage, deadline, context, state, now>>

Tick ==
  /\ now < MaxTime
  /\ now' = now + 1
  /\ UNCHANGED <<sleeps, completion, state, scheduler>>

PollStep(s) == CheckCompleted(s) \/ StoreWaker(s) \/ Recheck(s) \/ Finish(s)

PollWoken(s) == woken[s] /\ \E w \in Waker : StartPoll(s, w)

ThreadStep == ThreadWaits \/ ThreadPops \/ Resumes \/ Complete \/ WakeLatest

Next ==
  \/ \E s \in Sleep :
       \/ \E d \in Instant : Register(s, d)
       \/ \E w \in Waker : StartPoll(s, w)
       \/ PollStep(s)
       \/ Drop(s)
  \/ ThreadStep \/ Spurious \/ Tick

Spec == Init /\ [][Next]_vars

(* Woken sleeps are polled, polls go on, and the timer thread runs.        *)
(* Spurious wake-ups, other polls, drops and the clock need not happen.    *)
FairSpec ==
  /\ Spec
  /\ \A s \in Sleep : WF_vars(PollWoken(s)) /\ WF_vars(PollStep(s))
  /\ WF_vars(ThreadStep)
-----------------------------------------------------------------------------
(* The sleeps that may still be waited for. *)
Live == {s \in Sleep : stage[s] \notin {"new", "done", "dropped"}}

(* The type invariant of the timer.                                        *)
TypeOK ==
  /\ stage \in [Sleep -> {"new", "idle", "polled", "storing", "stored", "ready",
                          "done", "dropped"}]
  /\ deadline \in [Sleep -> Instant]
  /\ woken \in [Sleep -> BOOLEAN]
  /\ context \in [Sleep -> {0} \cup Waker]
  /\ completed \in [Sleep -> BOOLEAN]
  /\ slot \in [Sleep -> {0} \cup Waker]
  /\ pending \subseteq Sleep
  /\ deadlines \subseteq Instant \X Sleep
  /\ thread \in {"locked", "waiting", "popped", "completed"}
  /\ until \in Instant \cup {Forever}
  /\ notified \in BOOLEAN
  /\ popped \in Sleep \cup {NoSleep}
  /\ now \in Instant

(* The two tables of the timer name the same sleeps, so that whoever drops *)
(* a sleep finds its deadline and a popped sleep is not cancelled again.   *)
(* They name only sleeps that may still be waited for: the process-wide    *)
(* timer keeps nothing of the others.                                      *)
TablesAgree == pending \subseteq Live /\ deadlines = {<<deadline[s], s>> : s \in pending}

(* No wake-up is lost between poll() and complete(): a sleep that its      *)
(* executor will not poll unasked has its latest waker stored, and its     *)
(* completion is still to come.                                            *)
SleeperHasWaker ==
  \A s \in Sleep : stage[s] = "idle" /\ ~woken[s] =>
    slot[s] = context[s] /\ (s \in pending \/ popped = s)

(* The thread never waits past a deadline: a registration that is earlier  *)
(* than what it waits for has notified it.                                 *)
WaitCoversEarliest ==
  thread = "waiting" /\ ~notified => \A key \in deadlines : until <= key[1]

(* A sleep does not complete before its deadline, whichever other sleeps   *)
(* are registered, due or dropped while it waits.                          *)
NeverEarly == \A s \in Sleep : stage[s] = "done" => now >= deadline[s]

(* What the process-wide timer keeps is what the live sleeps need, and no  *)
(* sleeper is forgotten, overslept or woken as done before its time.       *)
SleepersSound == TypeOK /\ TablesAgree /\ SleeperHasWaker /\ WaitCoversEarliest /\ NeverEarly

(* A sleep that is due completes, unless it is dropped. *)
DueSleepsEnd ==
  \A s \in Sleep : (s \in Live /\ now >= deadline[s]) ~> stage[s] \in {"done", "dropped"}
=============================================================================
