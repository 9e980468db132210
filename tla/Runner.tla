------------------------------- MODULE Runner -------------------------------
(***************************************************************************)
(* One root execution of the server runner (exs-runner): the drive loop of *)
(* ServerRunner::execute_with (lib.rs) with the host ABI state its Wasm    *)
(* imports work on (host_abi.rs), the cancellation control, the wall-clock *)
(* deadline and the memory limiter.                                        *)
(*                                                                         *)
(* The guest is any module that passed the checks of the runner: at every  *)
(* step it may call an import, grow its memory, trap, yield on fuel or     *)
(* return a status.  A conforming one keeps the protocol that compiled     *)
(* modules keep (module Tasks): fresh call ids, responses taken at once,   *)
(* Pending only while it waits for calls, permits given back at the end.   *)
(*                                                                         *)
(* Cancellation, the clock, the timer and the host futures change at any   *)
(* moment between two steps of the runner.                                 *)
(***************************************************************************)
EXTENDS Integers, Sequences, FiniteSets

CONSTANTS
  Guest,             \* the guests: whether they conform, and their bounds
  MaxTasks,          \* ExecutionLimits.max_tasks
  MaxPendingCalls,   \* ExecutionLimits.max_pending_host_calls
  MaxReady,          \* ExecutionLimits.max_ready_responses
  MaxOwnedBytes      \* ExecutionLimits.max_host_owned_bytes

ASSUME RunnerAssumption ==
  /\ \A g \in Guest :
       /\ DOMAIN g = {"conforming", "calls", "ids", "streams", "sizes"}
       /\ g.conforming \in BOOLEAN
       /\ g.calls \in Nat /\ g.ids \in Nat \ {0}
       /\ g.streams \in Nat /\ g.sizes \subseteq Nat
  /\ MaxTasks \in Nat \ {0}
  /\ MaxPendingCalls \in Nat
  /\ MaxReady \in Nat
  /\ MaxOwnedBytes \in Nat

VARIABLES
  guest,      \* the kind of guest that runs
  pc,         \* where execute_with stands
  outcome,    \* the result of the execution, "none" before it ends
  reply,      \* how the last guest call ended: a status or a trap
  abi,        \* HostAbiState
  pending,    \* the call ids of the drive loop's pending futures, in order
  cursor,     \* the index the scan of the pending futures polls next
  call,       \* the call whose response is on its way to the guest, or 0
  waits,      \* the calls the tasks of the guest wait for
  completed,  \* calls whose host future is ready
  cancelled,  \* ExecutionCancellation is cancelled
  expired,    \* the clock has passed the deadline
  signalled   \* the timer has signalled the deadline

vars == <<guest, pc, outcome, reply, abi, pending, cursor, call, waits,
          completed, cancelled, expired, signalled>>

world == <<guest, completed, cancelled, expired, signalled>>

(* Whether the guest keeps the protocol, ExecutionLimits.max_host_calls of *)
(* its execution, and bounds of the model: the host call ids it uses, the  *)
(* streams it opens, the sizes of response images.                         *)
Conforming == guest.conforming
MaxHostCalls == guest.calls
Id == 1..guest.ids
Stream == 1..guest.streams
Size == guest.sizes

(* The hard limits an import reports. *)
ImportLimits == {"Tasks", "HostCalls", "PendingHostCalls", "ReadyResponses",
                 "HostOwnedBytes", "Payload"}

Statuses == {"complete", "pending", "cancelled", "other"}

(* RunnerError, with LimitExceeded named by its kind, or "Ok". *)
Outcomes ==
  {"Ok", "Cancelled", "Timeout", "Module", "Memory", "Fuel", "Result", "Wasm",
   "Abi", "Untracked", "Deadlock", "Status"} \cup ImportLimits

Values(f) == {f[x] : x \in DOMAIN f}
Without(f, x) == [y \in DOMAIN f \ {x} |-> f[y]]
With(f, x, v) == [y \in DOMAIN f \cup {x} |-> IF y = x THEN v ELSE f[y]]
-----------------------------------------------------------------------------
Init ==
  /\ guest \in Guest
  /\ pc = "created"
  /\ outcome = "none"
  /\ reply = "none"
  /\ abi = [ready |-> <<>>, bytes |-> 0, calls |-> {}, streams |-> {}, nexts |-> <<>>,
            nextStream |-> 1, tasks |-> 0, started |-> 0, slots |-> 0,
            violation |-> "none", refused |-> FALSE]
  /\ pending = <<>>
  /\ cursor = 1
  /\ call = 0
  /\ waits = {}
  /\ completed = {}
  /\ cancelled = FALSE
  /\ expired = FALSE
  /\ signalled = FALSE

(* execute_with returns. *)
End(result) == pc' = "done" /\ outcome' = result

(* execute_with goes on at the given place. *)
Goto(place) == pc' = place /\ UNCHANGED outcome

(* Why an execution must stop now, cancellation before the deadline. *)
InterruptedByDeadline == IF expired THEN "Timeout" ELSE "none"

Interrupted ==
  IF cancelled THEN "Cancelled" ELSE IF expired THEN "Timeout" ELSE "none"
-----------------------------------------------------------------------------
(* Up to the compiled module: a cancelled execution does not start, and    *)
(* the module may be too big, not compile or not import the task metering. *)
Begin ==
  /\ pc = "created"
  /\ IF cancelled
     THEN End("Cancelled")
     ELSE \/ \E error \in {"Module", "Wasm", "Abi"} : End(error)
          \/ Goto("setup")
  /\ UNCHANGED <<reply, abi, pending, cursor, call, waits>> /\ UNCHANGED world

(* Instantiation and the version check run guest code that nothing guards; *)
(* memory beyond the limit traps until refuse_memory_growth.               *)
Setup ==
  /\ pc = "setup"
  /\ \/ \E error \in {"Wasm", "Fuel", "Memory", "Abi"} : End(error)
     \/ Goto("input")
  /\ UNCHANGED <<reply, abi, pending, cursor, call, waits>> /\ UNCHANGED world

(* Encodes a value and has the guest allocate the buffer for it.  A trap   *)
(* of the allocation goes through wasmtime_error alone.                    *)
WriteBuffer ==
  \/ /\ End("Payload")
     /\ UNCHANGED abi
  \/ \E refused \in {abi.refused, TRUE} :
       /\ abi' = [abi EXCEPT !.refused = refused]
       /\ \/ \E error \in {"Wasm", "Fuel"} : End(error)
          \/ Goto("enter")

WriteInput ==
  /\ pc = "input"
  /\ WriteBuffer
  /\ UNCHANGED <<reply, pending, cursor, call, waits>> /\ UNCHANGED world

(* The check right before the start or the resume export is called. *)
Enter ==
  /\ pc = "enter"
  /\ IF cancelled THEN End("Cancelled") ELSE Goto("poll")
  /\ UNCHANGED <<reply, abi, pending, cursor, call, waits>> /\ UNCHANGED world

(* One poll of guarded: the guest goes on unless the execution must stop.  *)
(* A conforming guest refuses a response none of its tasks waits for.      *)
Poll ==
  /\ pc = "poll"
  /\ IF Interrupted # "none"
     THEN End(Interrupted) /\ UNCHANGED <<reply, call, waits>>
     ELSE /\ IF Conforming /\ call # 0 /\ call \notin waits
             THEN Goto("status") /\ reply' = "cancelled"
             ELSE Goto("guest") /\ UNCHANGED reply
          /\ call' = 0
          /\ waits' = waits \ {call}
  /\ UNCHANGED <<abi, pending, cursor>> /\ UNCHANGED world
-----------------------------------------------------------------------------
(* The guest runs, and a conforming one has taken its ready response. *)
Running == pc = "guest"

Quiet == Running /\ (Conforming => DOMAIN abi.ready = {})

(* An import returns to the guest with the state a, or traps. *)
Returns(a) == abi' = a /\ UNCHANGED <<pc, reply>>

Traps(a) == abi' = a /\ pc' = "trapped" /\ reply' = "plain"

Exceeds(a, limit) == Traps([a EXCEPT !.violation = limit])

(* __runner_task_acquire.  The refusal is a value the guest sees; compiled *)
(* code traps on it.                                                       *)
AcquireTask ==
  /\ Quiet
  /\ \/ /\ abi.tasks >= MaxTasks
        /\ \/ Exceeds(abi, "Tasks")
           \/ ~Conforming /\ Returns([abi EXCEPT !.violation = "Tasks"])
     \/ /\ abi.tasks < MaxTasks
        /\ Returns([abi EXCEPT !.tasks = @ + 1])
  /\ UNCHANGED <<outcome, pending, cursor, call, waits>> /\ UNCHANGED world

(* __runner_task_release: an unmatched release is refused. *)
ReleaseTask ==
  /\ Quiet
  /\ abi.tasks > 0
  /\ Returns([abi EXCEPT !.tasks = @ - 1])
  /\ UNCHANGED <<outcome, pending, cursor, call, waits>> /\ UNCHANGED world

(* The host call c starts, counted against the budget of the execution. *)
Starts(c) == Quiet /\ (Conforming => c = abi.started + 1)

Counted == [abi EXCEPT !.started = @ + 1]

HostCallOverLimit(c) ==
  /\ Starts(c)
  /\ abi.started >= MaxHostCalls
  /\ Exceeds(abi, "HostCalls")
  /\ UNCHANGED <<outcome, pending, cursor, call, waits>> /\ UNCHANGED world

Admitted(c) == Starts(c) /\ abi.started < MaxHostCalls

(* The request cannot be read or decoded, the registry fails, or the       *)
(* response cannot be encoded.                                             *)
HostCallInvalid(c) ==
  /\ Admitted(c)
  /\ Traps(Counted) \/ Exceeds(Counted, "Payload")
  /\ UNCHANGED <<outcome, pending, cursor, call, waits>> /\ UNCHANGED world

(* What keeps a ready response out of the table of a, if anything. *)
ReadyProblemOffByOne(a, c, size) ==
  CASE c \in DOMAIN a.ready -> "reused"
    [] Cardinality(DOMAIN a.ready) > MaxReady -> "ReadyResponses"
    [] a.bytes + size > MaxOwnedBytes -> "HostOwnedBytes"
    [] OTHER -> "none"

ReadyProblem(a, c, size) ==
  CASE c \in DOMAIN a.ready -> "reused"
    [] Cardinality(DOMAIN a.ready) >= MaxReady -> "ReadyResponses"
    [] a.bytes + size > MaxOwnedBytes -> "HostOwnedBytes"
    [] OTHER -> "none"

(* store_ready_response, and HOST_CALL_READY. *)
StoreReady(a, c, size) ==
  LET problem == ReadyProblem(a, c, size)
  IN  \/ /\ problem = "none"
         /\ Returns([a EXCEPT !.ready = With(@, c, size), !.bytes = @ + size])
      \/ problem = "reused" /\ Traps(a)
      \/ problem \notin {"none", "reused"} /\ Exceeds(a, problem)

(* A call answered at once: by a host function, a builtin operation or the *)
(* HostFunctionNotFound Error.                                             *)
HostCallReady(c, size) ==
  /\ Admitted(c)
  /\ StoreReady(Counted, c, size)
  /\ UNCHANGED <<outcome, pending, cursor, call, waits>> /\ UNCHANGED world

(* The answer is a future: it takes a slot and waits in the table, with    *)
(* the stream it advances (0 for none).                                    *)
AcceptPending(c, stream) ==
  \/ /\ c \in abi.calls
     /\ Traps(Counted)
     /\ UNCHANGED waits
  \/ /\ c \notin abi.calls
     /\ abi.slots >= MaxPendingCalls
     /\ Exceeds(Counted, "PendingHostCalls")
     /\ UNCHANGED waits
  \/ /\ c \notin abi.calls
     /\ abi.slots < MaxPendingCalls
     /\ LET accepted == [Counted EXCEPT
                           !.slots = @ + 1,
                           !.calls = @ \cup {c},
                           !.nexts = IF stream = 0 THEN @ ELSE With(@, c, stream)]
        IN  IF stream # 0 /\ c \in DOMAIN abi.nexts
            THEN Traps(accepted)
            ELSE Returns(accepted)
     /\ waits' = waits \cup {c}

HostCallPending(c) ==
  /\ Admitted(c)
  /\ AcceptPending(c, 0)
  /\ UNCHANGED <<outcome, pending, cursor, call>> /\ UNCHANGED world

(* __exs.host.stream_open: the handle is the answer. *)
StreamOpen(c, size) ==
  /\ Admitted(c)
  /\ abi.nextStream <= guest.streams
  /\ StoreReady([Counted EXCEPT !.streams = @ \cup {abi.nextStream},
                                !.nextStream = @ + 1], c, size)
  /\ UNCHANGED <<outcome, pending, cursor, call, waits>> /\ UNCHANGED world

(* Whether a next call of the stream is pending. *)
StreamBusy(stream) == stream \in Values(abi.nexts)

(* __exs.host.stream_next: a StreamBusy or InvalidStreamHandle Error, or   *)
(* the pending next item.                                                  *)
StreamNext(c, stream, size) ==
  /\ Admitted(c)
  /\ \/ /\ StreamBusy(stream) \/ stream \notin abi.streams
        /\ StoreReady(Counted, c, size)
        /\ UNCHANGED waits
     \/ /\ ~StreamBusy(stream)
        /\ stream \in abi.streams
        /\ AcceptPending(c, stream)
  /\ UNCHANGED <<outcome, pending, cursor, call>> /\ UNCHANGED world

(* __host_call_response_copy takes the ready response out of the table.    *)
(* Without one it traps, as in GuestTrap.                                  *)
TakeResponse(c) ==
  /\ Running
  /\ c \in DOMAIN abi.ready
  /\ Returns([abi EXCEPT !.ready = Without(@, c), !.bytes = @ - abi.ready[c]])
  /\ UNCHANGED <<outcome, pending, cursor, call, waits>> /\ UNCHANGED world

(* GuestLimiter::memory_growing refuses growth beyond the limit. *)
GrowthRefused ==
  /\ Running
  /\ Returns([abi EXCEPT !.refused = TRUE])
  /\ UNCHANGED <<outcome, pending, cursor, call, waits>> /\ UNCHANGED world

(* The guest traps by itself, or its fuel is used up. *)
GuestTrap ==
  /\ Running
  /\ pc' = "trapped"
  /\ reply' \in {"plain", "fuel"}
  /\ UNCHANGED <<outcome, abi, pending, cursor, call, waits>> /\ UNCHANGED world

(* The guest has used YIELD_FUEL and lets the executor poll it again. *)
GuestYield ==
  /\ Running
  /\ pc' = "poll"
  /\ UNCHANGED <<outcome, reply, abi, pending, cursor, call, waits>> /\ UNCHANGED world

GuestReturn ==
  /\ Quiet
  /\ pc' = "status"
  /\ reply' \in Statuses
  /\ Conforming => \/ reply' = "complete" /\ abi.tasks = 0
                   \/ reply' = "pending" /\ waits # {}
  /\ UNCHANGED <<outcome, abi, pending, cursor, call, waits>> /\ UNCHANGED world
-----------------------------------------------------------------------------
(* execution_error: how a trap of the start or resume export is reported. *)
ReportTrap ==
  /\ pc = "trapped"
  /\ End(CASE Interrupted # "none" -> Interrupted
           [] Interrupted = "none" /\ abi.violation # "none" -> abi.violation
           [] Interrupted = "none" /\ abi.violation = "none" /\ abi.refused -> "Memory"
           [] OTHER -> IF reply = "fuel" THEN "Fuel" ELSE "Wasm")
  /\ UNCHANGED <<reply, abi, pending, cursor, call, waits>> /\ UNCHANGED world

StatusComplete ==
  /\ pc = "status" /\ reply = "complete"
  /\ IF Interrupted # "none" THEN End(Interrupted) ELSE Goto("result")
  /\ UNCHANGED <<reply, abi, pending, cursor, call, waits>> /\ UNCHANGED world

(* take_pending_all: the futures of the table, in order of their id. *)
InOrder(calls) ==
  {order \in [1..Cardinality(calls) -> calls] :
     \A i, j \in DOMAIN order : i < j => order[i] < order[j]}

(* A suspended guest: the futures it left in the table join the pending    *)
(* ones, and the first poll of poll_fn starts.                             *)
StatusPending ==
  /\ pc = "status" /\ reply = "pending"
  /\ \E taken \in InOrder(abi.calls) : pending' = pending \o taken
  /\ abi' = [abi EXCEPT !.calls = {}]
  /\ IF pending' = <<>> THEN End("Deadlock") ELSE Goto("scan")
  /\ cursor' = 1
  /\ UNCHANGED <<reply, call, waits>> /\ UNCHANGED world

StatusRefused ==
  /\ pc = "status" /\ reply \in {"cancelled", "other"}
  /\ End(IF reply = "cancelled" THEN "Cancelled" ELSE "Status")
  /\ UNCHANGED <<reply, abi, pending, cursor, call, waits>> /\ UNCHANGED world

(* Vec::swap_remove. *)
SwapRemovePop(s, i) == SubSeq(s, 1, Len(s) - 1)

SwapRemove(s, i) == [j \in 1..Len(s) - 1 |-> IF j = i THEN s[Len(s)] ELSE s[j]]

(* CancellableHostFuture::poll of the future at cursor. *)
ScanOne ==
  /\ pc = "scan"
  /\ cursor <= Len(pending)
  /\ \/ /\ Interrupted = "Cancelled"
        /\ Goto("cancel")
        /\ UNCHANGED <<pending, cursor, call>>
     \/ /\ Interrupted = "Timeout"
        /\ End("Timeout")
        /\ UNCHANGED <<pending, cursor, call>>
     \/ /\ Interrupted = "none"
        /\ pending[cursor] \in completed
        /\ Goto("selected")
        /\ call' = pending[cursor]
        /\ pending' = SwapRemove(pending, cursor)
        /\ UNCHANGED cursor
     \/ /\ Interrupted = "none"
        /\ pending[cursor] \notin completed
        /\ IF signalled
           THEN End("Timeout") /\ UNCHANGED cursor
           ELSE Goto("scan") /\ cursor' = cursor + 1
        /\ UNCHANGED <<pending, call>>
  /\ UNCHANGED <<reply, abi, waits>> /\ UNCHANGED world

(* No future was ready: the execution waits for its waker. *)
ScanEnd ==
  /\ pc = "scan"
  /\ cursor > Len(pending)
  /\ Goto("wait")
  /\ UNCHANGED <<reply, abi, pending, cursor, call, waits>> /\ UNCHANGED world

Rescan ==
  /\ pc = "wait"
  /\ Goto("scan")
  /\ cursor' = 1
  /\ UNCHANGED <<reply, abi, pending, call, waits>> /\ UNCHANGED world

(* The executor polls again: woken by a ready future, cancellation or the  *)
(* timer, which the wakers guarantee, or for reasons of its own.           *)
Woken == Values(pending) \cap completed # {} \/ cancelled \/ signalled

Wake == Woken /\ Rescan

PollUnasked == ~Woken /\ Rescan

(* complete_pending_host_call gives the slot back and drops a stream with  *)
(* its Done item; then the cancellation check.                             *)
CompletePending(done) ==
  /\ pc = "selected"
  /\ done => call \in DOMAIN abi.nexts
  /\ IF abi.slots = 0
     THEN End("Untracked") /\ UNCHANGED abi
     ELSE /\ abi' = [abi EXCEPT
                       !.slots = @ - 1,
                       !.nexts = Without(@, call),
                       !.streams = IF done THEN @ \ {abi.nexts[call]} ELSE @]
          /\ Goto(IF cancelled THEN "cancel" ELSE "respond")
  /\ completed' = completed \ {call}
  /\ UNCHANGED <<guest, reply, pending, cursor, call, waits,
                 cancelled, expired, signalled>>

(* cancel_execution: nothing guards the cancel export, and its failure is  *)
(* reported in place of the cancellation.                                  *)
CancelGuest ==
  /\ pc = "cancel"
  /\ \/ /\ End("Cancelled")
        /\ abi' = [abi EXCEPT !.tasks = IF Conforming THEN 0 ELSE @]
     \/ \E error \in {"Wasm", "Fuel"} : End(error) /\ UNCHANGED abi
  /\ UNCHANGED <<reply, pending, cursor, call, waits>> /\ UNCHANGED world

WriteResponse ==
  /\ pc = "respond"
  /\ WriteBuffer
  /\ UNCHANGED <<reply, pending, cursor, call, waits>> /\ UNCHANGED world

(* The result accessor runs guest code that nothing guards, its image is   *)
(* decoded within the limits, and the deadline is checked once more.       *)
Result ==
  /\ pc = "result"
  /\ \E refused \in {abi.refused, TRUE} :
       /\ abi' = [abi EXCEPT !.refused = refused]
       /\ \/ End(IF refused THEN "Memory" ELSE "Wasm")
          \/ \E error \in {"Fuel", "Result", "Abi"} : End(error)
          \/ End(IF expired THEN "Timeout" ELSE "Ok")
  /\ UNCHANGED <<reply, pending, cursor, call, waits>> /\ UNCHANGED world
-----------------------------------------------------------------------------
(* What happens around the runner. *)
RequestCancel ==
  /\ cancelled' = TRUE
  /\ UNCHANGED <<pc, outcome, reply, abi, pending, cursor, call, waits,
                 guest, completed, expired, signalled>>

ClockExpires ==
  /\ expired' = TRUE
  /\ UNCHANGED <<pc, outcome, reply, abi, pending, cursor, call, waits,
                 guest, completed, cancelled, signalled>>

(* The timer may signal the deadline slightly before the clock. *)
TimerSignals ==
  /\ signalled' = TRUE
  /\ UNCHANGED <<pc, outcome, reply, abi, pending, cursor, call, waits,
                 guest, completed, cancelled, expired>>

HostCompletes(c) ==
  /\ c \in abi.calls \cup Values(pending)
  /\ completed' = completed \cup {c}
  /\ UNCHANGED <<pc, outcome, reply, abi, pending, cursor, call, waits,
                 guest, cancelled, expired, signalled>>

Environment ==
  /\ pc # "done"
  /\ RequestCancel \/ ClockExpires \/ TimerSignals \/ \E c \in Id : HostCompletes(c)

HostCallStart ==
  \E c \in Id :
    \/ HostCallOverLimit(c) \/ HostCallInvalid(c) \/ HostCallPending(c)
    \/ \E size \in Size :
         \/ HostCallReady(c, size) \/ StreamOpen(c, size)
         \/ \E stream \in Stream : StreamNext(c, stream, size)

GuestImport ==
  \/ AcquireTask \/ ReleaseTask \/ HostCallStart
  \/ (\E c \in Id : TakeResponse(c)) \/ GrowthRefused

(* Control leaves the guest. *)
GuestLeaves == GuestTrap \/ GuestYield \/ GuestReturn

RunnerStep ==
  \/ Begin \/ Setup \/ WriteInput \/ Enter \/ Poll \/ ReportTrap
  \/ StatusComplete \/ StatusPending \/ StatusRefused
  \/ ScanOne \/ ScanEnd \/ Wake
  \/ (\E done \in BOOLEAN : CompletePending(done))
  \/ CancelGuest \/ WriteResponse \/ Result

Ended == pc = "done" /\ UNCHANGED vars

Next == RunnerStep \/ PollUnasked \/ GuestImport \/ GuestLeaves \/ Environment \/ Ended

Spec == Init /\ [][Next]_vars

(* The executor polls a woken execution, and calls of the setup, cancel,   *)
(* buffer and result exports return.  Guest code that runs in the start    *)
(* and resume exports need not return: only its fuel makes it yield.       *)
FairSpec == Spec /\ WF_vars(RunnerStep) /\ WF_vars(GuestLeaves)
-----------------------------------------------------------------------------
(* The type invariant of the drive loop and the host ABI state. *)
TypeOK ==
  /\ pc \in {"created", "setup", "input", "enter", "poll", "guest", "trapped",
             "status", "scan", "wait", "selected", "cancel", "respond", "result", "done"}
  /\ outcome \in {"none"} \cup Outcomes
  /\ pc = "done" <=> outcome # "none"
  /\ reply \in {"none", "plain", "fuel"} \cup Statuses
  /\ DOMAIN abi.ready \subseteq Id /\ Values(abi.ready) \subseteq Size
  /\ abi.calls \subseteq Id
  /\ DOMAIN abi.nexts \subseteq Id /\ Values(abi.nexts) \subseteq Stream
  /\ abi.streams \subseteq Stream /\ abi.nextStream \in 1..(guest.streams + 1)
  /\ abi.tasks \in Nat /\ abi.started \in Nat /\ abi.slots \in Nat /\ abi.bytes \in Nat
  /\ abi.violation \in {"none"} \cup ImportLimits
  /\ abi.refused \in BOOLEAN
  /\ pending \in Seq(Id)
  /\ cursor \in Nat \ {0}
  /\ call \in {0} \cup Id
  /\ waits \subseteq Id /\ completed \subseteq Id

(* The bytes the host retains: each byte of each ready response. *)
OwnedBytes(ready) == UNION {{c} \X (1..ready[c]) : c \in DOMAIN ready}

(* The counters of HostAbiState are what they count, and the configured    *)
(* limits hold in every state: pending slots over the table, the drive     *)
(* loop and the completion being processed, owned bytes over the retained  *)
(* responses.                                                              *)
WithinBudgets ==
  /\ abi.slots = Cardinality(abi.calls) + Len(pending) + (IF pc = "selected" THEN 1 ELSE 0)
  /\ abi.slots <= MaxPendingCalls
  /\ abi.bytes = Cardinality(OwnedBytes(abi.ready))
  /\ abi.bytes <= MaxOwnedBytes
  /\ Cardinality(DOMAIN abi.ready) <= MaxReady
  /\ abi.tasks <= MaxTasks
  /\ abi.started <= MaxHostCalls

(* Every call a task of the guest waits for is in exactly one place: the   *)
(* table of the imports, the pending futures of the drive loop, or on its  *)
(* way back.  None is lost or answered twice, and none is resumed that no  *)
(* task waits for.                                                         *)
CallsAccounted ==
  pc # "done" =>
    /\ waits = abi.calls \cup Values(pending) \cup ({call} \ {0})
    /\ Cardinality(waits) =
         Cardinality(abi.calls) + Len(pending) + Cardinality({call} \ {0})

(* A stream has a single consumer: at most one of its next calls is        *)
(* pending, and it stays open while one is.                                *)
StreamsExclusive ==
  /\ \A c, d \in DOMAIN abi.nexts : abi.nexts[c] = abi.nexts[d] => c = d
  /\ Values(abi.nexts) \subseteq abi.streams
  /\ DOMAIN abi.nexts \subseteq waits

(* A guest that keeps the protocol never makes the runner report a         *)
(* deadlock, an unknown status or an untracked call, and only a            *)
(* cancellation that was requested is reported as one.                     *)
ProtocolErrorFree ==
  Conforming =>
    /\ outcome \notin {"Deadlock", "Status", "Untracked"}
    /\ outcome = "Cancelled" => cancelled

(* The drive loop, the tables of the imports and the tasks of a guest that *)
(* conforms agree on which calls and streams there are, in every state,    *)
(* and the runner never blames such a guest for its end.                   *)
CallsSound ==
  TypeOK /\ (Conforming => CallsAccounted /\ StreamsExclusive) /\ ProtocolErrorFree

(* What guest_limiter.rs says of a refused growth: a later trap is         *)
(* reported as the exceeded memory limit.  The code reports a trap in the  *)
(* allocation of an input or a response as Wasm (see the README), so this  *)
(* is not an invariant of the specification.                               *)
RefusalReported == abi.refused => outcome # "Wasm"

(* A cancellation requested before the guest has completed ends the        *)
(* execution, and not with a result: also while the guest loops forever,   *)
(* and whatever the runner was doing.                                      *)
CancelStops ==
  (cancelled /\ pc \notin {"result", "done"}) ~> (pc = "done" /\ outcome # "Ok")

(* An execution does not outlive its deadline: a looping guest, or host    *)
(* calls that never complete, end when the clock and the timer say so.     *)
DeadlineStops == (expired /\ signalled) ~> pc = "done"

(* Both ways to interrupt an execution end it, each without the other. *)
InterruptsStop == CancelStops /\ DeadlineStops
=============================================================================
