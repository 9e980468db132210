------------------------------- MODULE Browser -------------------------------
(***************************************************************************)
(* The browser runner: exs-runner/src/browser.  A BrowserRunner keeps the  *)
(* module it compiled last with its JavaScript controller; a controller    *)
(* runs executions, each on a guest instance of its own, and drives each   *)
(* with Promise.race over the host calls it waits for; the registry, which *)
(* every controller's bridge captures, keeps the open streams.             *)
(*                                                                         *)
(* JavaScript runs one thread: running is the execution whose guest is on  *)
(* the stack, or None while the event loop has control.  An await is the   *)
(* only place where another execution's step comes in between, and the     *)
(* step after it starts where the await ended.                             *)
(*                                                                         *)
(* The guest's own code is arbitrary: between two awaits it starts any     *)
(* host operations, polls or drops its HostCalls in any order, and         *)
(* completes, suspends or traps.                                           *)
(*                                                                         *)
(* Bounds: MaxStreams streams opened and MaxOps other host operations in   *)
(* all; execution identities stay below the overflow check.                *)
(***************************************************************************)
EXTENDS Guest

CONSTANTS
  Execution,   \* executions of the application
  Wasm,        \* modules it executes
  MaxStreams,  \* streams that all executions together open
  MaxOps       \* their other host operations

None == 0

ASSUME BrowserAssumption ==
  /\ IsFiniteSet(Execution)
  /\ None \notin Execution \cup Wasm
  /\ MaxStreams \in Nat /\ MaxOps \in Nat

VARIABLES
  kept,        \* the module compiled last: its bytes and its controller
  nextId,      \* nextExecutionId of each controller
  phase,       \* where each execution is
  module,      \* the module each execution runs
  controller,  \* the controller each execution is one of
  id,          \* executionId
  cancelled,   \* the executions whose cancellation fired
  running,     \* the execution whose guest runs
  guest,       \* its instance
  pending,     \* the host calls each controller's drive loop waits for: call id -> operation
  settled,     \* operations whose Promise is settled, and how
  active,      \* BrowserStreamState::active, the stream handles of each execution identity
  advancing,   \* BrowserStreamState::pending
  nextStream,  \* BrowserStreamState::next_id
  stream,      \* of each stream, the execution that opened it and whether it reached End
  op           \* of each operation, its kind, execution and stream

browser == <<kept, nextId, phase, module, controller, id>>
streams == <<active, advancing, nextStream, stream>>
vars == <<browser, cancelled, running, guest, pending, settled, streams, op>>

Over == {"complete", "cancelled", "failed"}
Ops == DOMAIN op

(* The map f with the entry of x set to v. *)
With(f, x, v) == [y \in DOMAIN f \cup {x} |-> IF y = x THEN v ELSE f[y]]
-----------------------------------------------------------------------------
Init ==
  /\ kept = [wasm |-> None, controller |-> None]
  /\ nextId = <<>>
  /\ phase = [e \in Execution |-> "new"]
  /\ module = [e \in Execution |-> None]
  /\ controller = [e \in Execution |-> None]
  /\ id = [e \in Execution |-> None]
  /\ cancelled = {}
  /\ running = None
  /\ guest = [e \in Execution |-> NewGuest]
  /\ pending = [e \in Execution |-> <<>>]
  /\ settled = <<>>
  /\ active = <<>>
  /\ advancing = {}
  /\ nextStream = 0
  /\ stream = <<>>
  /\ op = <<>>

(* The controller k, when ids are the next identities of all controllers,  *)
(* gives the execution its identity and instantiates the module, which it  *)
(* awaits.                                                                 *)
Begin(e, k, ids) ==
  /\ controller' = [controller EXCEPT ![e] = k]
  /\ id' = [id EXCEPT ![e] = ids[k]]
  /\ nextId' = [ids EXCEPT ![k] = @ + 1]
  /\ phase' = [phase EXCEPT ![e] = "instantiating"]

(* BrowserRunner::load finds the module compiled last; execute_with goes   *)
(* on at once.                                                             *)
LoadKept(e, w) ==
  /\ running = None
  /\ phase[e] = "new"
  /\ kept.wasm = w
  /\ Begin(e, kept.controller, nextId)
  /\ module' = [module EXCEPT ![e] = w]
  /\ UNCHANGED <<kept, cancelled, running, guest, pending, settled, streams, op>>

(* load compiles another module, or the first.                             *)
LoadCompile(e, w) ==
  /\ running = None
  /\ phase[e] = "new"
  /\ kept.wasm # w
  /\ phase' = [phase EXCEPT ![e] = "compiling"]
  /\ module' = [module EXCEPT ![e] = w]
  /\ UNCHANGED <<kept, nextId, controller, id, cancelled, running, guest, pending, settled,
                 streams, op>>

(* The compilation ends: a new controller, which is kept in place of the   *)
(* one before, whatever was loaded meanwhile.                              *)
Compiled(e) ==
  /\ running = None
  /\ phase[e] = "compiling"
  /\ LET k == Len(nextId) + 1
     IN  /\ kept' = [wasm |-> module[e], controller |-> k]
         /\ Begin(e, k, Append(nextId, 1))
  /\ UNCHANGED <<module, cancelled, running, guest, pending, settled, streams, op>>

(* The module does not compile. *)
CompileFails(e) ==
  /\ running = None
  /\ phase[e] = "compiling"
  /\ phase' = [phase EXCEPT ![e] = "failed"]
  /\ UNCHANGED <<kept, nextId, module, controller, id, cancelled, running, guest, pending,
                 settled, streams, op>>
-----------------------------------------------------------------------------
(* release_execution: drops the streams and the marks of an identity. *)
ReleaseStreamsOnly(i) ==
  /\ active' = [j \in DOMAIN active |-> IF j = i THEN {} ELSE active[j]]
  /\ UNCHANGED advancing

ReleaseExecution(i) ==
  /\ active' = [j \in DOMAIN active |-> IF j = i THEN {} ELSE active[j]]
  /\ advancing' = {a \in advancing : a[1] # i}

(* execute() returns or throws, with the instance last, of which only the  *)
(* permits it still holds are kept: the finally block releases the         *)
(* identity.  The Promises of its host calls go on.                        *)
End(e, outcome, last) ==
  /\ phase' = [phase EXCEPT ![e] = outcome]
  /\ running' = None
  /\ guest' = [guest EXCEPT ![e] = [NewGuest EXCEPT !.permits = last.permits]]
  /\ pending' = [pending EXCEPT ![e] = <<>>]
  /\ ReleaseExecution(id[e])
  /\ UNCHANGED <<kept, nextId, module, controller, id, cancelled, settled, nextStream, stream,
                 op>>

(* The instance is there and takes the inputs, and the function starts     *)
(* unless the execution is cancelled.                                      *)
Instantiated(e) ==
  /\ running = None
  /\ phase[e] = "instantiating"
  /\ e \notin cancelled
  /\ LET g == InputAlloc(NewGuest, 0)
     IN  guest' = [guest EXCEPT ![e] = StartGuest(g, Last(g.buffers).pointer)]
  /\ phase' = [phase EXCEPT ![e] = "driving"]
  /\ running' = e
  /\ UNCHANGED <<kept, nextId, module, controller, id, cancelled, pending, settled, streams, op>>

CancelledBeforeStart(e) ==
  /\ running = None
  /\ phase[e] = "instantiating"
  /\ e \in cancelled
  /\ End(e, "cancelled", InputAlloc(NewGuest, 0))

(* The instance cannot be made, has another ABI version or lacks an        *)
(* export.                                                                 *)
InstantiateFails(e) ==
  /\ running = None
  /\ phase[e] = "instantiating"
  /\ End(e, "failed", NewGuest)
-----------------------------------------------------------------------------
(* startHostCall, the Host ABI import: the operation n of the execution e  *)
(* answers at once or leaves a Promise in the drive loop's map.            *)
HostCall(e, n, operation, answered) ==
  /\ op' = Append(op, operation)
  /\ pending' = [pending EXCEPT ![e] = IF answered THEN @ ELSE With(@, guest[e].next, n)]
  /\ guest' = [guest EXCEPT ![e] = BeginHostCall(@, n, answered)]

GuestRuns(e) == running = e /\ Len(op) - Len(stream) < MaxOps

(* A registered function answers at once, or it is not registered, or it   *)
(* is asynchronous.                                                        *)
CallFunction(e) ==
  /\ GuestRuns(e)
  /\ \E answered \in BOOLEAN :
       HostCall(e, Len(op) + 1,
                [kind |-> IF answered THEN "answered" ELSE "function",
                 execution |-> e, stream |-> None],
                answered)
  /\ UNCHANGED <<browser, cancelled, running, settled, streams>>

(* open_stream with a factory that succeeds; one that fails answers as a  *)
(* function does.                                                          *)
OpenStream(e) ==
  /\ running = e /\ Len(stream) < MaxStreams
  /\ nextStream' = nextStream + 1
  /\ stream' = Append(stream, [owner |-> e, ended |-> FALSE])
  /\ active' = With(active, id[e],
                     (IF id[e] \in DOMAIN active THEN active[id[e]] ELSE {}) \cup {nextStream'})
  /\ HostCall(e, Len(op) + 1, [kind |-> "open", execution |-> e, stream |-> nextStream'], TRUE)
  /\ UNCHANGED <<browser, cancelled, running, settled, advancing>>

Advancing(i, s) == <<i, s>> \in advancing
IsOpen(i, s) == i \in DOMAIN active /\ s \in active[i]

(* start_stream_next on a handle the execution was given: StreamBusy, or   *)
(* InvalidStreamHandle, or an advance with a Promise.                      *)
NextStream(e, s) ==
  /\ GuestRuns(e)
  /\ stream[s].owner = e
  /\ LET starts == ~Advancing(id[e], s) /\ IsOpen(id[e], s)
     IN  /\ HostCall(e, Len(op) + 1,
                     [kind |-> IF starts THEN "next" ELSE "refused", execution |-> e, stream |-> s],
                     ~starts)
         /\ advancing' = IF starts THEN advancing \cup {<<id[e], s>>} ELSE advancing
  /\ UNCHANGED <<browser, cancelled, running, settled, active, nextStream, stream>>

(* The guest polls a HostCall whose response is there; without one the     *)
(* poll changes nothing.                                                   *)
PollCall(e) ==
  /\ running = e
  /\ \E c \in guest[e].calls :
       /\ ResponseTo(guest[e], c) # 0
       /\ guest' = [guest EXCEPT ![e] = TakeHostResponse(@, c)]
  /\ UNCHANGED <<browser, cancelled, running, pending, settled, streams, op>>

DropCall(e) ==
  /\ running = e
  /\ \E c \in guest[e].calls : guest' = [guest EXCEPT ![e] = DropHostCall(@, c)]
  /\ UNCHANGED <<browser, cancelled, running, pending, settled, streams, op>>

NeverIdle(e) == FALSE

NothingToAwait(e) == pending[e] = <<>>

(* The export returns STATUS_PENDING: the drive loop awaits the race of    *)
(* its Promises, and fails when it has none.                               *)
Suspend(e) ==
  /\ running = e
  /\ \/ /\ NothingToAwait(e)
        /\ End(e, "failed", NewGuest)
     \/ /\ ~NothingToAwait(e)
        /\ running' = None
        /\ UNCHANGED <<browser, cancelled, guest, pending, settled, streams, op>>

(* STATUS_COMPLETE: the result is read. *)
Complete(e) ==
  /\ running = e
  /\ End(e, "complete", CompleteGuest(guest[e]))

(* The guest panics. *)
Trap(e) == running = e /\ End(e, "failed", NewGuest)

GuestReturns(e) == Suspend(e) \/ Complete(e) \/ Trap(e)
-----------------------------------------------------------------------------
(* complete_stream_next, when the advance of the operation n settles. *)
CompleteStreamNext(n, ended) ==
  LET i == id[op[n].execution]
      s == op[n].stream
  IN  /\ advancing' = advancing \ {<<i, s>>}
      /\ active' = [j \in DOMAIN active |-> IF j = i /\ ended THEN active[j] \ {s} ELSE active[j]]
      /\ stream' = [stream EXCEPT ![s].ended = @ \/ ended]

(* The application settles the Promise of an operation: an answer, or a    *)
(* rejection when the answer has no image.  The advance of a stream        *)
(* settles whether or not its execution still waits.                       *)
Settle(n) ==
  /\ running = None
  /\ n \in Ops \ DOMAIN settled
  /\ \/ settled' = With(settled, n, "answer")
     \/ /\ phase[op[n].execution] = "driving"
        /\ settled' = With(settled, n, "rejection")
  /\ \/ /\ op[n].kind = "function"
        /\ phase[op[n].execution] = "driving"
        /\ UNCHANGED <<active, advancing, stream>>
     \/ /\ op[n].kind = "next"
        /\ \E ended \in BOOLEAN : CompleteStreamNext(n, ended)
  /\ UNCHANGED <<browser, cancelled, running, guest, pending, nextStream, op>>

(* The Promises that are left once the call i was answered. *)
StillPending(calls, i) == [j \in DOMAIN calls \ {i} |-> calls[j]]

(* Promise.race answers: any settled Promise may be the first.  A          *)
(* rejection ends the execution, and so does a cancellation, through       *)
(* __exs_cancel; otherwise __exs_resume_host.                              *)
Raced(e, i) ==
  /\ running = None
  /\ phase[e] = "driving"
  /\ i \in DOMAIN pending[e]
  /\ pending[e][i] \in DOMAIN settled

IsCancelled(e) == e \in cancelled

Resume(e, i) ==
  /\ Raced(e, i)
  /\ settled[pending[e][i]] = "answer"
  /\ ~IsCancelled(e)
  /\ LET g == InputAlloc(guest[e], pending[e][i])
     IN  guest' = [guest EXCEPT ![e] = ResumeGuest(g, i, Last(g.buffers).pointer)]
  /\ pending' = [pending EXCEPT ![e] = StillPending(@, i)]
  /\ running' = e
  /\ UNCHANGED <<browser, cancelled, settled, streams, op>>

Rejected(e, i) ==
  /\ Raced(e, i)
  /\ settled[pending[e][i]] = "rejection"
  /\ End(e, "failed", NewGuest)

CancelledBetween(e, i) ==
  /\ Raced(e, i)
  /\ settled[pending[e][i]] = "answer"
  /\ IsCancelled(e)
  /\ End(e, "cancelled", CancelGuest(guest[e]))

(* The application cancels an execution: from the event loop, or from a    *)
(* host function the guest calls.                                          *)
Cancel(e) ==
  /\ phase[e] \notin Over
  /\ e \notin cancelled
  /\ cancelled' = cancelled \cup {e}
  /\ UNCHANGED <<browser, running, guest, pending, settled, streams, op>>

(* Every execution is over and every Promise settled or dropped. *)
Done ==
  /\ \A e \in Execution : phase[e] \in Over
  /\ UNCHANGED vars

EventLoop(e) ==
  \/ \E w \in Wasm : LoadKept(e, w) \/ LoadCompile(e, w)
  \/ Compiled(e) \/ CompileFails(e)
  \/ Instantiated(e) \/ CancelledBeforeStart(e) \/ InstantiateFails(e)
  \/ \E i \in DOMAIN pending[e] : Resume(e, i) \/ Rejected(e, i) \/ CancelledBetween(e, i)

GuestStep(e) ==
  \/ CallFunction(e) \/ OpenStream(e)
  \/ \E s \in DOMAIN stream : NextStream(e, s)
  \/ PollCall(e) \/ DropCall(e) \/ GuestReturns(e)

Next ==
  \/ \E e \in Execution : EventLoop(e) \/ GuestStep(e) \/ Cancel(e)
  \/ \E n \in Ops : Settle(n)
  \/ Done

Spec == Init /\ [][Next]_vars

(* The browser runs what is due, the guest's code between two awaits ends, *)
(* and the application settles the Promises it handed out.                 *)
FairSpec ==
  /\ Spec
  /\ \A e \in Execution : WF_vars(EventLoop(e)) /\ WF_vars(GuestReturns(e))
  /\ \A n \in 1..(MaxStreams + MaxOps) : WF_vars(n \in Ops /\ Settle(n))
-----------------------------------------------------------------------------
(* Every HostCall the guest still awaits is on its way: its Promise is in  *)
(* the drive loop's map or its response in the guest, never in both and    *)
(* never lost, and no buffer is left behind between two exports.           *)
NoCallLost ==
  \A e \in Execution :
    phase[e] = "driving" =>
      /\ guest[e].execution = "running" /\ guest[e].permits = 1
      /\ guest[e].buffers = <<>>
      /\ \A c \in guest[e].calls :
           \/ /\ c.id \in DOMAIN pending[e] /\ pending[e][c.id] = c.op
              /\ ResponseTo(guest[e], c) = 0
           \/ /\ c.id \notin DOMAIN pending[e]
              /\ \E i \in DOMAIN guest[e].responses :
                   guest[e].responses[i] = [id |-> c.id, value |-> c.op]

(* A HostCall resolves to the answer of the host operation it started, in  *)
(* whatever order the answers came and other calls were dropped; and an    *)
(* instance that completed or was cancelled gave its permit back.          *)
AnswersOwnCall ==
  \A e \in Execution :
    /\ guest[e].taken = {}
    /\ phase[e] \in {"complete", "cancelled"} => guest[e].permits = 0

(* Calls, responses and Promises match one to one until each call ends. *)
CallsMatched == NoCallLost /\ AnswersOwnCall

(* The advances of the stream s whose Promise is not settled. *)
Outstanding(s) == {n \in Ops \ DOMAIN settled : op[n].kind = "next" /\ op[n].stream = s}

Drives(e) == phase[e] = "driving"

(* The stream s of the execution e is open until it ends or e does, and    *)
(* marked exactly while its advance is on its way.                         *)
Kept(e, s) ==
  /\ IsOpen(id[e], s) <=> Drives(e) /\ ~stream[s].ended
  /\ Advancing(id[e], s) <=> Drives(e) /\ Outstanding(s) # {}

(* "Browser-local host stream state isolated to one root execution":       *)
(* whatever other executions do, a stream is open from the moment its      *)
(* execution opened it until it ends or that execution does.  The code     *)
(* does not keep this for an execution of a SharedIdentity.                *)
StreamsIsolated == \A s \in DOMAIN stream : Kept(stream[s].owner, s)

(* The release of an execution of another controller, with the identity of *)
(* e, also released what e had.                                            *)
SharedIdentity(e) ==
  \E f \in Execution :
    id[f] = id[e] /\ controller[f] # controller[e] /\ phase[f] \in Over

(* Whatever modules are loaded and executed at once: a stream is advanced  *)
(* by one consumer at a time, also one that was released while its advance *)
(* was on its way; the table keeps nothing of executions that are over and *)
(* nothing under the identity of another; and an execution loses a stream  *)
(* or a mark it still needs to the end of an execution of another          *)
(* controller only, never to one of its own.                               *)
StreamsReleased ==
  /\ \A s \in DOMAIN stream :
       LET e == stream[s].owner
       IN  /\ Cardinality(Outstanding(s)) <= 1
           /\ Kept(e, s) \/ SharedIdentity(e)
           /\ IsOpen(id[e], s) /\ Outstanding(s) # {} => Advancing(id[e], s)
  /\ \A i \in DOMAIN active : \A s \in active[i] :
       id[stream[s].owner] = i /\ Drives(stream[s].owner) /\ ~stream[s].ended
  /\ \A a \in advancing :
       id[stream[a[2]].owner] = a[1] /\ Drives(stream[a[2]].owner) /\ Outstanding(a[2]) # {}

(* "A cancellation takes effect before the function starts and between     *)
(* host calls": the guest of a cancelled execution is not entered again.   *)
CancelTakesEffect ==
  [][\A e \in cancelled : running # e => running' # e]_vars

(* An execution whose host operations are all answered ends: no answer is  *)
(* waited for twice, and the guest is never left waiting for one that the  *)
(* drive loop dropped.                                                     *)
OperationsEnd ==
  \A e \in Execution : phase[e] \in {"compiling", "instantiating", "driving"} ~> phase[e] \in Over

(* Every execution ends, a cancelled one without entering its guest again. *)
ExecutionsEnd == CancelTakesEffect /\ OperationsEnd
-----------------------------------------------------------------------------
(* Executions and modules are interchangeable: no action compares them but *)
(* for equality.  A run names them in the order in which executions start  *)
(* and modules are first loaded, so that TLC explores one behaviour of     *)
(* those that differ in names only.                                        *)
NamedInOrder ==
  \A e \in Execution : phase[e] # "new" =>
    /\ \A f \in Execution : f < e => phase[f] # "new"
    /\ \A w \in Wasm : w < module[e] => \E f \in Execution : f < e /\ module[f] = w
=============================================================================
