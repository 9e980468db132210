-------------------------------- MODULE Guest --------------------------------
(***************************************************************************)
(* One instance of a guest module written in Rust with exs-guest: the      *)
(* singleton execution state of state.rs, the exports of execution.rs and  *)
(* the HostCall futures of host.rs.  A runner may keep many instances, so  *)
(* the functions are operators from an instance to the instance they       *)
(* leave.                                                                  *)
(*                                                                         *)
(* A value that crosses the boundary is the number of the host operation   *)
(* that made it (0 for the inputs): which operation answered is all the    *)
(* properties tell apart; taken keeps, for them, the operations whose      *)
(* HostCall took the response to another.  Memory the guest cannot reserve traps or fails  *)
(* the execution and is part of the runner's failures.                     *)
(***************************************************************************)
EXTENDS Naturals, FiniteSets, SequencesExt

(* No execution: state.rs before the first export is called. *)
NewGuest ==
  [execution |-> "idle", next |-> 1, responses |-> <<>>, buffers |-> <<>>,
   calls |-> {}, taken |-> {}, permits |-> 0]

(* s without its element i, the last one moved into its place. *)
SwapRemoved(s, i) == Front([s EXCEPT ![i] = Last(s)])

(* The address of the next allocation: free memory, so none of the         *)
(* buffers' own.                                                           *)
FreshPointer(g) ==
  CHOOSE p \in 1..(Len(g.buffers) + 1) : \A i \in DOMAIN g.buffers : g.buffers[i].pointer # p

(* input_alloc, and what the runner then writes there. *)
InputAlloc(g, value) ==
  [g EXCEPT !.buffers = Append(@, [pointer |-> FreshPointer(g), value |-> value])]

(* take_buffer: the buffer at the pointer the runner passes back. *)
BufferAt(g, pointer) == CHOOSE i \in DOMAIN g.buffers : g.buffers[i].pointer = pointer

TakeBuffer(g, pointer) == [g EXCEPT !.buffers = SwapRemoved(@, BufferAt(g, pointer))]

(* cancel(): drops the future with its host calls, or the result. *)
CancelGuest(g) ==
  [NewGuest EXCEPT !.permits = IF g.execution = "running" THEN g.permits - 1 ELSE g.permits]

(* start(): takes the inputs, ends what ran before, and begins to poll. *)
StartGuest(g, pointer) ==
  LET fresh == CancelGuest(TakeBuffer(g, pointer))
  IN  [fresh EXCEPT !.execution = "running", !.permits = @ + 1]

(* resume_host(): keeps the response for the future that asks for it. *)
ResumeGuest(g, id, pointer) ==
  [TakeBuffer(g, pointer) EXCEPT
     !.responses = Append(@, [id |-> id, value |-> g.buffers[BufferAt(g, pointer)].value])]

(* poll_execution on Poll::Ready: complete(). *)
CompleteGuest(g) ==
  [g EXCEPT !.execution = "completed", !.calls = {}, !.permits = @ - 1]
-----------------------------------------------------------------------------
(* The identity of the next call is the one of the last plus 1. *)
NextCallId(g) == g.next + 1

(* HostCall::poll in NotStarted: begin_host_call makes the operation op,   *)
(* which resolves the HostCall at once or leaves it Pending.               *)
BeginHostCall(g, op, answered) ==
  [g EXCEPT !.next = NextCallId(g),
            !.calls = IF answered THEN @ ELSE @ \cup {[id |-> g.next, op |-> op]}]

(* The position of the response to the call c, or 0. *)
FirstResponse(g, c) == IF g.responses = <<>> THEN 0 ELSE 1

ResponseTo(g, c) == SelectInSeq(g.responses, LAMBDA r : r.id = c.id)

(* HostCall::poll in Pending: take_host_response has the answer. *)
TakeHostResponse(g, c) ==
  LET i == ResponseTo(g, c)
  IN  [g EXCEPT !.responses = SwapRemoved(@, i),
                !.calls = @ \ {c},
                !.taken = IF g.responses[i].value = c.op THEN @ ELSE @ \cup {c.op}]

(* The guest's code drops a HostCall it no longer awaits.  Its response is *)
(* kept if it comes.                                                       *)
DropHostCall(g, c) == [g EXCEPT !.calls = @ \ {c}]
==============================================================================
