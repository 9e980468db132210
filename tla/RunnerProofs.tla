----------------------------- MODULE RunnerProofs -----------------------------
(***************************************************************************)
(* Proofs about Runner for every set of guests and every limit: what the   *)
(* host ABI counts is what it holds, and no call of a guest that keeps the *)
(* protocol is lost, answered twice or blamed on it.                       *)
(***************************************************************************)
EXTENDS Runner, FiniteSetTheorems, SequenceTheorems, TLAPS

(* HostAbiState has the fields it has. *)
AbiRecord(a) ==
  a = [ready |-> a.ready, bytes |-> a.bytes, calls |-> a.calls, streams |-> a.streams,
       nexts |-> a.nexts, nextStream |-> a.nextStream, tasks |-> a.tasks,
       started |-> a.started, slots |-> a.slots, violation |-> a.violation,
       refused |-> a.refused]

(* The types of its fields, when ids, handles and sizes are those of g. *)
AbiTyped(a, g) ==
  /\ AbiRecord(a)
  /\ DOMAIN a.ready \subseteq 1..g.ids /\ Values(a.ready) \subseteq g.sizes
  /\ a.calls \subseteq 1..g.ids
  /\ DOMAIN a.nexts \subseteq 1..g.ids /\ Values(a.nexts) \subseteq 1..g.streams
  /\ a.streams \subseteq 1..g.streams /\ a.nextStream \in 1..(g.streams + 1)
  /\ a.tasks \in Nat /\ a.started \in Nat /\ a.slots \in Nat /\ a.bytes \in Nat
  /\ a.violation \in {"none"} \cup ImportLimits
  /\ a.refused \in BOOLEAN

(* The numbers of a are exact, and within the limits for a guest that may  *)
(* start calls host calls.                                                 *)
AbiExact(a, slots, calls) ==
  /\ a.slots = slots
  /\ a.slots <= MaxPendingCalls
  /\ IsFiniteSet(OwnedBytes(a.ready))
  /\ a.bytes = Cardinality(OwnedBytes(a.ready))
  /\ a.bytes <= MaxOwnedBytes
  /\ Cardinality(DOMAIN a.ready) <= MaxReady
  /\ a.tasks <= MaxTasks
  /\ a.started <= calls

(* A call is on its way to the guest only between its completion and the   *)
(* poll that hands it over, and advances no stream once it is completed.   *)
Delivery ==
  /\ call # 0 => pc \in {"selected", "cancel", "respond", "enter", "poll", "done"}
  /\ pc = "selected" => call # 0
  /\ call # 0 /\ pc # "selected" => call \notin DOMAIN abi.nexts

(* Each call has one place, and was started before the one that starts     *)
(* next.                                                                   *)
CallsApart ==
  /\ waits = abi.calls \cup Values(pending) \cup ({call} \ {0})
  /\ \A i, j \in DOMAIN pending : pending[i] = pending[j] => i = j
  /\ abi.calls \cap Values(pending) = {}
  /\ call \notin abi.calls \cup Values(pending)
  /\ \A c \in waits : c <= abi.started

(* What leads to the ends a guest that keeps the protocol is not blamed    *)
(* for.                                                                    *)
Blameless ==
  /\ outcome \notin {"Deadlock", "Status", "Untracked"}
  /\ outcome = "Cancelled" \/ pc = "cancel" => cancelled
  /\ pc = "status" => reply = "complete" \/ (reply = "pending" /\ waits # {})

IInv ==
  /\ guest \in Guest /\ AbiRecord(abi)
  /\ TypeOK
  /\ WithinBudgets /\ IsFiniteSet(OwnedBytes(abi.ready))
  /\ Delivery
  /\ Conforming => CallsApart /\ StreamsExclusive /\ Blameless

-----------------------------------------------------------------------------
(* The bytes of a response that is added, and of one that is taken. *)
LEMMA BytesOfOne ==
  ASSUME NEW c, NEW n \in Nat
  PROVE  IsFiniteSet({c} \X (1..n)) /\ Cardinality({c} \X (1..n)) = n
<1>1. IsFiniteSet(1..n) /\ Cardinality(1..n) = n
  BY FS_Interval
<1>2. IsFiniteSet({c}) /\ Cardinality({c}) = 1
  BY FS_Singleton
<1>3. IsFiniteSet({c} \X (1..n)) /\ Cardinality({c} \X (1..n)) = Cardinality({c}) * Cardinality(1..n)
  BY <1>1, <1>2, FS_Product, Zenon
<1>4. QED
  BY <1>1, <1>2, <1>3

LEMMA OwnedByte ==
  ASSUME NEW f, NEW b
  PROVE  b \in OwnedBytes(f) <=> \E d \in DOMAIN f : \E k \in 1..f[d] : b = <<d, k>>
<1>1. \A d, S : b \in {d} \X S <=> \E k \in S : b = <<d, k>>
  OBVIOUS
<1>2. b \in OwnedBytes(f) <=> \E d \in DOMAIN f : b \in {d} \X (1..f[d])
  BY DEF OwnedBytes
<1>3. QED
  BY <1>1, <1>2, Zenon

LEMMA SameBytes ==
  ASSUME NEW f, NEW h, DOMAIN h = DOMAIN f, \A d \in DOMAIN f : h[d] = f[d]
  PROVE  OwnedBytes(h) = OwnedBytes(f)
<1>1. ASSUME NEW b
      PROVE  b \in OwnedBytes(h) <=> b \in OwnedBytes(f)
  <2>1. b \in OwnedBytes(h) <=> \E d \in DOMAIN f : \E k \in 1..h[d] : b = <<d, k>>
    BY OwnedByte
  <2>2. b \in OwnedBytes(f) <=> \E d \in DOMAIN f : \E k \in 1..f[d] : b = <<d, k>>
    BY OwnedByte
  <2>3. QED
    BY <2>1, <2>2
<1>2. QED
  BY <1>1, Zenon

LEMMA BytesAdded ==
  ASSUME NEW f, NEW c, c \notin DOMAIN f, NEW n \in Nat, IsFiniteSet(OwnedBytes(f))
  PROVE  /\ IsFiniteSet(OwnedBytes(With(f, c, n)))
         /\ Cardinality(OwnedBytes(With(f, c, n))) = Cardinality(OwnedBytes(f)) + n
<1>1. OwnedBytes(With(f, c, n)) = OwnedBytes(f) \cup ({c} \X (1..n))
  <2>1. DOMAIN With(f, c, n) = DOMAIN f \cup {c} /\ With(f, c, n)[c] = n
    BY DEF With
  <2>2. \A d \in DOMAIN f : With(f, c, n)[d] = f[d]
    BY DEF With
  <2>3. ASSUME NEW b \in OwnedBytes(With(f, c, n))
        PROVE  b \in OwnedBytes(f) \cup ({c} \X (1..n))
    <3>0. \E d \in DOMAIN With(f, c, n) : \E k \in 1..With(f, c, n)[d] : b = <<d, k>>
      BY OwnedByte
    <3>1. PICK d \in DOMAIN f \cup {c} : \E k \in 1..With(f, c, n)[d] : b = <<d, k>>
      BY <2>1, <3>0
    <3>2. CASE d = c
      BY <2>1, <3>1, <3>2
    <3>3. CASE d \in DOMAIN f
      <4>1. \E k \in 1..f[d] : b = <<d, k>>
        BY <2>2, <3>1, <3>3
      <4>2. QED
        BY <3>3, <4>1, OwnedByte
    <3>4. QED
      BY <3>2, <3>3
  <2>4. ASSUME NEW b \in OwnedBytes(f)
        PROVE  b \in OwnedBytes(With(f, c, n))
    <3>1. PICK d \in DOMAIN f : \E k \in 1..f[d] : b = <<d, k>>
      BY OwnedByte
    <3>2. d \in DOMAIN With(f, c, n) /\ \E k \in 1..With(f, c, n)[d] : b = <<d, k>>
      BY <2>1, <2>2, <3>1
    <3>3. QED
      BY <3>2, OwnedByte
  <2>5. ASSUME NEW b \in {c} \X (1..n)
        PROVE  b \in OwnedBytes(With(f, c, n))
    <3>1. \E k \in 1..With(f, c, n)[c] : b = <<c, k>>
      BY <2>1
    <3>2. c \in DOMAIN With(f, c, n)
      BY <2>1
    <3>3. QED
      BY <3>1, <3>2, OwnedByte
  <2>6. QED
    BY <2>3, <2>4, <2>5
<1>2. OwnedBytes(f) \cap ({c} \X (1..n)) = {}
  BY DEF OwnedBytes
<1>3. Cardinality({}) = 0
  BY FS_EmptySet
<1>4. Cardinality(OwnedBytes(f)) \in Nat
  BY FS_CardinalityType
<1>5. /\ IsFiniteSet(OwnedBytes(f) \cup ({c} \X (1..n)))
      /\ Cardinality(OwnedBytes(f) \cup ({c} \X (1..n))) =
           Cardinality(OwnedBytes(f)) + Cardinality({c} \X (1..n))
             - Cardinality(OwnedBytes(f) \cap ({c} \X (1..n)))
  BY BytesOfOne, FS_Union, Zenon
<1>6. Cardinality(OwnedBytes(f) \cap ({c} \X (1..n))) = 0
  BY <1>2, <1>3, Zenon
<1>7. Cardinality({c} \X (1..n)) = n
  BY BytesOfOne, Zenon
<1>8. Cardinality(OwnedBytes(f) \cup ({c} \X (1..n))) = Cardinality(OwnedBytes(f)) + n
  BY <1>4, <1>5, <1>6, <1>7
<1>9. QED
  BY <1>1, <1>5, <1>8, Zenon

LEMMA BytesTaken ==
  ASSUME NEW f, NEW c \in DOMAIN f, f[c] \in Nat, IsFiniteSet(OwnedBytes(f))
  PROVE  /\ IsFiniteSet(OwnedBytes(Without(f, c)))
         /\ Cardinality(OwnedBytes(f)) = Cardinality(OwnedBytes(Without(f, c))) + f[c]
<1> DEFINE g == Without(f, c)
<1>1. DOMAIN g = DOMAIN f \ {c} /\ \A d \in DOMAIN f \ {c} : g[d] = f[d]
  BY DEF Without
<1>2. OwnedBytes(g) \subseteq OwnedBytes(f)
  BY <1>1 DEF OwnedBytes
<1>3. IsFiniteSet(OwnedBytes(g))
  BY <1>2, FS_Subset
<1>4. OwnedBytes(With(g, c, f[c])) = OwnedBytes(f)
  <2>1. \A d \in DOMAIN f : With(g, c, f[c])[d] = f[d]
    BY <1>1 DEF With
  <2>2. DOMAIN With(g, c, f[c]) = DOMAIN f
    BY <1>1 DEF With
  <2>3. QED
    BY <2>1, <2>2, SameBytes, Zenon
<1>5. c \notin DOMAIN g
  BY <1>1
<1>6. QED
  BY <1>3, <1>4, <1>5, BytesAdded

-----------------------------------------------------------------------------
(* The type invariant in three parts. *)
ControlTyped ==
  /\ pc \in {"created", "setup", "input", "enter", "poll", "guest", "trapped",
             "status", "scan", "wait", "selected", "cancel", "respond", "result", "done"}
  /\ outcome \in {"none"} \cup Outcomes
  /\ pc = "done" <=> outcome # "none"
  /\ reply \in {"none", "plain", "fuel"} \cup Statuses

LoopTyped ==
  /\ pending \in Seq(Id)
  /\ cursor \in Nat \ {0}
  /\ call \in {0} \cup Id
  /\ waits \subseteq Id /\ completed \subseteq Id

Typed ==
  /\ guest \in Guest
  /\ ControlTyped
  /\ AbiTyped(abi, guest)
  /\ LoopTyped

LEMMA TypedParts == Typed <=> guest \in Guest /\ AbiRecord(abi) /\ TypeOK
  BY DEF Typed, ControlTyped, AbiTyped, LoopTyped, TypeOK, Id, Stream, Size

LEMMA GuestIsConstant ==
  ASSUME Next \/ UNCHANGED vars
  PROVE  guest' = guest
  BY DEF Next, RunnerStep, Begin, Setup, WriteInput, Enter, Poll, ReportTrap, StatusComplete,
     StatusPending, StatusRefused, ScanOne, ScanEnd, Wake, PollUnasked, Rescan, CompletePending,
     CancelGuest, WriteResponse, Result, GuestImport, AcquireTask, ReleaseTask, HostCallStart,
     HostCallOverLimit, HostCallInvalid, HostCallPending, HostCallReady, StreamOpen, StreamNext,
     TakeResponse, GrowthRefused, GuestLeaves, GuestTrap, GuestYield, GuestReturn,
     Environment, RequestCancel, ClockExpires, TimerSignals, HostCompletes, Ended, vars, world

(* What an import does to the place of the runner and its reply. *)
LEMMA ImportControl ==
  ASSUME GuestImport
  PROVE  /\ pc = "guest" /\ outcome' = outcome
         /\ \/ pc' = pc /\ reply' = reply
            \/ pc' = "trapped" /\ reply' = "plain"
         /\ pending' = pending /\ cursor' = cursor /\ call' = call
         /\ UNCHANGED world
<1> USE DEF Quiet, Running, Starts, Admitted, Returns, Traps, Exceeds
<1>1. CASE AcquireTask \/ ReleaseTask \/ GrowthRefused \/ \E c \in Id : TakeResponse(c)
  BY <1>1 DEF AcquireTask, ReleaseTask, GrowthRefused, TakeResponse
<1>2. CASE HostCallStart
  <2>1. PICK c \in Id :
          \/ HostCallOverLimit(c) \/ HostCallInvalid(c) \/ HostCallPending(c)
          \/ \E size \in Size :
               \/ HostCallReady(c, size) \/ StreamOpen(c, size)
               \/ \E stream \in Stream : StreamNext(c, stream, size)
    BY <1>2, Zenon DEF HostCallStart
  <2>2. CASE HostCallOverLimit(c) \/ HostCallInvalid(c)
    BY <2>2 DEF HostCallOverLimit, HostCallInvalid
  <2>3. CASE HostCallPending(c)
    BY <2>3 DEF HostCallPending, AcceptPending
  <2>4. QED
    BY <2>1, <2>2, <2>3 DEF HostCallReady, StreamOpen, StreamNext, StoreReady, AcceptPending
<1>3. QED
  BY <1>1, <1>2 DEF GuestImport

(* The place of the runner, its reply and its outcome. *)
LEMMA ControlStep ==
  ASSUME ControlTyped, abi.violation \in {"none"} \cup ImportLimits, Next
  PROVE  ControlTyped'
<1> USE DEF ControlTyped, End, Goto, Outcomes, Statuses
<1>1. CASE Begin \/ Setup \/ Enter \/ Poll
  BY <1>1 DEF Begin, Setup, Enter, Poll, Interrupted
<1>2. CASE WriteInput \/ WriteResponse
  BY <1>2 DEF WriteInput, WriteResponse, WriteBuffer, ImportLimits
<1>3. CASE ReportTrap
  BY <1>3 DEF ReportTrap, Interrupted
<1>4. CASE StatusComplete \/ StatusPending \/ StatusRefused
  BY <1>4 DEF StatusComplete, StatusPending, StatusRefused, Interrupted
<1>5. CASE ScanOne \/ ScanEnd \/ Wake \/ PollUnasked
  BY <1>5 DEF ScanOne, ScanEnd, Wake, PollUnasked, Rescan
<1>6. CASE (\E done \in BOOLEAN : CompletePending(done)) \/ CancelGuest \/ Result
  BY <1>6 DEF CompletePending, CancelGuest, Result
<1>7. CASE GuestImport
  BY <1>7, ImportControl
<1>8. CASE GuestLeaves
  BY <1>8 DEF GuestLeaves, GuestTrap, GuestYield, GuestReturn, Running, Quiet
<1>9. CASE Environment \/ Ended
  BY <1>9 DEF Environment, RequestCancel, ClockExpires, TimerSignals, HostCompletes, Ended, vars
<1>10. QED
  BY <1>1, <1>2, <1>3, <1>4, <1>5, <1>6, <1>7, <1>8, <1>9 DEF Next, RunnerStep

-----------------------------------------------------------------------------
(* What happens to the host ABI state outside the imports. *)
LEMMA AbiElsewhere ==
  ASSUME RunnerStep \/ PollUnasked \/ GuestLeaves \/ Environment \/ Ended
  PROVE  \/ abi' = abi
         \/ \E refused \in {abi.refused, TRUE} : abi' = [abi EXCEPT !.refused = refused]
         \/ abi' = [abi EXCEPT !.tasks = IF Conforming THEN 0 ELSE @]
         \/ StatusPending
         \/ \E done \in BOOLEAN : CompletePending(done)
<1>1. CASE WriteInput \/ WriteResponse \/ Result
  BY <1>1 DEF WriteInput, WriteResponse, WriteBuffer, Result
<1>2. CASE Begin \/ Setup \/ Enter \/ Poll \/ ReportTrap \/ StatusComplete \/ StatusRefused
  BY <1>2 DEF Begin, Setup, Enter, Poll, ReportTrap, StatusComplete, StatusRefused
<1>3. CASE ScanOne \/ ScanEnd \/ Wake \/ PollUnasked \/ CancelGuest
  BY <1>3 DEF ScanOne, ScanEnd, Wake, PollUnasked, Rescan, CancelGuest
<1>4. CASE GuestLeaves \/ Environment \/ Ended
  BY <1>4 DEF GuestLeaves, GuestTrap, GuestYield, GuestReturn, Environment, RequestCancel,
     ClockExpires, TimerSignals, HostCompletes, Ended, vars
<1>5. QED
  BY <1>1, <1>2, <1>3, <1>4 DEF RunnerStep

(* A response stored, or refused, keeps the types. *)
LEMMA StoreReadyTyped ==
  ASSUME NEW a, NEW g \in Guest, AbiTyped(a, g), NEW c \in 1..g.ids, NEW size \in g.sizes,
         StoreReady(a, c, size)
  PROVE  AbiTyped(abi', g)
<1>1. size \in Nat
  BY RunnerAssumption
<1>2. CASE abi' = a
  BY <1>2
<1>3. CASE abi' = [a EXCEPT !.ready = With(@, c, size), !.bytes = @ + size]
  <2>1. AbiRecord(abi')
    BY <1>3 DEF AbiTyped, AbiRecord
  <2>2. /\ abi'.ready = With(a.ready, c, size) /\ abi'.bytes = a.bytes + size
        /\ abi'.calls = a.calls /\ abi'.streams = a.streams /\ abi'.nexts = a.nexts
        /\ abi'.nextStream = a.nextStream /\ abi'.tasks = a.tasks /\ abi'.started = a.started
        /\ abi'.slots = a.slots /\ abi'.violation = a.violation /\ abi'.refused = a.refused
    BY <1>3 DEF AbiTyped, AbiRecord
  <2>3. /\ DOMAIN With(a.ready, c, size) \subseteq 1..g.ids
        /\ Values(With(a.ready, c, size)) \subseteq g.sizes
    BY DEF AbiTyped, With, Values
  <2>4. QED
    BY <1>1, <2>1, <2>2, <2>3 DEF AbiTyped
<1>4. CASE abi' = [a EXCEPT !.violation = "ReadyResponses"]
            \/ abi' = [a EXCEPT !.violation = "HostOwnedBytes"]
  BY <1>4 DEF AbiTyped, AbiRecord, ImportLimits
<1>5. QED
  BY <1>2, <1>3, <1>4 DEF StoreReady, ReadyProblem, Returns, Traps, Exceeds

LEMMA AcceptPendingTyped ==
  ASSUME NEW g \in Guest, AbiTyped(abi, g), NEW c \in 1..g.ids, NEW stream \in 0..g.streams,
         AcceptPending(c, stream)
  PROVE  AbiTyped(abi', g)
<1>1. AbiTyped(Counted, g)
  BY DEF AbiTyped, AbiRecord, Counted
<1>2. CASE abi' = [Counted EXCEPT !.violation = "PendingHostCalls"]
  BY <1>1, <1>2 DEF AbiTyped, AbiRecord, ImportLimits
<1>3. CASE abi' = [Counted EXCEPT
                     !.slots = @ + 1,
                     !.calls = @ \cup {c},
                     !.nexts = IF stream = 0 THEN @ ELSE With(@, c, stream)]
  <2> DEFINE nexts == IF stream = 0 THEN abi.nexts ELSE With(abi.nexts, c, stream)
  <2>1. AbiRecord(abi')
    BY <1>3 DEF AbiTyped, AbiRecord, Counted
  <2>2. /\ abi'.ready = abi.ready /\ abi'.bytes = abi.bytes
        /\ abi'.calls = abi.calls \cup {c} /\ abi'.streams = abi.streams /\ abi'.nexts = nexts
        /\ abi'.nextStream = abi.nextStream /\ abi'.tasks = abi.tasks
        /\ abi'.started = abi.started + 1 /\ abi'.slots = abi.slots + 1
        /\ abi'.violation = abi.violation /\ abi'.refused = abi.refused
    BY <1>3 DEF AbiTyped, AbiRecord, Counted
  <2>3. DOMAIN nexts \subseteq 1..g.ids /\ Values(nexts) \subseteq 1..g.streams
    <3>1. CASE stream = 0
      BY <3>1 DEF AbiTyped
    <3>2. CASE stream # 0
      <4>1. stream \in 1..g.streams
        BY <3>2, RunnerAssumption
      <4>2. nexts = With(abi.nexts, c, stream)
        BY <3>2
      <4>3. /\ DOMAIN With(abi.nexts, c, stream) \subseteq 1..g.ids
            /\ Values(With(abi.nexts, c, stream)) \subseteq 1..g.streams
        BY <4>1 DEF AbiTyped, With, Values
      <4>4. QED
        BY <4>2, <4>3, Zenon
    <3>3. QED
      BY <3>1, <3>2
  <2>4. QED
    <3> HIDE DEF nexts
    <3>1. QED
      BY <2>1, <2>2, <2>3 DEF AbiTyped
<1>4. QED
  BY <1>1, <1>2, <1>3 DEF AcceptPending, Returns, Traps, Exceeds

(* A state a that differs from b in a started call and its streams. *)
SameBut(a, b) ==
  /\ AbiRecord(a)
  /\ a.ready = b.ready /\ a.bytes = b.bytes /\ a.calls = b.calls /\ a.nexts = b.nexts
  /\ a.tasks = b.tasks /\ a.started = b.started + 1 /\ a.slots = b.slots
  /\ a.violation = b.violation /\ a.refused = b.refused

LEMMA OpenedFields ==
  ASSUME AbiRecord(abi)
  PROVE  LET opened == [Counted EXCEPT !.streams = @ \cup {abi.nextStream}, !.nextStream = @ + 1]
         IN  /\ SameBut(opened, abi)
             /\ opened.streams = abi.streams \cup {abi.nextStream}
             /\ opened.nextStream = abi.nextStream + 1
<1> DEFINE opened == [Counted EXCEPT !.streams = @ \cup {abi.nextStream}, !.nextStream = @ + 1]
<1>1. AbiRecord(Counted) /\ Counted.streams = abi.streams /\ Counted.nextStream = abi.nextStream
  BY DEF AbiRecord, Counted
<1>2. SameBut(Counted, abi)
  BY DEF AbiRecord, Counted, SameBut
<1>3. opened = [Counted EXCEPT !.streams = abi.streams \cup {abi.nextStream},
                               !.nextStream = abi.nextStream + 1]
  BY <1>1
<1>4. SUFFICES /\ SameBut(opened, abi)
               /\ opened.streams = abi.streams \cup {abi.nextStream}
               /\ opened.nextStream = abi.nextStream + 1
  OBVIOUS
<1> HIDE DEF opened
<1>5. QED
  BY <1>1, <1>2, <1>3 DEF AbiRecord, SameBut

(* The imports keep the types of what they change. *)
LEMMA ImportTyped ==
  ASSUME Typed, GuestImport,
         IsFiniteSet(OwnedBytes(abi.ready)), abi.bytes = Cardinality(OwnedBytes(abi.ready))
  PROVE  AbiTyped(abi', guest)
<1> USE DEF Returns, Traps, Exceeds
<1>1. AbiTyped(abi, guest) /\ guest \in Guest
  BY DEF Typed
<1>2. AbiTyped(Counted, guest)
  BY <1>1 DEF AbiTyped, AbiRecord, Counted
<1>3. CASE AcquireTask \/ ReleaseTask \/ GrowthRefused
  <2>1. CASE AcquireTask
    BY <1>1, <2>1 DEF AbiTyped, AbiRecord, AcquireTask, ImportLimits
  <2>2. CASE ReleaseTask
    BY <1>1, <2>2 DEF AbiTyped, AbiRecord, ReleaseTask
  <2>3. CASE GrowthRefused
    BY <1>1, <2>3 DEF AbiTyped, AbiRecord, GrowthRefused
  <2>4. QED
    BY <1>3, <2>1, <2>2, <2>3
<1>4. ASSUME NEW c \in Id, TakeResponse(c)
      PROVE  AbiTyped(abi', guest)
  <2>1. /\ c \in DOMAIN abi.ready
        /\ abi' = [abi EXCEPT !.ready = Without(@, c), !.bytes = @ - abi.ready[c]]
    BY <1>4 DEF TakeResponse
  <2>2. abi.ready[c] \in Nat
    BY <1>1, <2>1, RunnerAssumption DEF AbiTyped, Values
  <2>3. abi.bytes - abi.ready[c] \in Nat
    <3>1. /\ IsFiniteSet(OwnedBytes(Without(abi.ready, c)))
          /\ abi.bytes = Cardinality(OwnedBytes(Without(abi.ready, c))) + abi.ready[c]
      BY <2>1, <2>2, BytesTaken
    <3>2. Cardinality(OwnedBytes(Without(abi.ready, c))) \in Nat
      BY <3>1, FS_CardinalityType
    <3>3. QED
      BY <2>2, <3>1, <3>2
  <2>4. /\ DOMAIN Without(abi.ready, c) \subseteq 1..guest.ids
        /\ Values(Without(abi.ready, c)) \subseteq guest.sizes
    BY <1>1 DEF AbiTyped, Without, Values
  <2>5. /\ abi'.ready = Without(abi.ready, c) /\ abi'.bytes = abi.bytes - abi.ready[c]
        /\ abi'.calls = abi.calls /\ abi'.streams = abi.streams /\ abi'.nexts = abi.nexts
        /\ abi'.nextStream = abi.nextStream /\ abi'.tasks = abi.tasks
        /\ abi'.started = abi.started /\ abi'.slots = abi.slots
        /\ abi'.violation = abi.violation /\ abi'.refused = abi.refused
        /\ AbiRecord(abi')
    BY <1>1, <2>1 DEF AbiTyped, AbiRecord
  <2>6. QED
    BY <1>1, <2>3, <2>4, <2>5 DEF AbiTyped
<1>5. ASSUME NEW c \in Id, HostCallOverLimit(c) \/ HostCallInvalid(c)
      PROVE  AbiTyped(abi', guest)
  BY <1>1, <1>2, <1>5 DEF HostCallOverLimit, HostCallInvalid, AbiTyped, AbiRecord, ImportLimits
<1>6. ASSUME NEW c \in Id, HostCallPending(c)
      PROVE  AbiTyped(abi', guest)
  BY <1>1, <1>6, RunnerAssumption, AcceptPendingTyped DEF HostCallPending, Id
<1>7. ASSUME NEW c \in Id, NEW size \in Size, HostCallReady(c, size)
      PROVE  AbiTyped(abi', guest)
  BY <1>1, <1>2, <1>7, StoreReadyTyped DEF HostCallReady, Id, Size
<1>8. ASSUME NEW c \in Id, NEW size \in Size, StreamOpen(c, size)
      PROVE  AbiTyped(abi', guest)
  <2> DEFINE opened == [Counted EXCEPT !.streams = @ \cup {abi.nextStream},
                                       !.nextStream = @ + 1]
  <2>1. StoreReady(opened, c, size) /\ abi.nextStream <= guest.streams
    BY <1>8 DEF StreamOpen
  <2>2. AbiTyped(opened, guest)
    <3>1. SameBut(opened, abi) /\ opened.streams = abi.streams \cup {abi.nextStream}
          /\ opened.nextStream = abi.nextStream + 1
      BY <1>1, OpenedFields DEF AbiTyped
    <3>2. guest.streams \in Nat
      BY <1>1, RunnerAssumption
    <3> HIDE DEF opened
    <3>3. QED
      BY <1>1, <2>1, <3>1, <3>2 DEF AbiTyped, SameBut
  <2>3. QED
    BY <1>1, <2>1, <2>2, StoreReadyTyped DEF Id, Size
<1>9. ASSUME NEW c \in Id, NEW size \in Size, NEW stream \in Stream, StreamNext(c, stream, size)
      PROVE  AbiTyped(abi', guest)
  <2>1. CASE StoreReady(Counted, c, size)
    BY <1>1, <1>2, <2>1, StoreReadyTyped DEF Id, Size
  <2>2. CASE AcceptPending(c, stream)
    BY <1>1, <2>2, RunnerAssumption, AcceptPendingTyped DEF Id, Stream
  <2>3. QED
    BY <1>9, <2>1, <2>2 DEF StreamNext
<1>10. QED
  BY <1>3, <1>4, <1>5, <1>6, <1>7, <1>8, <1>9 DEF GuestImport, HostCallStart

-----------------------------------------------------------------------------
(* The budgets in terms of one host ABI state. *)
SlotCount ==
  Cardinality(abi.calls) + Len(pending) + (IF pc = "selected" THEN 1 ELSE 0)

Budgets == AbiExact(abi, SlotCount, MaxHostCalls)

LEMMA BudgetParts ==
  Budgets <=> WithinBudgets /\ IsFiniteSet(OwnedBytes(abi.ready))
  BY DEF Budgets, AbiExact, WithinBudgets, SlotCount

(* The tables are finite: their ids are. *)
LEMMA TablesFinite ==
  ASSUME NEW a, NEW g \in Guest, AbiTyped(a, g)
  PROVE  /\ IsFiniteSet(a.calls) /\ Cardinality(a.calls) \in Nat
         /\ IsFiniteSet(DOMAIN a.ready) /\ Cardinality(DOMAIN a.ready) \in Nat
<1>1. g.ids \in Int
  BY RunnerAssumption
<1>2. IsFiniteSet(1..g.ids)
  BY <1>1, FS_Interval
<1>3. a.calls \in SUBSET (1..g.ids) /\ DOMAIN a.ready \in SUBSET (1..g.ids)
  BY DEF AbiTyped
<1>4. QED
  BY <1>2, <1>3, FS_Subset, FS_CardinalityType

(* A response is stored only within the limits. *)
LEMMA StoreReadyExact ==
  ASSUME NEW a, NEW g \in Guest, AbiTyped(a, g), NEW n, NEW k, AbiExact(a, n, k),
         NEW c \in 1..g.ids, NEW size \in g.sizes, StoreReady(a, c, size)
  PROVE  AbiExact(abi', n, k) /\ abi'.calls = a.calls
<1>1. size \in Nat /\ AbiRecord(a)
  BY RunnerAssumption DEF AbiTyped
<1>2. CASE abi' = a
  BY <1>2
<1>3. CASE ReadyProblem(a, c, size) = "none" /\
           abi' = [a EXCEPT !.ready = With(@, c, size), !.bytes = @ + size]
  <2>1. /\ c \notin DOMAIN a.ready /\ ~(Cardinality(DOMAIN a.ready) >= MaxReady)
        /\ ~(a.bytes + size > MaxOwnedBytes)
    BY <1>3 DEF ReadyProblem
  <2>2. /\ abi'.ready = With(a.ready, c, size) /\ abi'.bytes = a.bytes + size
        /\ abi'.calls = a.calls /\ abi'.slots = a.slots /\ abi'.tasks = a.tasks
        /\ abi'.started = a.started
    BY <1>1, <1>3 DEF AbiRecord
  <2>3. /\ IsFiniteSet(OwnedBytes(abi'.ready))
        /\ abi'.bytes = Cardinality(OwnedBytes(abi'.ready))
    <3>1. /\ IsFiniteSet(OwnedBytes(With(a.ready, c, size)))
          /\ Cardinality(OwnedBytes(With(a.ready, c, size))) = a.bytes + size
      BY <1>1, <2>1, BytesAdded DEF AbiExact
    <3>2. QED
      BY <2>2, <3>1, Zenon
  <2>4. abi'.bytes <= MaxOwnedBytes
    BY <1>1, <2>1, <2>2, RunnerAssumption DEF AbiTyped
  <2>5. Cardinality(DOMAIN abi'.ready) <= MaxReady
    <3>1. DOMAIN abi'.ready = DOMAIN a.ready \cup {c}
      BY <2>2 DEF With
    <3>2. /\ Cardinality(DOMAIN a.ready \cup {c}) = Cardinality(DOMAIN a.ready) + 1
          /\ Cardinality(DOMAIN a.ready) \in Nat
      BY <2>1, TablesFinite, FS_AddElement
    <3>3. Cardinality(DOMAIN a.ready \cup {c}) <= MaxReady
      BY <2>1, <3>2, RunnerAssumption
    <3>4. QED
      BY <3>1, <3>3, Zenon
  <2>6. QED
    BY <2>2, <2>3, <2>4, <2>5 DEF AbiExact
<1>4. CASE abi' = [a EXCEPT !.violation = ReadyProblem(a, c, size)]
  <2>1. /\ abi'.ready = a.ready /\ abi'.bytes = a.bytes
        /\ abi'.calls = a.calls /\ abi'.slots = a.slots /\ abi'.tasks = a.tasks
        /\ abi'.started = a.started
    BY <1>1, <1>4 DEF AbiRecord
  <2>2. QED
    BY <2>1 DEF AbiExact
<1>5. QED
  BY <1>2, <1>3, <1>4 DEF StoreReady, Returns, Traps, Exceeds

(* A pending call takes one slot. *)
LEMMA AcceptPendingExact ==
  ASSUME Typed, NEW n \in Nat, AbiExact(abi, n, MaxHostCalls), abi.started < MaxHostCalls,
         NEW c, NEW stream, AcceptPending(c, stream)
  PROVE  \/ AbiExact(abi', n, MaxHostCalls) /\ abi'.calls = abi.calls
         \/ /\ AbiExact(abi', n + 1, MaxHostCalls)
            /\ c \notin abi.calls /\ abi'.calls = abi.calls \cup {c}
<1>1. AbiRecord(abi) /\ abi.started \in Nat /\ MaxHostCalls \in Nat
  BY RunnerAssumption DEF Typed, AbiTyped, MaxHostCalls
<1>2. abi.started + 1 <= MaxHostCalls
  BY <1>1
<1>3. CASE abi' = Counted \/ abi' = [Counted EXCEPT !.violation = "PendingHostCalls"]
  <2>1. /\ abi'.ready = abi.ready /\ abi'.bytes = abi.bytes
        /\ abi'.calls = abi.calls /\ abi'.slots = abi.slots /\ abi'.tasks = abi.tasks
        /\ abi'.started = abi.started + 1
    BY <1>1, <1>3 DEF AbiRecord, Counted
  <2>2. QED
    BY <1>2, <2>1 DEF AbiExact
<1>4. CASE /\ c \notin abi.calls /\ abi.slots < MaxPendingCalls
           /\ abi' = [Counted EXCEPT
                        !.slots = @ + 1,
                        !.calls = @ \cup {c},
                        !.nexts = IF stream = 0 THEN @ ELSE With(@, c, stream)]
  <2>1. /\ abi'.ready = abi.ready /\ abi'.bytes = abi.bytes
        /\ abi'.calls = abi.calls \cup {c} /\ abi'.slots = abi.slots + 1
        /\ abi'.tasks = abi.tasks /\ abi'.started = abi.started + 1
    BY <1>1, <1>4 DEF AbiRecord, Counted
  <2>2. abi.slots = n /\ abi.slots + 1 <= MaxPendingCalls
    BY <1>4, RunnerAssumption DEF AbiExact
  <2>3. QED
    BY <1>2, <1>4, <2>1, <2>2 DEF AbiExact
<1>5. QED
  BY <1>3, <1>4 DEF AcceptPending, Returns, Traps, Exceeds

(* The imports keep the budgets. *)
LEMMA ImportExact ==
  ASSUME Typed, NEW n \in Nat, AbiExact(abi, n, MaxHostCalls), GuestImport
  PROVE  \/ AbiExact(abi', n, MaxHostCalls) /\ abi'.calls = abi.calls
         \/ /\ AbiExact(abi', n + 1, MaxHostCalls)
            /\ \E c : c \notin abi.calls /\ abi'.calls = abi.calls \cup {c}
<1> USE DEF Returns, Traps, Exceeds
<1>1. /\ AbiTyped(abi, guest) /\ guest \in Guest /\ AbiRecord(abi)
      /\ abi.started \in Nat /\ MaxHostCalls \in Nat
  BY RunnerAssumption DEF Typed, AbiTyped, MaxHostCalls
<1>2. AbiTyped(Counted, guest) /\ Counted.calls = abi.calls
  BY <1>1 DEF AbiTyped, AbiRecord, Counted
<1>3. ASSUME abi.started < MaxHostCalls
      PROVE  AbiExact(Counted, n, MaxHostCalls)
  BY <1>1, <1>3 DEF AbiRecord, AbiExact, Counted
<1>4. CASE AcquireTask \/ ReleaseTask \/ GrowthRefused
  <2>1. /\ abi'.ready = abi.ready /\ abi'.bytes = abi.bytes
        /\ abi'.calls = abi.calls /\ abi'.slots = abi.slots /\ abi'.started = abi.started
    BY <1>1, <1>4 DEF AbiRecord, AcquireTask, ReleaseTask, GrowthRefused
  <2>2. abi'.tasks <= MaxTasks
    <3>1. CASE abi'.tasks = abi.tasks
      BY <3>1 DEF AbiExact
    <3>2. CASE abi.tasks < MaxTasks /\ abi'.tasks = abi.tasks + 1
      BY <1>1, <3>2, RunnerAssumption DEF AbiTyped
    <3>3. CASE abi.tasks > 0 /\ abi'.tasks = abi.tasks - 1
      BY <1>1, <3>3, RunnerAssumption DEF AbiTyped, AbiExact
    <3>4. QED
      BY <1>1, <1>4, <3>1, <3>2, <3>3 DEF AbiRecord, AcquireTask, ReleaseTask, GrowthRefused
  <2>3. QED
    BY <2>1, <2>2 DEF AbiExact
<1>5. ASSUME NEW c \in Id, TakeResponse(c)
      PROVE  AbiExact(abi', n, MaxHostCalls) /\ abi'.calls = abi.calls
  <2>1. /\ c \in DOMAIN abi.ready
        /\ abi' = [abi EXCEPT !.ready = Without(@, c), !.bytes = @ - abi.ready[c]]
    BY <1>5 DEF TakeResponse
  <2>2. /\ abi'.ready = Without(abi.ready, c) /\ abi'.bytes = abi.bytes - abi.ready[c]
        /\ abi'.calls = abi.calls /\ abi'.slots = abi.slots /\ abi'.tasks = abi.tasks
        /\ abi'.started = abi.started
    BY <1>1, <2>1 DEF AbiRecord
  <2>3. abi.ready[c] \in Nat
    BY <1>1, <2>1, RunnerAssumption DEF AbiTyped, Values
  <2>4. /\ IsFiniteSet(OwnedBytes(Without(abi.ready, c)))
        /\ abi.bytes = Cardinality(OwnedBytes(Without(abi.ready, c))) + abi.ready[c]
    BY <2>1, <2>3, BytesTaken DEF AbiExact
  <2>5. Cardinality(OwnedBytes(Without(abi.ready, c))) \in Nat
    BY <2>4, FS_CardinalityType
  <2>6. /\ abi'.bytes = Cardinality(OwnedBytes(Without(abi.ready, c)))
        /\ abi'.bytes <= MaxOwnedBytes
    BY <2>2, <2>3, <2>4, <2>5, RunnerAssumption DEF AbiExact
  <2>7. Cardinality(DOMAIN abi'.ready) <= MaxReady
    <3>1. DOMAIN abi'.ready = DOMAIN abi.ready \ {c}
      BY <2>2 DEF Without
    <3>2. /\ Cardinality(DOMAIN abi.ready \ {c}) = Cardinality(DOMAIN abi.ready) - 1
          /\ Cardinality(DOMAIN abi.ready) \in Nat
      BY <1>1, <2>1, TablesFinite, FS_RemoveElement
    <3>3. Cardinality(DOMAIN abi.ready \ {c}) <= MaxReady
      BY <3>2, RunnerAssumption DEF AbiExact
    <3>4. QED
      BY <3>1, <3>3, Zenon
  <2>8. OwnedBytes(abi'.ready) = OwnedBytes(Without(abi.ready, c))
    BY <2>2, Zenon
  <2>9. IsFiniteSet(OwnedBytes(abi'.ready)) /\ abi'.bytes = Cardinality(OwnedBytes(abi'.ready))
    BY <2>4, <2>6, <2>8, Zenon
  <2>10. QED
    BY <2>2, <2>6, <2>7, <2>9 DEF AbiExact
<1>6. ASSUME NEW c \in Id, HostCallOverLimit(c)
      PROVE  AbiExact(abi', n, MaxHostCalls) /\ abi'.calls = abi.calls
  BY <1>1, <1>6 DEF HostCallOverLimit, AbiRecord, AbiExact
<1>7. ASSUME NEW c \in Id, HostCallInvalid(c)
      PROVE  AbiExact(abi', n, MaxHostCalls) /\ abi'.calls = abi.calls
  <2>1. /\ abi'.ready = Counted.ready /\ abi'.bytes = Counted.bytes
        /\ abi'.calls = Counted.calls /\ abi'.slots = Counted.slots
        /\ abi'.tasks = Counted.tasks /\ abi'.started = Counted.started
    BY <1>1, <1>7 DEF HostCallInvalid, AbiRecord, Counted
  <2>2. QED
    BY <1>2, <1>3, <1>7, <2>1 DEF HostCallInvalid, Admitted, AbiExact
<1>8. ASSUME NEW c \in Id, NEW stream, Admitted(c), AcceptPending(c, stream)
      PROVE  \/ AbiExact(abi', n, MaxHostCalls) /\ abi'.calls = abi.calls
             \/ /\ AbiExact(abi', n + 1, MaxHostCalls)
                /\ \E d : d \notin abi.calls /\ abi'.calls = abi.calls \cup {d}
  BY <1>8, AcceptPendingExact DEF Admitted
<1>9. ASSUME NEW c \in Id, NEW size \in Size, Admitted(c), StoreReady(Counted, c, size)
      PROVE  AbiExact(abi', n, MaxHostCalls) /\ abi'.calls = abi.calls
  BY <1>1, <1>2, <1>3, <1>9, StoreReadyExact DEF Admitted, Id, Size
<1>10. ASSUME NEW c \in Id, NEW size \in Size, StreamOpen(c, size)
       PROVE  AbiExact(abi', n, MaxHostCalls) /\ abi'.calls = abi.calls
  <2> DEFINE opened == [Counted EXCEPT !.streams = @ \cup {abi.nextStream},
                                       !.nextStream = @ + 1]
  <2>1. StoreReady(opened, c, size) /\ abi.nextStream <= guest.streams
    BY <1>10 DEF StreamOpen
  <2>2. AbiTyped(opened, guest) /\ AbiExact(opened, n, MaxHostCalls) /\ opened.calls = abi.calls
    <3>1. SameBut(opened, abi) /\ opened.streams = abi.streams \cup {abi.nextStream}
          /\ opened.nextStream = abi.nextStream + 1
      BY <1>1, OpenedFields
    <3>2. guest.streams \in Nat
      BY <1>1, RunnerAssumption
    <3>3. abi.started < MaxHostCalls
      BY <1>10 DEF StreamOpen, Admitted
    <3> HIDE DEF opened
    <3>4. AbiTyped(opened, guest) /\ opened.calls = abi.calls
      BY <1>1, <2>1, <3>1, <3>2 DEF AbiTyped, SameBut
    <3>5. AbiExact(opened, n, MaxHostCalls)
      BY <1>1, <3>1, <3>3 DEF AbiExact, SameBut
    <3>6. QED
      BY <3>4, <3>5
  <2> HIDE DEF opened
  <2>3. QED
    BY <1>1, <2>1, <2>2, StoreReadyExact DEF Id, Size
<1>11. CASE HostCallStart
  <2>1. PICK c \in Id :
          \/ HostCallOverLimit(c) \/ HostCallInvalid(c) \/ HostCallPending(c)
          \/ \E size \in Size :
               \/ HostCallReady(c, size) \/ StreamOpen(c, size)
               \/ \E stream \in Stream : StreamNext(c, stream, size)
    BY <1>11, Zenon DEF HostCallStart
  <2>2. CASE HostCallOverLimit(c) \/ HostCallInvalid(c)
    BY <1>6, <1>7, <2>2
  <2>3. CASE HostCallPending(c)
    BY <1>8, <2>3 DEF HostCallPending
  <2>4. ASSUME NEW size \in Size, HostCallReady(c, size) \/ StreamOpen(c, size)
        PROVE  AbiExact(abi', n, MaxHostCalls) /\ abi'.calls = abi.calls
    BY <1>9, <1>10, <2>4 DEF HostCallReady
  <2>5. ASSUME NEW size \in Size, NEW stream \in Stream, StreamNext(c, stream, size)
        PROVE  \/ AbiExact(abi', n, MaxHostCalls) /\ abi'.calls = abi.calls
               \/ /\ AbiExact(abi', n + 1, MaxHostCalls)
                  /\ \E d : d \notin abi.calls /\ abi'.calls = abi.calls \cup {d}
    BY <1>8, <1>9, <2>5 DEF StreamNext
  <2>6. QED
    BY <2>1, <2>2, <2>3, <2>4, <2>5
<1>12. QED
  BY <1>4, <1>5, <1>11 DEF GuestImport

-----------------------------------------------------------------------------
(* The calls of the table in order of their ids: each of them once.        *)
LEMMA InOrderExact ==
  ASSUME NEW calls, IsFiniteSet(calls), calls \subseteq Int, NEW order \in InOrder(calls)
  PROVE  /\ order \in Seq(calls) /\ Len(order) = Cardinality(calls)
         /\ \A i, j \in DOMAIN order : order[i] = order[j] => i = j
         /\ Values(order) = calls
<1>1. Cardinality(calls) \in Nat
  BY FS_CardinalityType
<1>2. PICK n \in Nat : n = Cardinality(calls)
  BY <1>1
<1>3. /\ order \in [1..n -> calls]
      /\ \A i, j \in 1..n : i < j => order[i] < order[j]
  BY <1>2 DEF InOrder
<1>4. \A i, j \in 1..n : order[i] = order[j] => i = j
  <2> SUFFICES ASSUME NEW i \in 1..n, NEW j \in 1..n, order[i] = order[j], i # j
               PROVE  FALSE
    OBVIOUS
  <2>1. order[i] \in Int /\ order[j] \in Int
    BY <1>3
  <2>2. i < j \/ j < i
    OBVIOUS
  <2>3. order[i] < order[j] \/ order[j] < order[i]
    BY <1>3, <2>2
  <2>4. QED
    BY <2>1, <2>3
<1>5. order \in Injection(1..n, calls)
  BY <1>3, <1>4 DEF Injection, IsInjective
<1>6. Cardinality(1..n) = Cardinality(calls)
  BY <1>2, FS_Interval
<1>7. order \in Surjection(1..n, calls)
  BY <1>5, <1>6, FS_Injection
<1>8. Values(order) = calls
  BY <1>3, <1>7 DEF Surjection, Values
<1>9. order \in Seq(calls) /\ Len(order) = n
  BY <1>3, SeqDef, LenProperties
<1>10. QED
  BY <1>2, <1>3, <1>4, <1>8, <1>9

(* What joins the pending futures.                                         *)
LEMMA JoinedFutures ==
  ASSUME Typed, StatusPending
  PROVE  /\ pending' \in Seq(Id)
         /\ Len(pending') = Len(pending) + Cardinality(abi.calls)
         /\ Values(pending') = Values(pending) \cup abi.calls
         /\ (/\ \A i, j \in DOMAIN pending : pending[i] = pending[j] => i = j
             /\ abi.calls \cap Values(pending) = {})
              => \A i, j \in DOMAIN pending' : pending'[i] = pending'[j] => i = j
<1>1. /\ guest \in Guest /\ AbiTyped(abi, guest) /\ pending \in Seq(Id)
      /\ abi.calls \subseteq Id
  BY DEF Typed, LoopTyped, AbiTyped, Id
<1>2. PICK taken \in InOrder(abi.calls) : pending' = pending \o taken
  BY DEF StatusPending
<1>3. IsFiniteSet(abi.calls) /\ abi.calls \subseteq Int
  BY <1>1, TablesFinite DEF Id
<1>4. /\ taken \in Seq(abi.calls) /\ Len(taken) = Cardinality(abi.calls)
      /\ \A i, j \in DOMAIN taken : taken[i] = taken[j] => i = j
      /\ Values(taken) = abi.calls
  BY <1>2, <1>3, InOrderExact
<1>5. taken \in Seq(Id)
  BY <1>1, <1>4
<1>6. PICK n \in Nat, k \in Nat : n = Len(pending) /\ k = Len(taken)
  BY <1>1, <1>5
<1>7. /\ pending' \in Seq(Id) /\ Len(pending') = n + k
      /\ \A i \in 1..n : pending'[i] = pending[i]
      /\ \A i \in n + 1..n + k : pending'[i] = taken[i - n]
      /\ DOMAIN pending' = 1..n + k /\ DOMAIN pending = 1..n /\ DOMAIN taken = 1..k
  BY <1>1, <1>2, <1>5, <1>6
<1>8. Values(pending') = Values(pending) \cup Values(taken)
  <2>1. \A i \in 1..n : i \in 1..n + k
    OBVIOUS
  <2>2. \A i \in 1..k : n + i \in n + 1..n + k /\ n + i \in 1..n + k /\ n + i - n = i
    OBVIOUS
  <2>3. \A i \in 1..n + k : i \in 1..n \/ (i \in n + 1..n + k /\ i - n \in 1..k)
    OBVIOUS
  <2>4. \A i \in 1..k : pending'[n + i] = taken[i]
    BY <1>7, <2>2
  <2>5. \A i \in 1..n + k : pending'[i] \in Values(pending) \cup Values(taken)
    BY <1>7, <2>3 DEF Values
  <2>6. \A i \in 1..n : pending[i] \in Values(pending')
    BY <1>7, <2>1 DEF Values
  <2>7. \A i \in 1..k : taken[i] \in Values(pending')
    BY <1>7, <2>2, <2>4 DEF Values
  <2>8. Values(pending') \subseteq Values(pending) \cup Values(taken)
    BY <1>7, <2>5 DEF Values
  <2>9. Values(pending) \subseteq Values(pending')
    BY <1>7, <2>6 DEF Values
  <2>10. Values(taken) \subseteq Values(pending')
    BY <1>7, <2>7 DEF Values
  <2>11. QED
    BY <2>8, <2>9, <2>10, Zenon
<1>9. ASSUME \A i, j \in DOMAIN pending : pending[i] = pending[j] => i = j,
             abi.calls \cap Values(pending) = {}
      PROVE  \A i, j \in DOMAIN pending' : pending'[i] = pending'[j] => i = j
  <2> SUFFICES ASSUME NEW i \in 1..n + k, NEW j \in 1..n + k, pending'[i] = pending'[j]
               PROVE  i = j
    BY <1>7
  <2>1. \A l \in 1..n : pending'[l] \in Values(pending)
    BY <1>7 DEF Values
  <2>2. \A l \in n + 1..n + k : l - n \in 1..k /\ pending'[l] \in abi.calls
    BY <1>4, <1>7 DEF Values
  <2>3. CASE i \in 1..n /\ j \in 1..n
    BY <1>7, <1>9, <2>3
  <2>4. CASE i \in n + 1..n + k /\ j \in n + 1..n + k
    <3>1. /\ pending'[i] = taken[i - n] /\ pending'[j] = taken[j - n]
          /\ i - n \in DOMAIN taken /\ j - n \in DOMAIN taken
      BY <1>7, <2>2, <2>4
    <3>2. taken[i - n] = taken[j - n]
      BY <3>1
    <3>3. i - n = j - n
      BY <1>4, <3>1, <3>2, Zenon
    <3>4. QED
      BY <3>3
  <2>5. CASE (i \in 1..n /\ j \notin 1..n) \/ (i \notin 1..n /\ j \in 1..n)
    <3>1. \/ i \in 1..n /\ j \in n + 1..n + k
          \/ j \in 1..n /\ i \in n + 1..n + k
      BY <2>5
    <3>2. pending'[i] \in Values(pending) /\ pending'[i] \in abi.calls
      BY <2>1, <2>2, <3>1
    <3>3. QED
      BY <1>9, <3>2
  <2>6. QED
    BY <2>3, <2>4, <2>5
<1>10. QED
  BY <1>4, <1>6, <1>7, <1>8, <1>9

(* The future that is ready leaves the pending ones: the last one takes    *)
(* its place.                                                              *)
LEMMA RemovedFuture ==
  ASSUME NEW S, NEW s \in Seq(S), NEW i \in DOMAIN s
  PROVE  /\ SwapRemove(s, i) \in Seq(S) /\ Len(s) \in Nat
         /\ Len(SwapRemove(s, i)) = Len(s) - 1
         /\ s[i] \in S /\ s[i] \in Values(s)
         /\ (\A j, k \in DOMAIN s : s[j] = s[k] => j = k)
              => /\ Values(SwapRemove(s, i)) = Values(s) \ {s[i]}
                 /\ LET r == SwapRemove(s, i)
                    IN  \A j, k \in DOMAIN r : r[j] = r[k] => j = k
<1>1. PICK n \in Nat : n = Len(s) /\ DOMAIN s = 1..n /\ s \in [1..n -> S] /\ i \in 1..n
  BY LenProperties
<1>2. n - 1 \in Nat
  BY <1>1
<1>3. PICK r : r = [j \in 1..n - 1 |-> IF j = i THEN s[n] ELSE s[j]]
  OBVIOUS
<1>4. r = SwapRemove(s, i)
  BY <1>1, <1>3 DEF SwapRemove
<1>5. r \in [1..n - 1 -> S]
  BY <1>1, <1>3
<1>6. r \in Seq(S) /\ Len(r) = n - 1 /\ DOMAIN r = 1..n - 1
  BY <1>2, <1>5, SeqDef, LenProperties
<1>7. s[i] \in S /\ s[i] \in Values(s)
  BY <1>1 DEF Values
<1>8. ASSUME \A j, k \in 1..n : s[j] = s[k] => j = k
      PROVE  /\ Values(r) = Values(s) \ {s[i]}
             /\ \A j, k \in DOMAIN r : r[j] = r[k] => j = k
  <2>1. \A j \in 1..n - 1 : r[j] \in Values(s) /\ r[j] # s[i]
    BY <1>1, <1>3, <1>8 DEF Values
  <2>2. ASSUME NEW j \in 1..n, j # i
        PROVE  s[j] \in Values(r)
    <3>1. CASE j = n
      <4>1. i \in 1..n - 1
        <5>1. i \in 1..n /\ i # n
          BY <1>1, <2>2, <3>1, Zenon
        <5>2. QED
          BY <5>1
      <4>2. r[i] = s[n]
        BY <1>3, <4>1
      <4>3. QED
        BY <1>6, <3>1, <4>1, <4>2 DEF Values
    <3>2. CASE j # n
      <4>1. j \in 1..n - 1 /\ r[j] = s[j]
        BY <1>3, <2>2, <3>2
      <4>2. QED
        BY <1>6, <4>1 DEF Values
    <3>3. QED
      BY <3>1, <3>2
  <2>3. Values(r) = Values(s) \ {s[i]}
    <3>1. \A v \in Values(r) : v \in Values(s) \ {s[i]}
      BY <1>6, <2>1 DEF Values
    <3>2. \A v \in Values(s) : v # s[i] => v \in Values(r)
      BY <1>1, <2>2 DEF Values
    <3>3. QED
      BY <3>1, <3>2
  <2>4. ASSUME NEW j \in 1..n - 1, NEW k \in 1..n - 1, r[j] = r[k]
        PROVE  j = k
    BY <1>1, <1>3, <1>8, <2>4
  <2>5. QED
    BY <1>6, <2>3, <2>4
<1>9. QED
  BY <1>1, <1>4, <1>6, <1>7, <1>8

-----------------------------------------------------------------------------
(* The drive loop keeps the types of its variables. *)
LEMMA LoopStep ==
  ASSUME Typed, Next
  PROVE  LoopTyped'
<1>1. guest' = guest /\ Id' = Id
  BY GuestIsConstant DEF Id
<1>2. /\ pending \in Seq(Id) /\ cursor \in Nat \ {0} /\ call \in {0} \cup Id
      /\ waits \subseteq Id /\ completed \subseteq Id /\ abi.calls \subseteq Id
  BY DEF Typed, LoopTyped, AbiTyped, Id
<1>3. SUFFICES /\ pending' \in Seq(Id) /\ cursor' \in Nat \ {0} /\ call' \in {0} \cup Id
               /\ waits' \subseteq Id /\ completed' \subseteq Id
  BY <1>1 DEF LoopTyped
<1>4. CASE Begin \/ Setup \/ WriteInput \/ Enter \/ ReportTrap \/ StatusComplete \/ StatusRefused
  BY <1>2, <1>4 DEF Begin, Setup, WriteInput, Enter, ReportTrap, StatusComplete, StatusRefused, world
<1>5. CASE Poll
  BY <1>2, <1>5 DEF Poll, world
<1>6. CASE StatusPending
  <2>1. pending' \in Seq(Id)
    BY <1>6, JoinedFutures
  <2>2. cursor' = 1 /\ call' = call /\ waits' = waits /\ completed' = completed
    BY <1>6 DEF StatusPending, world
  <2>3. QED
    BY <1>2, <2>1, <2>2
<1>7. CASE ScanOne
  <2>1. cursor \in DOMAIN pending
    BY <1>2, <1>7 DEF ScanOne
  <2>2. SwapRemove(pending, cursor) \in Seq(Id) /\ pending[cursor] \in Id
    BY <1>2, <2>1, RemovedFuture
  <2>3. cursor + 1 \in Nat \ {0}
    BY <1>2
  <2>4. QED
    BY <1>2, <1>7, <2>2, <2>3 DEF ScanOne, world
<1>8. CASE ScanEnd \/ Wake \/ PollUnasked \/ CancelGuest \/ WriteResponse \/ Result
  BY <1>2, <1>8 DEF ScanEnd, Wake, PollUnasked, Rescan, CancelGuest, WriteResponse, Result, world
<1>9. CASE \E done \in BOOLEAN : CompletePending(done)
  BY <1>2, <1>9 DEF CompletePending
<1>10. CASE GuestImport
  <2>1. /\ pending' = pending /\ cursor' = cursor /\ call' = call /\ completed' = completed
    BY <1>10, ImportControl DEF world
  <2>2. waits' \subseteq Id
    <3>1. CASE waits' = waits
      BY <1>2, <3>1
    <3>2. CASE \E c \in Id : waits' = waits \cup {c}
      BY <1>2, <3>2
    <3>3. QED
      BY <1>10, <3>1, <3>2 DEF GuestImport, AcquireTask, ReleaseTask, TakeResponse, GrowthRefused,
         HostCallStart, HostCallOverLimit, HostCallInvalid, HostCallPending, HostCallReady,
         StreamOpen, StreamNext, AcceptPending
  <2>3. QED
    BY <1>2, <2>1, <2>2
<1>11. CASE GuestLeaves
  BY <1>2, <1>11 DEF GuestLeaves, GuestTrap, GuestYield, GuestReturn, world
<1>12. CASE Environment
  BY <1>2, <1>12 DEF Environment, RequestCancel, ClockExpires, TimerSignals, HostCompletes
<1>13. CASE Ended
  BY <1>2, <1>13 DEF Ended, vars
<1>14. QED
  BY <1>4, <1>5, <1>6, <1>7, <1>8, <1>9, <1>10, <1>11, <1>12, <1>13 DEF Next, RunnerStep

(* What completing a pending call changes of the host ABI state. *)
LEMMA CompletedFields ==
  ASSUME AbiRecord(abi), NEW done, CompletePending(done), abi.slots # 0
  PROVE  /\ AbiRecord(abi')
         /\ abi'.slots = abi.slots - 1 /\ abi'.nexts = Without(abi.nexts, call)
         /\ abi'.streams = IF done THEN abi.streams \ {abi.nexts[call]} ELSE abi.streams
         /\ abi'.ready = abi.ready /\ abi'.bytes = abi.bytes /\ abi'.calls = abi.calls
         /\ abi'.nextStream = abi.nextStream /\ abi'.tasks = abi.tasks
         /\ abi'.started = abi.started /\ abi'.violation = abi.violation
         /\ abi'.refused = abi.refused
<1>1. PICK streams : streams = IF done THEN abi.streams \ {abi.nexts[call]} ELSE abi.streams
  OBVIOUS
<1>2. abi' = [abi EXCEPT !.slots = @ - 1, !.nexts = Without(@, call), !.streams = streams]
  BY <1>1 DEF CompletePending
<1>3. PICK slots, nexts : slots = abi.slots - 1 /\ nexts = Without(abi.nexts, call)
  OBVIOUS
<1>4. abi' = [abi EXCEPT !.slots = slots, !.nexts = nexts, !.streams = streams]
  BY <1>2, <1>3
<1>5. abi' = [ready |-> abi.ready, bytes |-> abi.bytes, calls |-> abi.calls, streams |-> streams,
              nexts |-> nexts, nextStream |-> abi.nextStream, tasks |-> abi.tasks,
              started |-> abi.started, slots |-> slots, violation |-> abi.violation,
              refused |-> abi.refused]
  BY <1>4 DEF AbiRecord
<1>6. QED
  BY <1>1, <1>3, <1>5 DEF AbiRecord

(* The host ABI state keeps its types and its budgets.                     *)
LEMMA AbiStep ==
  ASSUME Typed, Budgets, Next
  PROVE  AbiTyped(abi', guest) /\ Budgets'
<1>1. /\ AbiTyped(abi, guest) /\ guest \in Guest /\ AbiRecord(abi) /\ pending \in Seq(Id)
      /\ Len(pending) \in Nat /\ Cardinality(abi.calls) \in Nat /\ IsFiniteSet(abi.calls)
      /\ guest' = guest /\ MaxHostCalls' = MaxHostCalls
  <2>1. AbiTyped(abi, guest) /\ guest \in Guest /\ AbiRecord(abi)
    BY DEF Typed, AbiTyped
  <2>2. Cardinality(abi.calls) \in Nat /\ IsFiniteSet(abi.calls)
    BY <2>1, TablesFinite
  <2>3. pending \in Seq(Id) /\ Len(pending) \in Nat
    BY DEF Typed, LoopTyped
  <2>4. guest' = guest /\ MaxHostCalls' = MaxHostCalls
    BY GuestIsConstant DEF MaxHostCalls
  <2>5. QED
    BY <2>1, <2>2, <2>3, <2>4
<1>2. SlotCount \in Nat
  BY <1>1 DEF SlotCount
<1>3. CASE GuestImport
  <2>1. AbiTyped(abi', guest)
    BY <1>3, ImportTyped DEF Budgets, AbiExact
  <2>2. pending' = pending /\ pc # "selected" /\ pc' # "selected"
    BY <1>3, ImportControl
  <2>3. CASE AbiExact(abi', SlotCount, MaxHostCalls) /\ abi'.calls = abi.calls
    <3>1. SlotCount' = SlotCount
      BY <2>2, <2>3 DEF SlotCount
    <3>2. QED
      BY <1>1, <2>1, <2>3, <3>1 DEF Budgets
  <2>4. CASE /\ AbiExact(abi', SlotCount + 1, MaxHostCalls)
             /\ \E c : c \notin abi.calls /\ abi'.calls = abi.calls \cup {c}
    <3>1. PICK c : c \notin abi.calls /\ abi'.calls = abi.calls \cup {c}
      BY <2>4
    <3>2. Cardinality(abi.calls \cup {c}) = Cardinality(abi.calls) + 1
      BY <1>1, <3>1, FS_AddElement
    <3>3. Cardinality(abi'.calls) = Cardinality(abi.calls) + 1
      BY <3>1, <3>2, Zenon
    <3>4. SlotCount' = SlotCount + 1
      BY <1>1, <2>2, <3>3 DEF SlotCount
    <3>5. QED
      BY <1>1, <2>1, <2>4, <3>4 DEF Budgets
  <2>5. QED
    BY <1>2, <1>3, <2>3, <2>4, ImportExact DEF Budgets
<1>4. CASE StatusPending
  <2>1. /\ abi'.calls = {} /\ abi'.ready = abi.ready /\ abi'.bytes = abi.bytes
        /\ abi'.streams = abi.streams /\ abi'.nexts = abi.nexts
        /\ abi'.nextStream = abi.nextStream /\ abi'.tasks = abi.tasks
        /\ abi'.started = abi.started /\ abi'.slots = abi.slots
        /\ abi'.violation = abi.violation /\ abi'.refused = abi.refused
        /\ AbiRecord(abi')
    BY <1>1, <1>4 DEF StatusPending, AbiRecord
  <2>2. AbiTyped(abi', guest)
    BY <1>1, <2>1 DEF AbiTyped
  <2>3. pc # "selected" /\ pc' # "selected"
    BY <1>4 DEF StatusPending, End, Goto
  <2>4. Len(pending') = Len(pending) + Cardinality(abi.calls)
    BY <1>4, JoinedFutures
  <2>5. Cardinality(abi'.calls) = 0
    BY <2>1, FS_EmptySet, Zenon
  <2>6. SlotCount' = SlotCount
    BY <1>1, <2>3, <2>4, <2>5 DEF SlotCount
  <2>7. QED
    BY <1>1, <2>1, <2>2, <2>6 DEF Budgets, AbiExact
<1>5. ASSUME NEW done \in BOOLEAN, CompletePending(done)
      PROVE  AbiTyped(abi', guest) /\ Budgets'
  <2>1. pc = "selected" /\ pending' = pending
    BY <1>5 DEF CompletePending
  <2>2. SlotCount = Cardinality(abi.calls) + Len(pending) + 1 /\ abi.slots = SlotCount
    BY <2>1 DEF SlotCount, Budgets, AbiExact
  <2>3. abi.slots # 0 /\ abi.slots - 1 \in Nat /\ abi.slots \in Nat
    BY <1>1, <2>2
  <2>4. /\ AbiRecord(abi')
        /\ abi'.slots = abi.slots - 1 /\ abi'.nexts = Without(abi.nexts, call)
        /\ abi'.streams = IF done THEN abi.streams \ {abi.nexts[call]} ELSE abi.streams
        /\ abi'.ready = abi.ready /\ abi'.bytes = abi.bytes /\ abi'.calls = abi.calls
        /\ abi'.nextStream = abi.nextStream /\ abi'.tasks = abi.tasks
        /\ abi'.started = abi.started /\ abi'.violation = abi.violation
        /\ abi'.refused = abi.refused
    BY <1>1, <1>5, <2>3, CompletedFields
  <2>5. /\ DOMAIN Without(abi.nexts, call) \subseteq 1..guest.ids
        /\ Values(Without(abi.nexts, call)) \subseteq 1..guest.streams
    BY <1>1 DEF AbiTyped, Without, Values
  <2>6. abi'.streams \subseteq 1..guest.streams
    BY <1>1, <2>4 DEF AbiTyped
  <2>7. AbiTyped(abi', guest)
    BY <1>1, <2>3, <2>4, <2>5, <2>6 DEF AbiTyped
  <2>8. pc' # "selected"
    BY <1>5, <2>3 DEF CompletePending, Goto
  <2>9. SlotCount' = SlotCount - 1
    BY <1>1, <2>1, <2>2, <2>4, <2>8 DEF SlotCount
  <2>10. abi'.slots = SlotCount - 1 /\ abi'.slots <= MaxPendingCalls
    BY <1>1, <2>2, <2>3, <2>4, RunnerAssumption DEF Budgets, AbiExact
  <2>11. QED
    BY <1>1, <2>4, <2>7, <2>9, <2>10 DEF Budgets, AbiExact
<1>6. ASSUME \/ abi' = abi
             \/ \E refused \in {abi.refused, TRUE} : abi' = [abi EXCEPT !.refused = refused]
             \/ abi' = [abi EXCEPT !.tasks = IF Conforming THEN 0 ELSE @]
      PROVE  AbiTyped(abi', guest) /\ AbiExact(abi', SlotCount, MaxHostCalls) /\ abi'.calls = abi.calls
  <2>1. /\ abi'.calls = abi.calls /\ abi'.ready = abi.ready /\ abi'.bytes = abi.bytes
        /\ abi'.streams = abi.streams /\ abi'.nexts = abi.nexts
        /\ abi'.nextStream = abi.nextStream /\ abi'.tasks \in {0, abi.tasks}
        /\ abi'.started = abi.started /\ abi'.slots = abi.slots
        /\ abi'.violation = abi.violation /\ abi'.refused \in {abi.refused, TRUE}
        /\ AbiRecord(abi')
    BY <1>1, <1>6 DEF AbiRecord
  <2>2. AbiTyped(abi', guest)
    <3>1. abi'.tasks \in Nat
      BY <1>1, <2>1 DEF AbiTyped
    <3>2. abi'.refused \in BOOLEAN
      <4>1. abi.refused \in BOOLEAN /\ (abi'.refused = abi.refused \/ abi'.refused = TRUE)
        BY <1>1, <2>1, Zenon DEF AbiTyped
      <4>2. QED
        BY <4>1, Zenon
    <3>3. QED
      BY <1>1, <2>1, <3>1, <3>2 DEF AbiTyped
  <2>3. abi'.tasks <= MaxTasks
    <3>1. abi.tasks <= MaxTasks /\ 0 <= MaxTasks
      BY RunnerAssumption DEF Budgets, AbiExact
    <3>2. QED
      BY <2>1, <3>1
  <2>4. AbiExact(abi', SlotCount, MaxHostCalls)
    BY <2>1, <2>3 DEF AbiExact, Budgets
  <2>5. QED
    BY <2>1, <2>2, <2>4
<1>7. CASE /\ RunnerStep \/ PollUnasked \/ GuestLeaves \/ Environment \/ Ended
           /\ ~StatusPending /\ ~\E done \in BOOLEAN : CompletePending(done)
  <2>1. AbiTyped(abi', guest) /\ AbiExact(abi', SlotCount, MaxHostCalls) /\ abi'.calls = abi.calls
    BY <1>6, <1>7, AbiElsewhere
  <2>2. CASE ScanOne /\ pc' = "selected"
    <3>1. cursor \in DOMAIN pending /\ pc # "selected" /\ pending' = SwapRemove(pending, cursor)
      BY <2>2 DEF ScanOne, Typed, LoopTyped, End, Goto
    <3>2. Len(pending') = Len(pending) - 1
      BY <1>1, <3>1, RemovedFuture
    <3>3. SlotCount' = SlotCount
      BY <1>1, <2>1, <2>2, <3>1, <3>2 DEF SlotCount
    <3>4. QED
      BY <1>1, <2>1, <3>3 DEF Budgets
  <2>3. CASE ~(ScanOne /\ pc' = "selected")
    <3>1. pending' = pending /\ (pc = "selected" <=> pc' = "selected")
      <4>1. CASE Begin \/ Setup \/ WriteInput \/ Enter \/ Poll \/ ReportTrap \/ StatusComplete
                   \/ StatusRefused
        BY <4>1 DEF Begin, Setup, WriteInput, WriteBuffer, Enter, Poll, ReportTrap, StatusComplete,
           StatusRefused, End, Goto
      <4>2. CASE ScanOne \/ ScanEnd \/ Wake \/ PollUnasked \/ CancelGuest \/ WriteResponse \/ Result
        BY <2>3, <4>2 DEF ScanOne, ScanEnd, Wake, PollUnasked, Rescan, CancelGuest, WriteResponse,
           WriteBuffer, Result, End, Goto
      <4>3. CASE GuestLeaves \/ Environment \/ Ended
        BY <4>3 DEF GuestLeaves, GuestTrap, GuestYield, GuestReturn, Running, Quiet, Environment,
           RequestCancel, ClockExpires, TimerSignals, HostCompletes, Ended, vars
      <4>4. QED
        BY <1>7, <4>1, <4>2, <4>3 DEF RunnerStep
    <3>2. SlotCount' = SlotCount
      BY <2>1, <3>1 DEF SlotCount
    <3>3. QED
      BY <1>1, <2>1, <3>2 DEF Budgets
  <2>4. QED
    BY <2>2, <2>3
<1>8. QED
  BY <1>3, <1>4, <1>5, <1>7 DEF Next

-----------------------------------------------------------------------------
(* While a completion is processed its slot is taken. *)
LEMMA SlotTaken ==
  ASSUME Typed, Budgets, pc = "selected"
  PROVE  abi.slots # 0
<1>1. Cardinality(abi.calls) \in Nat /\ Len(pending) \in Nat
  BY TablesFinite DEF Typed, LoopTyped
<1>2. abi.slots = Cardinality(abi.calls) + Len(pending) + 1
  BY DEF Budgets, AbiExact, SlotCount
<1>3. QED
  BY <1>1, <1>2

LEMMA DeliveryStep ==
  ASSUME Typed, Budgets, Delivery, Next
  PROVE  Delivery'
<1> USE DEF Delivery, End, Goto
<1>1. AbiRecord(abi)
  BY DEF Typed, AbiTyped
<1>2. CASE Begin \/ Setup \/ Enter \/ ReportTrap \/ StatusComplete \/ StatusRefused
  BY <1>2 DEF Begin, Setup, Enter, ReportTrap, StatusComplete, StatusRefused
<1>3. CASE Poll
  BY <1>3 DEF Poll
<1>4. CASE WriteInput \/ WriteResponse
  <2>1. abi'.nexts = abi.nexts /\ call' = call /\ pc \in {"input", "respond"}
    BY <1>1, <1>4 DEF AbiRecord, WriteInput, WriteResponse, WriteBuffer
  <2>2. pc' \in {"enter", "done"}
    BY <1>4 DEF WriteInput, WriteResponse, WriteBuffer
  <2>3. QED
    BY <2>1, <2>2
<1>5. CASE CancelGuest \/ Result
  <2>1. abi'.nexts = abi.nexts /\ call' = call /\ pc \in {"cancel", "result"}
    BY <1>1, <1>5 DEF AbiRecord, CancelGuest, Result
  <2>2. pc' = "done"
    BY <1>5 DEF CancelGuest, Result
  <2>3. QED
    BY <2>1, <2>2
<1>6. CASE StatusPending
  BY <1>6 DEF StatusPending
<1>7. CASE ScanOne
  <2>1. pending \in Seq(Id) /\ cursor \in DOMAIN pending
    <3>1. pending \in Seq(Id) /\ cursor \in Nat \ {0}
      BY DEF Typed, LoopTyped
    <3>2. QED
      BY <1>7, <3>1 DEF ScanOne
  <2>2. pending[cursor] # 0
    <3>1. pending[cursor] \in Id
      BY <2>1
    <3>2. QED
      BY <3>1 DEF Id
  <2>3. pc = "scan" /\ call = 0 /\ abi' = abi
    BY <1>7 DEF ScanOne
  <2>4. QED
    BY <1>7, <2>2, <2>3 DEF ScanOne
<1>8. CASE ScanEnd \/ Wake \/ PollUnasked
  BY <1>8 DEF ScanEnd, Wake, PollUnasked, Rescan
<1>9. ASSUME NEW done \in BOOLEAN, CompletePending(done)
      PROVE  Delivery'
  <2>1. abi.slots # 0
    BY <1>9, SlotTaken DEF CompletePending
  <2>2. abi'.nexts = Without(abi.nexts, call) /\ call' = call
    BY <1>1, <1>9, <2>1, CompletedFields DEF CompletePending
  <2>3. call \notin DOMAIN abi'.nexts
    BY <2>2 DEF Without
  <2>4. pc' \in {"cancel", "respond"}
    BY <1>9, <2>1 DEF CompletePending
  <2>5. QED
    BY <2>2, <2>3, <2>4
<1>10. CASE GuestImport
  BY <1>10, ImportControl
<1>11. CASE GuestLeaves
  BY <1>11 DEF GuestLeaves, GuestTrap, GuestYield, GuestReturn, Running, Quiet
<1>12. CASE Environment \/ Ended
  BY <1>12 DEF Environment, RequestCancel, ClockExpires, TimerSignals, HostCompletes, Ended, vars
<1>13. QED
  BY <1>2, <1>3, <1>4, <1>5, <1>6, <1>7, <1>8, <1>9, <1>10, <1>11, <1>12 DEF Next, RunnerStep

-----------------------------------------------------------------------------
(* What the imports of a guest that keeps the protocol do to its calls:    *)
(* nothing, or one fresh call takes its place in the table.                *)
CallsKept ==
  /\ waits' = waits /\ abi'.calls = abi.calls /\ abi'.nexts = abi.nexts
  /\ abi.streams \subseteq abi'.streams
  /\ abi'.started \in {abi.started, abi.started + 1}

CallAdded(c) ==
  /\ waits' = waits \cup {c} /\ abi'.calls = abi.calls \cup {c} /\ abi'.streams = abi.streams
  /\ c = abi.started + 1 /\ abi'.started = c
  /\ \/ abi'.nexts = abi.nexts
     \/ \E stream \in abi.streams :
          ~StreamBusy(stream) /\ abi'.nexts = With(abi.nexts, c, stream)

LEMMA StoreReadyCalls ==
  ASSUME NEW a, AbiRecord(a), NEW c, NEW size, StoreReady(a, c, size)
  PROVE  /\ abi'.calls = a.calls /\ abi'.nexts = a.nexts /\ abi'.streams = a.streams
         /\ abi'.started = a.started
<1>1. CASE abi' = a
  BY <1>1
<1>2. CASE abi' = [a EXCEPT !.ready = With(@, c, size), !.bytes = @ + size]
  BY <1>2 DEF AbiRecord
<1>3. CASE abi' = [a EXCEPT !.violation = ReadyProblem(a, c, size)]
  BY <1>3 DEF AbiRecord
<1>4. QED
  BY <1>1, <1>2, <1>3 DEF StoreReady, Returns, Traps, Exceeds

LEMMA AcceptPendingCalls ==
  ASSUME AbiRecord(abi), NEW c, c = abi.started + 1, NEW stream, AcceptPending(c, stream),
         stream = 0 \/ (stream \in abi.streams /\ ~StreamBusy(stream))
  PROVE  CallsKept \/ CallAdded(c)
<1>1. CASE /\ abi' = Counted \/ abi' = [Counted EXCEPT !.violation = "PendingHostCalls"]
           /\ waits' = waits
  BY <1>1 DEF AbiRecord, Counted, CallsKept
<1>2. CASE /\ abi' = [Counted EXCEPT
                        !.slots = @ + 1,
                        !.calls = @ \cup {c},
                        !.nexts = IF stream = 0 THEN @ ELSE With(@, c, stream)]
           /\ waits' = waits \cup {c}
  <2>1. PICK nexts : nexts = IF stream = 0 THEN abi.nexts ELSE With(abi.nexts, c, stream)
    OBVIOUS
  <2>2. /\ abi'.calls = abi.calls \cup {c} /\ abi'.streams = abi.streams
        /\ abi'.started = abi.started + 1 /\ abi'.nexts = nexts
    BY <1>2, <2>1 DEF AbiRecord, Counted
  <2>3. QED
    BY <1>2, <2>1, <2>2 DEF CallAdded
<1>3. QED
  BY <1>1, <1>2 DEF AcceptPending, Returns, Traps, Exceeds

LEMMA ImportCalls ==
  ASSUME Typed, Conforming, GuestImport
  PROVE  CallsKept \/ \E c : CallAdded(c)
<1> USE DEF Returns, Traps, Exceeds
<1>1. AbiRecord(abi)
  BY DEF Typed, AbiTyped
<1>2. /\ AbiRecord(Counted) /\ Counted.calls = abi.calls /\ Counted.nexts = abi.nexts
      /\ Counted.streams = abi.streams /\ Counted.started = abi.started + 1
  BY <1>1 DEF AbiRecord, Counted
<1>3. CASE AcquireTask \/ ReleaseTask \/ GrowthRefused
  BY <1>1, <1>3 DEF AbiRecord, AcquireTask, ReleaseTask, GrowthRefused, CallsKept
<1>4. ASSUME NEW c \in Id, TakeResponse(c)
      PROVE  CallsKept
  BY <1>1, <1>4 DEF AbiRecord, TakeResponse, CallsKept
<1>5. ASSUME NEW c \in Id, HostCallOverLimit(c)
      PROVE  CallsKept
  BY <1>1, <1>5 DEF AbiRecord, HostCallOverLimit, CallsKept
<1>6. ASSUME NEW c \in Id, HostCallInvalid(c)
      PROVE  CallsKept
  BY <1>1, <1>2, <1>6 DEF AbiRecord, Counted, HostCallInvalid, CallsKept
<1>7. ASSUME NEW c \in Id, HostCallPending(c)
      PROVE  CallsKept \/ CallAdded(c)
  BY <1>1, <1>7, AcceptPendingCalls DEF HostCallPending, Admitted, Starts
<1>8. ASSUME NEW c \in Id, NEW size \in Size, HostCallReady(c, size)
      PROVE  CallsKept
  BY <1>2, <1>8, StoreReadyCalls DEF HostCallReady, CallsKept
<1>9. ASSUME NEW c \in Id, NEW size \in Size, StreamOpen(c, size)
      PROVE  CallsKept
  <2> DEFINE opened == [Counted EXCEPT !.streams = @ \cup {abi.nextStream},
                                       !.nextStream = @ + 1]
  <2>1. StoreReady(opened, c, size) /\ waits' = waits
    BY <1>9 DEF StreamOpen
  <2>2. SameBut(opened, abi) /\ opened.streams = abi.streams \cup {abi.nextStream}
    BY <1>1, OpenedFields
  <2> HIDE DEF opened
  <2>3. QED
    BY <2>1, <2>2, StoreReadyCalls DEF SameBut, CallsKept
<1>10. ASSUME NEW c \in Id, NEW size \in Size, NEW stream \in Stream, StreamNext(c, stream, size)
       PROVE  CallsKept \/ CallAdded(c)
  <2>1. CASE StoreReady(Counted, c, size) /\ waits' = waits
    BY <1>2, <2>1, StoreReadyCalls DEF CallsKept
  <2>2. CASE ~StreamBusy(stream) /\ stream \in abi.streams /\ AcceptPending(c, stream)
    BY <1>1, <1>10, <2>2, AcceptPendingCalls DEF StreamNext, Admitted, Starts
  <2>3. QED
    BY <1>10, <2>1, <2>2 DEF StreamNext
<1>11. QED
  BY <1>3, <1>4, <1>5, <1>6, <1>7, <1>8, <1>9, <1>10 DEF GuestImport, HostCallStart

-----------------------------------------------------------------------------
(* Each call stays in one place, and each stream has one consumer. *)
CallsInv == CallsApart /\ StreamsExclusive

LEMMA CallsStep ==
  ASSUME Typed, Budgets, Delivery, Conforming, CallsInv, Next
  PROVE  CallsInv'
<1> USE DEF CallsInv
<1>1. /\ AbiRecord(abi) /\ abi.started \in Nat /\ pending \in Seq(Id) /\ abi.calls \subseteq Id
      /\ call \in {0} \cup Id /\ waits \subseteq Id /\ Id \subseteq Nat /\ 0 \notin Id
  BY DEF Typed, AbiTyped, LoopTyped, Id
<1>2. ASSUME UNCHANGED <<pending, call, waits>>, abi'.calls = abi.calls, abi'.nexts = abi.nexts,
             abi.streams \subseteq abi'.streams, abi'.started \in {abi.started, abi.started + 1}
      PROVE  CallsInv'
  <2>1. ASSUME NEW c \in waits
        PROVE  c <= abi'.started
    <3>1. c <= abi.started /\ c \in Nat
      BY <1>1 DEF CallsApart
    <3>2. QED
      BY <1>1, <1>2, <3>1
  <2>2. CallsApart'
    BY <1>2, <2>1 DEF CallsApart, Values
  <2>3. StreamsExclusive'
    BY <1>2 DEF StreamsExclusive, Values
  <2>4. QED
    BY <2>2, <2>3
<1>3. CASE Begin \/ Setup \/ Enter \/ ReportTrap \/ StatusComplete \/ StatusRefused
  BY <1>1, <1>2, <1>3 DEF Begin, Setup, Enter, ReportTrap, StatusComplete, StatusRefused
<1>4. CASE WriteInput \/ WriteResponse \/ CancelGuest \/ Result
  BY <1>1, <1>2, <1>4 DEF AbiRecord, WriteInput, WriteResponse, WriteBuffer, CancelGuest, Result
<1>5. CASE Poll
  <2>1. CASE UNCHANGED <<call, waits>>
    BY <1>2, <1>5, <2>1 DEF Poll
  <2>2. CASE call' = 0 /\ waits' = waits \ {call}
    <3>1. abi' = abi /\ pending' = pending /\ pc = "poll"
      BY <1>5 DEF Poll
    <3>2. CallsApart'
      BY <1>1, <2>2, <3>1 DEF CallsApart, Values
    <3>3. call \notin DOMAIN abi.nexts
      BY <1>1, <3>1 DEF Delivery, Typed, AbiTyped, Id
    <3>4. StreamsExclusive'
      BY <2>2, <3>1, <3>3 DEF StreamsExclusive, Values
    <3>5. QED
      BY <3>2, <3>4
  <2>3. QED
    BY <1>5, <2>1, <2>2 DEF Poll
<1>6. CASE StatusPending
  <2>1. /\ Values(pending') = Values(pending) \cup abi.calls
        /\ \A i, j \in DOMAIN pending' : pending'[i] = pending'[j] => i = j
    BY <1>6, JoinedFutures DEF CallsApart
  <2>2. /\ abi'.calls = {} /\ abi'.nexts = abi.nexts /\ abi'.streams = abi.streams
        /\ abi'.started = abi.started /\ call' = call /\ waits' = waits
    BY <1>1, <1>6 DEF AbiRecord, StatusPending
  <2>3. CallsApart'
    BY <2>1, <2>2 DEF CallsApart
  <2>4. StreamsExclusive'
    BY <2>2 DEF StreamsExclusive, Values
  <2>5. QED
    BY <2>3, <2>4
<1>7. CASE ScanOne
  <2>1. CASE UNCHANGED <<pending, call>>
    BY <1>1, <1>2, <1>7, <2>1 DEF ScanOne
  <2>2. CASE call' = pending[cursor] /\ pending' = SwapRemove(pending, cursor)
    <3>1. /\ abi' = abi /\ waits' = waits /\ pc = "scan" /\ call = 0
          /\ cursor \in DOMAIN pending
      <4>1. cursor \in Nat \ {0}
        BY DEF Typed, LoopTyped
      <4>2. QED
        BY <1>1, <1>7, <4>1 DEF ScanOne, Delivery
    <3>2. /\ Values(pending') = Values(pending) \ {call'} /\ call' \in Values(pending)
          /\ \A i, j \in DOMAIN pending' : pending'[i] = pending'[j] => i = j
          /\ call' \in Id
      <4>1. \A j, k \in DOMAIN pending : pending[j] = pending[k] => j = k
        BY DEF CallsApart
      <4>2. PICK r : r = SwapRemove(pending, cursor)
        OBVIOUS
      <4>3. /\ pending[cursor] \in Id /\ pending[cursor] \in Values(pending)
            /\ Values(r) = Values(pending) \ {pending[cursor]}
            /\ \A j, k \in DOMAIN r : r[j] = r[k] => j = k
        BY <1>1, <3>1, <4>1, <4>2, RemovedFuture
      <4>4. pending' = r
        BY <2>2, <4>2
      <4>5. QED
        BY <2>2, <4>3, <4>4, Zenon
    <3>3. CallsApart'
      <4>1. PICK old : old = Values(pending)
        OBVIOUS
      <4>2. PICK left : left = Values(pending')
        OBVIOUS
      <4>3. call' \in old /\ left = old \ {call'} /\ call' # 0
        BY <3>2, <4>1, <4>2 DEF Id
      <4>4. waits = abi.calls \cup old /\ abi.calls \cap old = {}
        BY <3>1, <4>1 DEF CallsApart
      <4>5. waits' = abi'.calls \cup left \cup ({call'} \ {0})
        BY <3>1, <4>3, <4>4
      <4>6. abi'.calls \cap left = {} /\ call' \notin abi'.calls \cup left
        BY <3>1, <4>3, <4>4
      <4>7. \A c \in waits' : c <= abi'.started
        BY <3>1 DEF CallsApart
      <4>8. QED
        BY <3>2, <4>2, <4>5, <4>6, <4>7 DEF CallsApart
    <3>4. StreamsExclusive'
      BY <3>1 DEF StreamsExclusive, Values
    <3>5. QED
      BY <3>3, <3>4
  <2>3. QED
    BY <1>7, <2>1, <2>2 DEF ScanOne
<1>8. CASE ScanEnd \/ Wake \/ PollUnasked
  BY <1>1, <1>2, <1>8 DEF ScanEnd, Wake, PollUnasked, Rescan
<1>9. ASSUME NEW done \in BOOLEAN, CompletePending(done)
      PROVE  CallsInv'
  <2>1. abi.slots # 0
    BY <1>9, SlotTaken DEF CompletePending
  <2>2. /\ abi'.nexts = Without(abi.nexts, call)
        /\ abi'.streams = IF done THEN abi.streams \ {abi.nexts[call]} ELSE abi.streams
        /\ abi'.calls = abi.calls /\ abi'.started = abi.started
    BY <1>1, <1>9, <2>1, CompletedFields
  <2>3. /\ UNCHANGED <<pending, call, waits>>
        /\ done => call \in DOMAIN abi.nexts
    BY <1>9 DEF CompletePending
  <2>4. CallsApart'
    BY <2>2, <2>3 DEF CallsApart, Values
  <2>5. /\ DOMAIN abi'.nexts = DOMAIN abi.nexts \ {call}
        /\ \A c \in DOMAIN abi'.nexts : abi'.nexts[c] = abi.nexts[c]
    BY <2>2 DEF Without
  <2>6. \A c \in DOMAIN abi'.nexts : abi'.nexts[c] \in abi'.streams
    BY <2>2, <2>3, <2>5 DEF StreamsExclusive, Values
  <2>7. StreamsExclusive'
    BY <2>3, <2>5, <2>6 DEF StreamsExclusive, Values
  <2>8. QED
    BY <2>4, <2>7
<1>10. CASE GuestImport
  <2>1. pending' = pending /\ call' = call /\ pc = "guest" /\ call = 0
    BY <1>1, <1>10, ImportControl DEF Delivery
  <2>2. CASE CallsKept
    BY <1>2, <2>1, <2>2 DEF CallsKept
  <2>3. ASSUME NEW c, CallAdded(c)
        PROVE  CallsInv'
    <3>1. c \notin waits
      BY <1>1, <2>3 DEF CallAdded, CallsApart
    <3>2. /\ waits' = waits \cup {c} /\ abi'.calls = abi.calls \cup {c} /\ c # 0
          /\ abi'.started = c /\ abi.started <= c
      BY <1>1, <2>3 DEF CallAdded
    <3>3. ASSUME NEW d \in waits'
          PROVE  d <= abi'.started
      <4>1. CASE d \in waits
        <5>1. d <= abi.started /\ d \in Nat
          BY <1>1, <4>1 DEF CallsApart
        <5>2. c = abi.started + 1
          BY <2>3 DEF CallAdded
        <5>3. QED
          BY <1>1, <3>2, <5>1, <5>2
      <4>2. CASE d = c
        BY <1>1, <2>3, <3>2, <4>2 DEF CallAdded
      <4>3. QED
        BY <3>2, <4>1, <4>2
    <3>4. CallsApart'
      BY <2>1, <3>1, <3>2, <3>3 DEF CallsApart, Values
    <3>5. ASSUME abi'.nexts = abi.nexts
          PROVE  StreamsExclusive'
      <4>1. abi'.streams = abi.streams
        BY <2>3 DEF CallAdded
      <4>2. QED
        BY <3>2, <3>5, <4>1 DEF StreamsExclusive, Values
    <3>6. ASSUME NEW stream \in abi.streams, ~StreamBusy(stream),
                 abi'.nexts = With(abi.nexts, c, stream)
          PROVE  StreamsExclusive'
      <4>1. /\ DOMAIN abi'.nexts = DOMAIN abi.nexts \cup {c} /\ abi'.nexts[c] = stream
            /\ c \notin DOMAIN abi.nexts
            /\ \A d \in DOMAIN abi.nexts : abi'.nexts[d] = abi.nexts[d]
        BY <3>1, <3>6 DEF With, StreamsExclusive
      <4>2. \A d \in DOMAIN abi.nexts : abi.nexts[d] # stream
        BY <3>6 DEF StreamBusy, Values
      <4>3. abi'.streams = abi.streams
        BY <2>3 DEF CallAdded
      <4>4. QED
        BY <3>2, <4>1, <4>2, <4>3 DEF StreamsExclusive, Values
    <3>7. StreamsExclusive'
      BY <2>3, <3>5, <3>6 DEF CallAdded
    <3>8. QED
      BY <3>4, <3>7
  <2>4. QED
    BY <1>10, <2>2, <2>3, ImportCalls
<1>11. CASE GuestLeaves
  BY <1>1, <1>2, <1>11 DEF GuestLeaves, GuestTrap, GuestYield, GuestReturn
<1>12. CASE Environment
  BY <1>1, <1>2, <1>12 DEF Environment, RequestCancel, ClockExpires, TimerSignals, HostCompletes
<1>13. CASE Ended
  BY <1>1, <1>2, <1>13 DEF Ended, vars
<1>14. QED
  BY <1>3, <1>4, <1>5, <1>6, <1>7, <1>8, <1>9, <1>10, <1>11, <1>12, <1>13 DEF Next, RunnerStep

-----------------------------------------------------------------------------
(* A guest that keeps the protocol is not blamed: a suspended one waits    *)
(* for a call, and that call is in the table or pending.                   *)
LEMMA BlamelessStep ==
  ASSUME Typed, Budgets, Delivery, Conforming, CallsInv, Blameless, Next
  PROVE  Blameless'
<1> USE DEF Blameless, End, Goto
<1>1. Interrupted \in {"none", "Cancelled", "Timeout"} /\ (Interrupted = "Cancelled" => cancelled)
  BY DEF Interrupted
<1>2. pc # "done" => outcome = "none"
  BY DEF Typed, ControlTyped
<1>3. CASE Begin \/ Setup \/ Enter
  BY <1>2, <1>3 DEF Begin, Setup, Enter, world
<1>4. CASE Poll
  <2>1. cancelled' = cancelled
    BY <1>4 DEF Poll, world
  <2>2. CASE Interrupted # "none"
    BY <1>1, <1>4, <2>1, <2>2 DEF Poll
  <2>3. CASE Interrupted = "none"
    <3>1. call # 0 => call \in waits
      BY DEF CallsInv, CallsApart
    <3>2. pc' = "guest" /\ outcome' = outcome
      BY <1>4, <2>3, <3>1 DEF Poll
    <3>3. QED
      BY <1>2, <1>4, <2>1, <3>2 DEF Poll
  <2>4. QED
    BY <2>2, <2>3
<1>5. CASE WriteInput \/ WriteResponse
  BY <1>2, <1>5 DEF WriteInput, WriteResponse, WriteBuffer, world
<1>6. CASE ReportTrap
  <2>1. cancelled' = cancelled /\ pc' = "done"
    BY <1>6 DEF ReportTrap, world
  <2>2. abi.violation \in {"none"} \cup ImportLimits
    BY DEF Typed, AbiTyped
  <2>3. outcome' \in {Interrupted, "Memory", "Fuel", "Wasm"} \cup ImportLimits
    BY <1>6, <2>2 DEF ReportTrap
  <2>4. QED
    BY <1>1, <1>6, <2>1, <2>2, <2>3 DEF ReportTrap, ImportLimits
<1>7. CASE StatusComplete
  BY <1>1, <1>2, <1>7 DEF StatusComplete, world
<1>8. CASE StatusPending
  <2>1. waits # {} /\ call = 0 /\ cancelled' = cancelled
    BY <1>8 DEF StatusPending, Delivery, world
  <2>2. Values(pending') = waits
    <3>1. Values(pending') = Values(pending) \cup abi.calls
      BY <1>8, JoinedFutures
    <3>2. waits = abi.calls \cup Values(pending)
      BY <2>1 DEF CallsInv, CallsApart
    <3>3. QED
      BY <3>1, <3>2
  <2>3. pending' # <<>>
    <3>1. PICK c : c \in Values(pending')
      BY <2>1, <2>2
    <3>2. PICK i : i \in DOMAIN pending'
      BY <3>1 DEF Values
    <3>3. QED
      BY <3>2
  <2>4. pc' = "scan" /\ outcome' = outcome
    BY <1>8, <2>3 DEF StatusPending
  <2>5. QED
    BY <1>2, <1>8, <2>1, <2>4 DEF StatusPending
<1>9. CASE StatusRefused
  BY <1>9 DEF StatusRefused
<1>10. CASE ScanOne
  BY <1>1, <1>2, <1>10 DEF ScanOne, world
<1>11. CASE ScanEnd \/ Wake \/ PollUnasked
  BY <1>2, <1>11 DEF ScanEnd, Wake, PollUnasked, Rescan, world
<1>12. ASSUME NEW done \in BOOLEAN, CompletePending(done)
       PROVE  Blameless'
  <2>1. abi.slots # 0
    BY <1>12, SlotTaken DEF CompletePending
  <2>2. /\ pc' = (IF cancelled THEN "cancel" ELSE "respond") /\ outcome' = outcome
        /\ cancelled' = cancelled /\ pc = "selected"
    BY <1>12, <2>1 DEF CompletePending
  <2>3. QED
    BY <1>2, <2>2
<1>13. CASE CancelGuest \/ Result
  BY <1>2, <1>13 DEF CancelGuest, Result, world
<1>14. CASE GuestImport
  <2>1. cancelled' = cancelled
    BY <1>14 DEF GuestImport, AcquireTask, ReleaseTask, HostCallStart, HostCallOverLimit,
       HostCallInvalid, HostCallPending, HostCallReady, StreamOpen, StreamNext, TakeResponse,
       GrowthRefused, world
  <2>2. QED
    BY <1>2, <1>14, <2>1, ImportControl
<1>15. CASE GuestLeaves
  BY <1>2, <1>15 DEF GuestLeaves, GuestTrap, GuestYield, GuestReturn, Quiet, Running, world
<1>16. CASE Environment
  BY <1>16 DEF Environment, RequestCancel, ClockExpires, TimerSignals, HostCompletes
<1>17. CASE Ended
  BY <1>17 DEF Ended, vars
<1>18. QED
  BY <1>3, <1>4, <1>5, <1>6, <1>7, <1>8, <1>9, <1>10, <1>11, <1>12, <1>13, <1>14, <1>15,
     <1>16, <1>17 DEF Next, RunnerStep

-----------------------------------------------------------------------------
LEMMA InitInv ==
  ASSUME Init
  PROVE  IInv
<1>1. /\ pc = "created" /\ outcome = "none" /\ reply = "none" /\ guest \in Guest
      /\ pending = <<>> /\ cursor = 1 /\ call = 0 /\ waits = {} /\ completed = {}
  BY DEF Init
<1>2. /\ AbiRecord(abi) /\ abi.ready = <<>> /\ abi.bytes = 0 /\ abi.calls = {}
      /\ abi.streams = {} /\ abi.nexts = <<>> /\ abi.nextStream = 1 /\ abi.tasks = 0
      /\ abi.started = 0 /\ abi.slots = 0 /\ abi.violation = "none" /\ abi.refused = FALSE
  BY DEF Init, AbiRecord
<1>3. DOMAIN abi.ready = {} /\ DOMAIN abi.nexts = {} /\ DOMAIN pending = {}
  BY <1>1, <1>2
<1>4. Values(abi.ready) = {} /\ Values(abi.nexts) = {} /\ Values(pending) = {}
  BY <1>3 DEF Values
<1>5. guest.streams + 1 \in Nat /\ 1 <= guest.streams + 1
  BY <1>1, RunnerAssumption
<1>6. TypeOK
  <2>1. abi.nextStream \in 1..(guest.streams + 1)
    BY <1>2, <1>5
  <2>2. /\ abi.tasks \in Nat /\ abi.started \in Nat /\ abi.slots \in Nat /\ abi.bytes \in Nat
        /\ cursor \in Nat \ {0}
    BY <1>1, <1>2
  <2>3. pending \in Seq(Id)
    BY <1>1
  <2>4. abi.refused \in BOOLEAN
    BY <1>2, Zenon
  <2>5. QED
    BY <1>1, <1>2, <1>3, <1>4, <2>1, <2>2, <2>3, <2>4 DEF TypeOK
<1>7. OwnedBytes(abi.ready) = {}
  BY <1>3 DEF OwnedBytes
<1>8. IsFiniteSet({}) /\ Cardinality({}) = 0 /\ Len(<<>>) = 0
  BY FS_EmptySet
<1>9. WithinBudgets /\ IsFiniteSet(OwnedBytes(abi.ready))
  <2>1. /\ Cardinality(abi.calls) = 0 /\ Cardinality(DOMAIN abi.ready) = 0
        /\ Cardinality(OwnedBytes(abi.ready)) = 0 /\ IsFiniteSet(OwnedBytes(abi.ready))
        /\ Len(pending) = 0
    BY <1>1, <1>2, <1>3, <1>7, <1>8, Zenon
  <2>2. MaxHostCalls \in Nat
    BY <1>1, RunnerAssumption DEF MaxHostCalls
  <2>3. QED
    BY <1>1, <1>2, <2>1, <2>2, RunnerAssumption DEF WithinBudgets
<1>10. Delivery
  BY <1>1 DEF Delivery
<1>11. CallsApart
  BY <1>1, <1>2, <1>3, <1>4 DEF CallsApart
<1>12. StreamsExclusive /\ Blameless
  BY <1>1, <1>2, <1>3, <1>4 DEF StreamsExclusive, Blameless
<1>13. QED
  BY <1>1, <1>2, <1>6, <1>9, <1>10, <1>11, <1>12 DEF IInv

LEMMA NextInv ==
  ASSUME IInv, Next
  PROVE  IInv'
<1>1. Typed /\ Budgets /\ Delivery /\ (Conforming => CallsInv /\ Blameless)
  BY TypedParts, BudgetParts DEF IInv, CallsInv
<1>2. guest' = guest /\ guest \in Guest
  BY <1>1, GuestIsConstant DEF Typed
<1>3. AbiTyped(abi', guest) /\ Budgets'
  BY <1>1, AbiStep
<1>4. ControlTyped'
  BY <1>1, ControlStep DEF Typed, AbiTyped
<1>5. LoopTyped'
  BY <1>1, LoopStep
<1>6. Typed'
  BY <1>2, <1>3, <1>4, <1>5 DEF Typed
<1>7. Delivery'
  BY <1>1, DeliveryStep
<1>8. Conforming' => CallsInv' /\ Blameless'
  <2>1. Conforming' <=> Conforming
    BY <1>2 DEF Conforming
  <2>2. QED
    BY <1>1, <2>1, CallsStep, BlamelessStep
<1>9. (guest \in Guest /\ AbiRecord(abi) /\ TypeOK)'
  BY <1>6, TypedParts, PTL
<1>10. (WithinBudgets /\ IsFiniteSet(OwnedBytes(abi.ready)))'
  BY <1>3, BudgetParts, PTL
<1>11. QED
  BY <1>7, <1>8, <1>9, <1>10 DEF IInv, CallsInv

(* What the host counts is what it holds, and every call, stream and place *)
(* agrees, in every state of every guest and for every choice of limits.   *)
THEOREM Invariance == Spec => []IInv
<1>1. Init => IInv
  BY InitInv
<1>2. IInv /\ [Next]_vars => IInv'
  <2>1. CASE UNCHANGED vars
    <3>1. TypeOK' <=> TypeOK
      BY <2>1, ZenonT(30) DEF vars, TypeOK, Id, Stream, Size
    <3>2. WithinBudgets' <=> WithinBudgets
      BY <2>1, Zenon DEF vars, WithinBudgets, MaxHostCalls
    <3>3. Delivery' <=> Delivery
      BY <2>1, Zenon DEF vars, Delivery, MaxHostCalls
    <3>4. /\ CallsApart' <=> CallsApart
          /\ StreamsExclusive' <=> StreamsExclusive
          /\ Conforming' <=> Conforming
      BY <2>1, Zenon DEF vars, CallsApart, StreamsExclusive, Conforming
    <3>5. Blameless' <=> Blameless
      BY <2>1, Zenon DEF vars, Blameless
    <3>6. /\ (guest \in Guest)' <=> guest \in Guest
          /\ AbiRecord(abi') <=> AbiRecord(abi)
          /\ IsFiniteSet(OwnedBytes(abi.ready))' <=> IsFiniteSet(OwnedBytes(abi.ready))
      BY <2>1, Zenon DEF vars
    <3>7. QED
      BY <3>1, <3>2, <3>3, <3>4, <3>5, <3>6 DEF IInv
  <2>2. QED
    BY <2>1, NextInv
<1>3. QED
  BY <1>1, <1>2, PTL DEF Spec

-----------------------------------------------------------------------------
(* A sequence that repeats nothing has as many values as places. *)
LEMMA ValuesCounted ==
  ASSUME NEW S, NEW s \in Seq(S), \A i, j \in DOMAIN s : s[i] = s[j] => i = j
  PROVE  IsFiniteSet(Values(s)) /\ Cardinality(Values(s)) = Len(s)
<1>1. Len(s) \in Nat /\ DOMAIN s = 1..Len(s)
  BY LenProperties
<1>2. \A i \in DOMAIN s : s[i] \in Values(s)
  BY DEF Values
<1>3. \A v \in Values(s) : \E i \in DOMAIN s : s[i] = v
  BY DEF Values
<1>4. s \in [DOMAIN s -> Values(s)]
  BY <1>2
<1>5. s \in Bijection(DOMAIN s, Values(s))
  BY <1>3, <1>4 DEF Bijection, Injection, Surjection, IsInjective
<1>6. ExistsBijection(DOMAIN s, Values(s))
  BY <1>5 DEF ExistsBijection
<1>7. ExistsBijection(1..Len(s), Values(s))
  BY <1>1, <1>6, Zenon
<1>8. QED
  BY <1>1, <1>7, FS_NatBijection, FS_CountingElements

LEMMA CallsCounted ==
  ASSUME Typed, CallsApart
  PROVE  CallsAccounted
<1>1. /\ IsFiniteSet(abi.calls) /\ Cardinality(abi.calls) \in Nat
      /\ pending \in Seq(Id) /\ Len(pending) \in Nat /\ abi.calls \subseteq Id
      /\ call \in {0} \cup Id
  BY TablesFinite DEF Typed, LoopTyped, AbiTyped, Id
<1>2. IsFiniteSet(Values(pending)) /\ Cardinality(Values(pending)) = Len(pending)
  BY <1>1, ValuesCounted DEF CallsApart
<1>3. PICK held : held = abi.calls \cup Values(pending)
  OBVIOUS
<1>4. IsFiniteSet(held) /\ Cardinality(held) = Cardinality(abi.calls) + Len(pending)
  <2>1. /\ IsFiniteSet(held)
        /\ Cardinality(held) = Cardinality(abi.calls) + Cardinality(Values(pending))
             - Cardinality(abi.calls \cap Values(pending))
    BY <1>1, <1>2, <1>3, FS_Union, Zenon
  <2>2. Cardinality(abi.calls \cap Values(pending)) = 0
    BY FS_EmptySet, Zenon DEF CallsApart
  <2>3. QED
    BY <1>1, <1>2, <2>1, <2>2
<1>5. CASE call = 0
  <2>1. waits = held /\ {call} \ {0} = {}
    BY <1>3, <1>5 DEF CallsApart
  <2>2. Cardinality(waits) = Cardinality(held) /\ Cardinality({call} \ {0}) = 0
    BY <2>1, FS_EmptySet, Zenon
  <2>3. Cardinality(waits) = Cardinality(abi.calls) + Len(pending) + Cardinality({call} \ {0})
    BY <1>1, <1>4, <2>2
  <2>4. QED
    BY <2>3 DEF CallsAccounted, CallsApart
<1>6. CASE call # 0
  <2>1. waits = held \cup {call} /\ call \notin held /\ {call} \ {0} = {call}
    BY <1>3, <1>6 DEF CallsApart
  <2>2. Cardinality(held \cup {call}) = Cardinality(held) + 1
    BY <1>4, <2>1, FS_AddElement
  <2>3. Cardinality(waits) = Cardinality(held \cup {call})
    BY <2>1, Zenon
  <2>4. Cardinality({call} \ {0}) = 1
    BY <2>1, FS_Singleton, Zenon
  <2>5. Cardinality(waits) = Cardinality(abi.calls) + Len(pending) + Cardinality({call} \ {0})
    BY <1>1, <1>4, <2>2, <2>3, <2>4
  <2>6. QED
    BY <2>5 DEF CallsAccounted, CallsApart
<1>7. QED
  BY <1>5, <1>6

(* CallsSound: while a guest that keeps the protocol runs, every call its  *)
(* tasks wait for is in exactly one of the import table, the pending       *)
(* futures and the response on its way; a stream has one pending next call *)
(* and stays open for it; and the end is never blamed on the guest.        *)
THEOREM CallsAreSound == Spec => []CallsSound
<1>1. IInv => CallsSound
  <2> SUFFICES ASSUME IInv
               PROVE  CallsSound
    OBVIOUS
  <2>1. Typed /\ TypeOK
    BY TypedParts DEF IInv
  <2>2. Conforming => CallsAccounted /\ StreamsExclusive
    BY <2>1, CallsCounted DEF IInv
  <2>3. ProtocolErrorFree
    BY DEF IInv, Blameless, ProtocolErrorFree
  <2>4. QED
    BY <2>1, <2>2, <2>3 DEF CallsSound
<1>2. QED
  BY <1>1, Invariance, PTL

(* WithinBudgets: whatever the guest does, the slots, the owned bytes, the *)
(* tasks and the started calls the host counts are exact and within the    *)
(* limits of ExecutionLimits.                                              *)
THEOREM BudgetsHold == Spec => []WithinBudgets
<1>1. IInv => WithinBudgets
  BY DEF IInv
<1>2. QED
  BY <1>1, Invariance, PTL

=============================================================================
